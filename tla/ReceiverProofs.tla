--------------------------- MODULE ReceiverProofs ---------------------------
(***************************************************************************)
(* The receiver for any parameters, its threads and the decoder they feed. *)
(*                                                                         *)
(* IqStream, for queues of any length, any number of frequencies and any   *)
(* number of lives: the state has its type; and unless a join timed out, a *)
(* read is on the handle that is open, only one reader lives, and what     *)
(* waits in the queues was heard on the frequency of the moment.           *)
(*                                                                         *)
(* MorseDecoder, for any texts, timings, noise and sample rates: the clock *)
(* is air time, marks and gaps are the runs of the windows heard, and      *)
(* nothing is carried over a retune.                                       *)
(***************************************************************************)
EXTENDS IqStream, MorseDecoder, OperatorLemmas, SequenceTheorems

-----------------------------------------------------------------------------
(* IqStream: types *)

Places == {"none", "test", "reading", "put", "publish", "drop", "insert", "setStop",
           "decode", "feed", "messageTest", "messageDrop", "messageInsert", "onError",
           "done", "dead"}
Starting == {"emptyRows", "getRow", "emptyMessages", "getMessage", "emptyBlocks", "getBlock",
             "retune", "open"}
Publishing == {"publish", "drop", "insert"}
Messaging == {"messageTest", "messageDrop", "messageInsert"}
Blocks == [kind : {"block"}, heard : Freqs]
RowItems == [kind : {"row"}, heard : Freqs, taken : Freqs]
Messages == [kind : {"message"}, heard : SUBSET Freqs, block : Freqs]
Handles == [kind : {"handle"}, of : Lives]
Items == {Error, Nothing} \cup Blocks \cup RowItems \cup Messages \cup Handles

\* What a thread holds at each place.
Holds(pc, item) ==
    /\ pc = "reading" => item \in Handles
    /\ pc = "put" => item \in Blocks
    /\ pc \in Publishing => item \in RowItems \cup {Error}
    /\ pc \in {"decode", "feed"} => item \in RowItems
    /\ pc \in Messaging => item \in Messages

HoldsInv == \A t \in Threads : Holds(At(t), Item(t))

QueueInv ==
    /\ rows \in Seq(RowItems \cup {Error}) /\ Len(rows) <= RowsMax
    /\ messages \in Seq(Messages) /\ Len(messages) <= MessagesMax
    /\ blocks \in Seq(Blocks) /\ Len(blocks) <= BlocksMax
    /\ decoder \subseteq Freqs

MainInv ==
    /\ Serving \/ Stopping \/ main = "closed"
    /\ goal \in Freqs \cup {Shut} /\ entry \in Freqs
    /\ {stopEvent, cwEnabled} \subseteq BOOLEAN
    /\ overruns \in 0 .. MaxOverruns
    /\ life \in 0 .. MaxLives /\ device \in 0 .. MaxLives
    /\ tuned \in [Lives -> Freqs]
    /\ main \in Starting => goal \in Freqs /\ life < MaxLives
    /\ Stopping /\ goal # Shut => life < MaxLives

ThreadInv == thread \in [Threads -> [pc : Places, item : Items]]

TypeInv == MainInv /\ ThreadInv /\ QueueInv /\ HoldsInv

-----------------------------------------------------------------------------

\* What the assumption says of each constant.
LEMMA Sizes ==
    /\ RowsMax \in Nat /\ RowsMax > 0 /\ MessagesMax \in Nat /\ MessagesMax > 0
    /\ BlocksMax \in Nat /\ BlocksMax > 0 /\ MaxLives \in Nat /\ MaxLives > 0
    /\ MaxOverruns \in Nat
<1>1. /\ RowsMax \in Nat \ {0} /\ MessagesMax \in Nat \ {0}
      /\ BlocksMax \in Nat \ {0} /\ MaxLives \in Nat \ {0} /\ MaxOverruns \in Nat
      BY IqAssumption
<1> QED BY <1>1

\* A queue that loses its head or gains an item it has room for keeps its type.
LEMMA QueueKept ==
    ASSUME NEW S, NEW q \in Seq(S), NEW max \in Nat, Len(q) <= max
    PROVE  /\ q # <<>> => Tail(q) \in Seq(S) /\ Len(Tail(q)) <= max
           /\ \A x \in S : Len(q) # max => Append(q, x) \in Seq(S) /\ Len(Append(q, x)) <= max
OBVIOUS

\* Initially no thread runs and the queues are empty.
LEMMA InitType == Init => TypeInv
<1> SUFFICES ASSUME Init PROVE TypeInv
    OBVIOUS
<1>1. MainInv
  <2>2. tuned \in [Lives -> Freqs]
        BY DEF Init
  <2>3. {stopEvent, cwEnabled} \subseteq BOOLEAN
        BY DEF Init
  <2> QED BY Sizes, <2>2, <2>3 DEF Init, MainInv, Serving, Stopping, Starting
<1>2. ThreadInv
      BY DEF Init, ThreadInv, Items, Places
<1>3. QueueInv
      BY Sizes DEF Init, QueueInv
<1>4. HoldsInv
      BY DEF Init, HoldsInv, Holds, At, Publishing, Messaging
<1> QED BY <1>1, <1>2, <1>3, <1>4 DEF TypeInv

\* A thread that moves to a place it may be at, holding what it may hold there,
\* keeps the type of all threads.
LEMMA Moved ==
    ASSUME ThreadInv, HoldsInv, NEW t \in Threads,
           \E pc \in Places, item \in Items : Holds(pc, item) /\ GoWith(t, pc, item)
    PROVE  ThreadInv' /\ HoldsInv'
<1>1. PICK pc \in Places, item \in Items : Holds(pc, item) /\ GoWith(t, pc, item)
      OBVIOUS
<1>2. ThreadInv'
      BY <1>1 DEF ThreadInv, GoWith
<1>3. \A s \in Threads : thread'[s] = IF s = t THEN [pc |-> pc, item |-> item] ELSE thread[s]
      BY <1>1 DEF ThreadInv, GoWith
<1>4. HoldsInv'
      BY <1>1, <1>3 DEF HoldsInv, At, Item
<1> QED BY <1>2, <1>4

\* An exception moves the thread to its handler, or ends it there.
LEMMA RaiseMoves ==
    ASSUME NEW t \in Threads, Raise(t)
    PROVE  \E pc \in Places, i \in Items : Holds(pc, i) /\ GoWith(t, pc, i)
BY DEF Raise, Go, Places, Items, Holds, Publishing, Messaging

\* The steps of the threads keep the type.
LEMMA ThreadType ==
    ASSUME TypeInv, NEW t \in Threads, ThreadStep(t)
    PROVE  TypeInv'
<1> USE DEF TypeInv
<1> DEFINE Moves == \E pc \in Places, i \in Items : Holds(pc, i) /\ GoWith(t, pc, i)
<1>a. /\ At(t) = "reading" => Item(t) \in Handles
      /\ At(t) = "put" => Item(t) \in Blocks
      /\ At(t) \in Publishing => Item(t) \in RowItems \cup {Error}
      /\ At(t) \in {"decode", "feed"} => Item(t) \in RowItems
      /\ At(t) \in Messaging => Item(t) \in Messages
      BY DEF HoldsInv, Holds
<1>b. SUFFICES MainInv' /\ QueueInv' /\ Moves
      BY Moved
<1> USE DEF Publishing, Messaging
<1>1. CASE Read(t)
  <2>1. UNCHANGED <<mainloop, stopEvent, radio, queues, decoder>>
        BY <1>1 DEF Read
  <2>2. Moves
        BY <1>1, Sizes DEF Read, Go, Holds, Places, Items, Handles, Lives, MainInv
  <2> QED BY <2>1, <2>2 DEF mainloop, radio, queues, MainInv, QueueInv, Serving, Stopping
<1>2. CASE Returns(t)
  <2>1. UNCHANGED <<mainloop, stopEvent, radio, queues, decoder>>
        BY <1>2 DEF Returns
  <2>2. Block(tuned[Item(t).of]) \in Blocks
    <3>1. Item(t).of \in Lives
          BY <1>2, <1>a DEF Returns, Handles
    <3>2. tuned[Item(t).of] \in Freqs
          BY <3>1 DEF MainInv
    <3> QED BY <3>2 DEF Block, Blocks
  <2>3. Moves
        BY <1>2, <2>2 DEF Returns, Go, Holds, Places, Items
  <2> QED BY <2>1, <2>3 DEF mainloop, radio, queues, MainInv, QueueInv, Serving, Stopping
<1>3. CASE Put(t)
  <2>1. UNCHANGED <<mainloop, stopEvent, radio, rows, messages, decoder>>
        BY <1>3 DEF Put
  <2>2. Moves
        BY <1>3 DEF Put, Go, Holds, Places, Items
  <2>3. blocks' \in Seq(Blocks) /\ Len(blocks') <= BlocksMax
    <3>1. Item(t) \in Blocks
          BY <1>3, <1>a DEF Put
    <3>2. Len(blocks) # BlocksMax => /\ Append(blocks, Item(t)) \in Seq(Blocks)
                                     /\ Len(Append(blocks, Item(t))) <= BlocksMax
          BY <3>1, Sizes, QueueKept DEF QueueInv
    <3>3. Len(blocks) < BlocksMax => Len(blocks) # BlocksMax
          BY Sizes DEF QueueInv
    <3> QED BY <1>3, <3>2, <3>3 DEF Put, QueueInv
  <2> QED BY <2>1, <2>2, <2>3 DEF mainloop, radio, MainInv, QueueInv, Serving, Stopping
<1>4. CASE TakeBlock(t)
  <2>1. UNCHANGED <<mainloop, stopEvent, radio, rows, messages, decoder>>
        BY <1>4 DEF TakeBlock
  <2>2. blocks' \in Seq(Blocks) /\ Len(blocks') <= BlocksMax
        BY <1>4, Sizes, QueueKept DEF TakeBlock, QueueInv
  <2>3. CASE blocks # <<>> /\ GoWith(t, "publish", Row(blocks[1].heard))
    <3>1. blocks[1] \in Blocks
          BY <2>3 DEF QueueInv
    <3>2. Row(blocks[1].heard) \in RowItems
          BY <3>1 DEF Blocks, Row, RowItems, MainInv
    <3>3. Moves
          BY <2>3, <3>2 DEF Holds, Places, Items
    <3> QED BY <2>1, <2>2, <3>3 DEF mainloop, radio, MainInv, QueueInv, Serving, Stopping
  <2>4. CASE Go(t, "done")
    <3>1. Moves
          BY <2>4 DEF Go, Holds, Places, Items
    <3> QED BY <2>1, <2>2, <3>1 DEF mainloop, radio, MainInv, QueueInv, Serving, Stopping
  <2> QED BY <1>4, <2>3, <2>4 DEF TakeBlock
<1>5. CASE Decode(t)
  <2>1. UNCHANGED <<mainloop, stopEvent, radio, queues, decoder>>
        BY <1>5 DEF Decode
  <2>2. Moves
        BY <1>5, <1>a DEF Decode, Go, Holds, Places, Items
  <2> QED BY <2>1, <2>2 DEF mainloop, radio, queues, MainInv, QueueInv, Serving, Stopping
<1>11. CASE FeedDecoder(t)
  <2>1. UNCHANGED <<mainloop, stopEvent, radio, queues>>
        BY <1>11 DEF FeedDecoder
  <2>2. Item(t).heard \in Freqs /\ decoder \cup {Item(t).heard} \subseteq Freqs
        BY <1>11, <1>a DEF FeedDecoder, RowItems, QueueInv
  <2>3. decoder' \subseteq Freqs
        BY <1>11, <2>2 DEF FeedDecoder, QueueInv
  <2>4. Moves
        BY <1>11, <2>2 DEF FeedDecoder, Go, Holds, Places, Items, Messages
  <2> QED BY <2>1, <2>3, <2>4 DEF mainloop, radio, queues, MainInv, QueueInv, Serving, Stopping
<1>12. CASE MessageTest(t)
  <2>1. UNCHANGED <<mainloop, stopEvent, radio, queues>>
        BY <1>12 DEF MessageTest
  <2>2. Item(t) \in Messages
        BY <1>12, <1>a DEF MessageTest
  <2>3. decoder' \subseteq Freqs
        BY <1>12, <2>2 DEF MessageTest, Messages, QueueInv
  <2>4. Moves
        BY <1>12, <2>2 DEF MessageTest, Holds, Places, Items
  <2> QED BY <2>1, <2>3, <2>4 DEF mainloop, radio, queues, MainInv, QueueInv, Serving, Stopping
<1>6. CASE MessageDrop(t)
  <2>1. UNCHANGED <<mainloop, stopEvent, radio, rows, blocks, decoder>>
        BY <1>6 DEF MessageDrop
  <2>2. messages' \in Seq(Messages) /\ Len(messages') <= MessagesMax
        BY <1>6, Sizes, QueueKept DEF MessageDrop, QueueInv
  <2>3. Moves
        BY <1>6, <1>a, RaiseMoves DEF MessageDrop, Holds, Places, Items
  <2> QED BY <2>1, <2>2, <2>3 DEF mainloop, radio, MainInv, QueueInv, Serving, Stopping
<1>7. CASE MessageInsert(t)
  <2>1. UNCHANGED <<mainloop, stopEvent, radio, rows, blocks, decoder>>
        BY <1>7 DEF MessageInsert
  <2>2. messages' \in Seq(Messages) /\ Len(messages') <= MessagesMax
        BY <1>7, <1>a, Sizes, QueueKept DEF MessageInsert, QueueInv
  <2>3. Moves
        BY <1>7, RaiseMoves DEF MessageInsert, Go, Holds, Places, Items
  <2> QED BY <2>1, <2>2, <2>3 DEF mainloop, radio, MainInv, QueueInv, Serving, Stopping
<1>8. CASE Drop(t)
  <2>1. UNCHANGED <<mainloop, stopEvent, radio, messages, blocks, decoder>>
        BY <1>8 DEF Drop
  <2>2. rows' \in Seq(RowItems \cup {Error}) /\ Len(rows') <= RowsMax
        BY <1>8, Sizes, QueueKept DEF Drop, QueueInv
  <2>3. Moves
        BY <1>8, <1>a, RaiseMoves DEF Drop, Holds, Places, Items
  <2> QED BY <2>1, <2>2, <2>3 DEF mainloop, radio, MainInv, QueueInv, Serving, Stopping
<1>9. CASE Insert(t)
  <2>1. UNCHANGED <<mainloop, stopEvent, radio, messages, blocks, decoder>>
        BY <1>9 DEF Insert
  <2>2. rows' \in Seq(RowItems \cup {Error}) /\ Len(rows') <= RowsMax
        BY <1>9, <1>a, Sizes, QueueKept DEF Insert, QueueInv
  <2>3. Moves
        BY <1>9, <1>a, RaiseMoves DEF Insert, Holds, Places, Items
  <2> QED BY <2>1, <2>2, <2>3 DEF mainloop, radio, MainInv, QueueInv, Serving, Stopping
<1>13. CASE SetStop(t)
  <2>1. UNCHANGED <<mainloop, radio, queues, decoder>> /\ stopEvent' = TRUE
        BY <1>13 DEF SetStop
  <2>2. Moves
        BY <1>13 DEF SetStop, Go, Holds, Places, Items
  <2> QED BY <2>1, <2>2 DEF mainloop, radio, queues, MainInv, QueueInv, Serving, Stopping
<1>10. CASE OnError(t) \/ Publish(t)
  <2>1. UNCHANGED <<mainloop, stopEvent, radio, queues, decoder>>
        BY <1>10 DEF OnError, Publish
  <2>2. Moves
        BY <1>10, <1>a DEF OnError, Publish, Go, Holds, Places, Items
  <2> QED BY <2>1, <2>2 DEF mainloop, radio, queues, MainInv, QueueInv, Serving, Stopping
<1> QED
    BY <1>1, <1>2, <1>3, <1>4, <1>5, <1>6, <1>7, <1>8, <1>9, <1>10, <1>11, <1>12, <1>13
    DEF ThreadStep

\* The steps of the main loop keep the type.
LEMMA MainType ==
    ASSUME TypeInv, TakeStep \/ StopStep \/ Toggle \/ \E g \in Freqs \cup {Shut} : Stop(g)
    PROVE  TypeInv'
<1> USE DEF TypeInv
<1>a. ASSUME UNCHANGED thread PROVE ThreadInv' /\ HoldsInv'
      BY <1>a DEF ThreadInv, HoldsInv, At, Item
<1>b. <<>> \in Seq(RowItems \cup {Error}) /\ <<>> \in Seq(Messages) /\ <<>> \in Seq(Blocks)
      OBVIOUS
<1>1. CASE TakeRow
  <2>1. UNCHANGED <<entry, cwEnabled, overruns, radio, thread, messages, blocks, decoder>>
        BY <1>1 DEF TakeRow
  <2>2. rows' \in Seq(RowItems \cup {Error}) /\ Len(rows') <= RowsMax
        BY <1>1, Sizes, QueueKept DEF TakeRow, QueueInv
  <2>3. QueueInv'
        BY <2>1, <2>2 DEF QueueInv
  <2>4. MainInv'
        BY <1>1, <2>1 DEF TakeRow, MainInv, Serving, Stopping, Starting, radio
  <2> QED BY <2>1, <2>3, <2>4, <1>a
<1>2. CASE Drain
  <2>1. UNCHANGED <<goal, entry, cwEnabled, overruns, stopEvent, radio, thread,
                    rows, blocks, decoder>>
        BY <1>2 DEF Drain
  <2>2. messages' \in Seq(Messages) /\ Len(messages') <= MessagesMax
        BY <1>2, Sizes, QueueKept DEF Drain, QueueInv
  <2>3. QueueInv'
        BY <2>1, <2>2 DEF QueueInv
  <2>4. MainInv'
        BY <1>2, <2>1 DEF Drain, MainInv, Serving, Stopping, Starting, radio
  <2> QED BY <2>1, <2>3, <2>4, <1>a
<1>3. CASE Toggle \/ Reset
  <2>1. UNCHANGED <<goal, entry, overruns, stopEvent, radio, thread, queues>>
        BY <1>3 DEF Toggle, Reset
  <2>2. QueueInv'
        BY <1>3, <2>1 DEF Toggle, Reset, QueueInv, queues
  <2>3. cwEnabled' \in BOOLEAN
        BY <1>3, IqAssumption DEF Toggle, Reset, MainInv
  <2>4. MainInv'
        BY <1>3, <2>1, <2>3 DEF Toggle, Reset, MainInv, Serving, Stopping, Starting, radio
  <2> QED BY <2>1, <2>2, <2>4, <1>a
<1>8. CASE Unmessage \/ EmptyMessages
  <2>1. UNCHANGED <<entry, cwEnabled, overruns, radio, thread, rows, blocks, decoder>>
        BY <1>8 DEF Unmessage, EmptyMessages
  <2>2. messages' \in Seq(Messages) /\ Len(messages') <= MessagesMax
        BY <1>8, Sizes, QueueKept DEF Unmessage, EmptyMessages, Emptying, QueueInv
  <2>3. QueueInv'
        BY <2>1, <2>2 DEF QueueInv
  <2>4. MainInv'
        BY <1>8, <2>1
        DEF Unmessage, EmptyMessages, Emptying, MainInv, Serving, Stopping, Starting, radio
  <2> QED BY <2>1, <2>3, <2>4, <1>a
<1>9. CASE EmptyRows
  <2>1. UNCHANGED <<entry, cwEnabled, overruns, radio, thread, messages, blocks, decoder>>
        BY <1>9 DEF EmptyRows
  <2>2. rows' \in Seq(RowItems \cup {Error}) /\ Len(rows') <= RowsMax
        BY <1>9, Sizes, QueueKept DEF EmptyRows, Emptying, QueueInv
  <2>3. QueueInv'
        BY <2>1, <2>2 DEF QueueInv
  <2>4. MainInv'
        BY <1>9, <2>1 DEF EmptyRows, Emptying, MainInv, Serving, Stopping, Starting, radio
  <2> QED BY <2>1, <2>3, <2>4, <1>a
<1>10. CASE EmptyBlocks
  <2>1. UNCHANGED <<entry, cwEnabled, overruns, radio, thread, rows, messages, decoder>>
        BY <1>10 DEF EmptyBlocks
  <2>2. blocks' \in Seq(Blocks) /\ Len(blocks') <= BlocksMax
        BY <1>10, Sizes, QueueKept DEF EmptyBlocks, Emptying, QueueInv
  <2>3. QueueInv'
        BY <2>1, <2>2 DEF QueueInv
  <2>4. MainInv'
        BY <1>10, <2>1 DEF EmptyBlocks, Emptying, MainInv, Serving, Stopping, Starting, radio
  <2> QED BY <2>1, <2>3, <2>4, <1>a
<1>11. CASE TakeEntry
  <2>1. UNCHANGED <<goal, cwEnabled, overruns, stopEvent, radio, thread, queues>>
        BY <1>11 DEF TakeEntry
  <2>2. QueueInv'
        BY <1>11, <2>1 DEF TakeEntry, QueueInv, queues
  <2>3. MainInv'
        BY <1>11, <2>1 DEF TakeEntry, MainInv, Serving, Stopping, Starting, radio
  <2> QED BY <2>1, <2>2, <2>3, <1>a
<1>4. ASSUME NEW g \in Freqs \cup {Shut}, Stop(g) PROVE TypeInv'
  <2>1. UNCHANGED <<entry, cwEnabled, overruns, radio, thread, queues, decoder>>
        BY <1>4 DEF Stop
  <2>2. QueueInv'
        BY <2>1 DEF QueueInv, queues
  <2>3. MainInv'
        BY <1>4, <2>1, Sizes DEF Stop, MainInv, Serving, Stopping, Starting, radio
  <2> QED BY <2>1, <2>2, <2>3, <1>a
<1>5. CASE JoinReader \/ JoinProcessor
  <2>1. UNCHANGED <<goal, entry, cwEnabled, stopEvent, radio, thread, queues, decoder>>
        BY <1>5 DEF JoinReader, JoinProcessor, Join
  <2>2. QueueInv'
        BY <2>1 DEF QueueInv, queues
  <2>3. overruns' \in 0 .. MaxOverruns
        BY <1>5, Sizes DEF JoinReader, JoinProcessor, Join, MainInv
  <2>4. MainInv'
        BY <1>5, <2>1, <2>3
        DEF JoinReader, JoinProcessor, Join, MainInv, Serving, Stopping, Starting, radio
  <2> QED BY <2>1, <2>2, <2>4, <1>a
<1>6. CASE CloseDevice
  <2>1. UNCHANGED <<goal, entry, cwEnabled, overruns, stopEvent, life, tuned, thread, queues,
                    decoder>>
        BY <1>6 DEF CloseDevice
  <2>2. QueueInv'
        BY <2>1 DEF QueueInv, queues
  <2>3. MainInv'
        BY <1>6, <2>1, Sizes DEF CloseDevice, MainInv, Serving, Stopping, Starting
  <2> QED BY <2>1, <2>2, <2>3, <1>a
<1>7. CASE Open
  <2>1. UNCHANGED <<entry, cwEnabled, overruns, queues, decoder>>
        BY <1>7 DEF Open
  <2>2. QueueInv'
        BY <2>1 DEF QueueInv, queues
  <2>3. CASE life' = life + 1
    <3>1. /\ device' = life' /\ tuned' = [tuned EXCEPT ![life'] = entry]
          /\ stopEvent' = FALSE /\ main' = "run" /\ UNCHANGED goal
          /\ thread' = [t \in Threads |->
                IF t[2] = life' THEN [thread[t] EXCEPT !.pc = "test"] ELSE thread[t]]
          BY <1>7, <2>3 DEF Open, MainInv, radio
    <3>2. life' \in 0 .. MaxLives
          BY <1>7, <2>3, Sizes DEF Open, MainInv, Starting
    <3>3. tuned' \in [Lives -> Freqs]
          BY <3>1 DEF MainInv
    <3>4. MainInv'
          BY <2>1, <3>1, <3>2, <3>3 DEF MainInv, Serving, Stopping, Starting
    <3>5. \A t \in Threads : thread'[t].item = thread[t].item
                              /\ thread'[t].pc \in {"test", thread[t].pc}
                              /\ thread'[t] \in [pc : Places, item : Items]
          BY <3>1 DEF ThreadInv, Places
    <3>6. ThreadInv'
          BY <3>1, <3>5 DEF ThreadInv
    <3>7. HoldsInv'
          BY <3>5 DEF HoldsInv, Holds, At, Item, Publishing, Messaging
    <3> QED BY <2>2, <3>4, <3>6, <3>7
  <2>4. CASE main' = "closeDevice"
    <3>1. UNCHANGED <<radio, thread, stopEvent>> /\ goal' = Shut
          BY <1>7, <2>4 DEF Open
    <3>2. MainInv'
          BY <2>1, <2>4, <3>1 DEF MainInv, Serving, Stopping, Starting, radio
    <3> QED BY <2>2, <3>1, <3>2, <1>a
  <2> QED BY <1>7, <2>3, <2>4 DEF Open
<1> QED
    BY <1>1, <1>2, <1>3, <1>4, <1>5, <1>6, <1>7, <1>8, <1>9, <1>10, <1>11
    DEF TakeStep, StopStep, StartStep

\* A step of no process keeps the type.
LEMMA StutterType == TypeInv /\ UNCHANGED vars => TypeInv'
<1> SUFFICES ASSUME TypeInv, UNCHANGED vars PROVE TypeInv'
    OBVIOUS
<1>1. MainInv'
      BY DEF TypeInv, MainInv, vars, mainloop, radio, Serving, Stopping, Starting
<1>2. QueueInv'
      BY DEF TypeInv, QueueInv, vars, queues
<1>3. ThreadInv' /\ HoldsInv'
      BY DEF TypeInv, ThreadInv, HoldsInv, At, Item, vars
<1> QED BY <1>1, <1>2, <1>3 DEF TypeInv

\* Every place a thread is at holds what it may, and no queue outgrows its
\* maxsize, in every reachable state.
THEOREM TypeAlways == Spec => []TypeInv
<1>1. ASSUME TypeInv, [Next]_vars PROVE TypeInv'
      BY <1>1, ThreadType, MainType, StutterType DEF Next
<1> QED BY <1>1, InitType, PTL DEF Spec

\* The type invariant.
THEOREM TypeCorrect == Spec => []TypeOK
<1>1. TypeInv => TypeOK
  <2> SUFFICES ASSUME TypeInv PROVE TypeOK
      OBVIOUS
  <2>1. \A t \in Threads : At(t) \in Places
        BY DEF TypeInv, ThreadInv, At
  <2> QED BY <2>1 DEF TypeInv, MainInv, QueueInv, TypeOK, Places
<1> QED BY <1>1, TypeAlways, PTL

-----------------------------------------------------------------------------
(* What holds as long as no join timed out *)

\* Only the threads of this life run, and none outlives its join.
OwnInv ==
    /\ \A t \in Threads : t[2] # life => Ended(t)
    /\ main \in Starting \cup {"joinProcessor", "closeDevice", "closed"} =>
            \A t \in Threads : t[1] = "reader" => Ended(t)
    /\ main \in Starting \cup {"closeDevice", "closed"} => \A t \in Threads : Ended(t)

\* start() has no handle, and the queues it is through with stay empty.
EmptiedInv ==
    /\ main \in Starting => device = 0
    /\ main \in {"emptyMessages", "getMessage", "emptyBlocks", "getBlock", "retune"} =>
            rows = <<>>
    /\ main \in {"emptyBlocks", "getBlock", "retune"} => messages = <<>>
    /\ main = "retune" => blocks = <<>>

\* Which places are whose: a reader publishes nothing but its error.
RoleInv == \A t \in Threads :
    /\ At(t) \in Messaging \cup {"decode", "feed"} => t[1] = "processor"
    /\ At(t) \in Publishing /\ Item(t) # Error => t[1] = "processor"

\* What is held at each place was heard on the frequency of the moment.
HeardAt(pc, item) ==
    /\ pc = "reading" => item.of = device
    /\ pc = "put" => item.heard = entry
    /\ pc \in Publishing => HeardHere(item)
    /\ pc \in {"decode", "feed"} => item.heard = entry
    /\ pc \in Messaging => item.heard = {entry} /\ item.block = entry

HeardInv ==
    /\ device # 0 => tuned[device] = entry
    /\ decoder \subseteq {entry}
    /\ \A i \in DOMAIN rows : HeardHere(rows[i])
    /\ \A i \in DOMAIN messages : messages[i].heard = {entry}
    /\ \A i \in DOMAIN blocks : blocks[i].heard = entry
    /\ \A t \in Threads : HeardAt(At(t), Item(t))

\* The one message that may still come is queued, or its thread is at it.
QuietInv ==
    ~cwEnabled /\ main \notin {"reset", "unmessage", "unmessageGet"} =>
        \/ messages = <<>>
        \/ /\ Len(messages) <= 1
           /\ \A t \in Threads : At(t) \notin Messaging \cup {"feed"}

OnTime == OwnInv /\ EmptiedInv /\ HeardInv /\ QuietInv
Inv == TypeInv /\ RoleInv /\ (overruns = 0 => OnTime)

\* Where a thread is after it went there, and that the others stay.
LEMMA GoesTo ==
    ASSUME ThreadInv, NEW t \in Threads, NEW pc, NEW item, GoWith(t, pc, item)
    PROVE  /\ At(t)' = pc /\ Item(t)' = item
           /\ \A s \in Threads : s # t => At(s)' = At(s) /\ Item(s)' = Item(s)
BY DEF ThreadInv, GoWith, At, Item

\* A thread's step moves that thread alone, and it had not ended.
LEMMA OneThread ==
    ASSUME ThreadInv, NEW t \in Threads, ThreadStep(t)
    PROVE  /\ ~Ended(t) /\ UNCHANGED <<mainloop, radio>>
           /\ \A s \in Threads : s # t => At(s)' = At(s) /\ Item(s)' = Item(s)
<1> USE DEF Read, Returns, Put, TakeBlock, Decode, FeedDecoder, MessageTest, MessageDrop,
            MessageInsert, Publish, Drop, Insert, SetStop, OnError
<1>1. ~Ended(t)
      BY DEF ThreadStep, Ended
<1>2. UNCHANGED <<mainloop, radio>>
      BY DEF ThreadStep
<1>3. \E pc, item : GoWith(t, pc, item)
  <2> USE DEF Go, Raise
  <2>1. CASE Read(t) \/ Returns(t) \/ Put(t)
        BY <2>1
  <2>2. CASE TakeBlock(t) \/ OnError(t) \/ Publish(t) \/ SetStop(t)
        BY <2>2
  <2>3. CASE Decode(t) \/ FeedDecoder(t) \/ MessageTest(t)
        BY <2>3
  <2>4. CASE MessageDrop(t) \/ MessageInsert(t)
        BY <2>4
  <2>5. CASE Drop(t) \/ Insert(t)
        BY <2>5
  <2> QED BY <2>1, <2>2, <2>3, <2>4, <2>5 DEF ThreadStep
<1> QED BY <1>1, <1>2, <1>3, GoesTo

\* Reader and processor keep to their places.
LEMMA ThreadRole ==
    ASSUME TypeInv, RoleInv, NEW t \in Threads, ThreadStep(t)
    PROVE  RoleInv'
<1> USE DEF Go, Publishing, Messaging
<1>1. ThreadInv /\ \A s \in Threads : s # t => At(s)' = At(s) /\ Item(s)' = Item(s)
      BY OneThread DEF TypeInv
<1>2. /\ At(t)' \in Messaging \cup {"decode", "feed"} => t[1] = "processor"
      /\ At(t)' \in Publishing /\ Item(t)' # Error => t[1] = "processor"
  <2>1. CASE Read(t) \/ Returns(t) \/ Put(t) \/ SetStop(t)
        BY <1>1, <2>1, GoesTo DEF Read, Returns, Put, SetStop
  <2>2. CASE TakeBlock(t)
        BY <2>2 DEF TakeBlock, Threads, Roles
  <2>3. CASE OnError(t)
        BY <1>1, <2>3, GoesTo DEF OnError
  <2>4. CASE Decode(t) \/ FeedDecoder(t) \/ MessageTest(t) \/ MessageDrop(t) \/ MessageInsert(t)
        BY <2>4 DEF RoleInv, Decode, FeedDecoder, MessageTest, MessageDrop, MessageInsert
  <2>5. CASE Drop(t) \/ Publish(t)
        BY <1>1, <2>5, GoesTo DEF RoleInv, Drop, Publish, Raise
  <2>6. CASE Insert(t)
        BY <1>1, <2>6, GoesTo DEF RoleInv, Insert, Raise
  <2> QED BY <2>1, <2>2, <2>3, <2>4, <2>5, <2>6 DEF ThreadStep
<1> QED BY <1>1, <1>2 DEF RoleInv

\* A thread that runs belongs to this life, before and after its step.
LEMMA ThreadOwn ==
    ASSUME TypeInv, OwnInv, NEW t \in Threads, ThreadStep(t)
    PROVE  OwnInv'
<1>1. /\ ~Ended(t) /\ UNCHANGED <<mainloop, radio>>
      /\ \A s \in Threads : s # t => At(s)' = At(s)
      BY OneThread DEF TypeInv
<1> QED BY <1>1 DEF OwnInv, Ended, mainloop, radio

\* start() empties the queues when no thread runs.
LEMMA ThreadEmptied ==
    ASSUME TypeInv, OwnInv, NEW t \in Threads, ThreadStep(t)
    PROVE  EmptiedInv'
<1>1. ~Ended(t) /\ UNCHANGED <<mainloop, radio>>
      BY OneThread DEF TypeInv
<1>2. main \notin Starting /\ main' = main
      BY <1>1 DEF OwnInv, mainloop
<1> QED BY <1>2 DEF EmptiedInv, Starting

\* What a thread reads, takes, decodes and publishes stays of this frequency.
LEMMA ThreadHeard ==
    ASSUME TypeInv, RoleInv, HeardInv, NEW t \in Threads, ThreadStep(t)
    PROVE  HeardInv'
<1> USE DEF Go, HeardHere, Publishing, Messaging
<1>1. /\ ThreadInv /\ UNCHANGED <<mainloop, radio>>
      /\ \A s \in Threads : s # t => At(s)' = At(s) /\ Item(s)' = Item(s)
      BY OneThread DEF TypeInv
<1>2. entry' = entry /\ device' = device /\ tuned' = tuned
      BY <1>1 DEF mainloop, radio
<1>a. Holds(At(t), Item(t)) /\ HeardAt(At(t), Item(t))
      BY DEF TypeInv, HoldsInv, HeardInv
<1>b. QueueInv
      BY DEF TypeInv
<1>3. SUFFICES /\ decoder' \subseteq {entry}
               /\ \A i \in DOMAIN rows' : HeardHere(rows'[i])
               /\ \A i \in DOMAIN messages' : messages'[i].heard = {entry}
               /\ \A i \in DOMAIN blocks' : blocks'[i].heard = entry
               /\ HeardAt(At(t)', Item(t)')
      BY <1>1, <1>2 DEF HeardInv, HeardAt
<1>4. CASE Read(t)
  <2>1. UNCHANGED <<queues, decoder>>
        BY <1>4 DEF Read
  <2>2. HeardAt(At(t)', Item(t)')
        BY <1>1, <1>4, GoesTo DEF Read, HeardAt
  <2> QED BY <2>1, <2>2 DEF HeardInv, queues
<1>5. CASE Returns(t)
  <2>1. UNCHANGED <<queues, decoder>>
        BY <1>5 DEF Returns
  <2>2. tuned[Item(t).of] = entry
    <3>1. Item(t).of \in Lives /\ Item(t).of = device
          BY <1>5, <1>a DEF Returns, Holds, Handles, HeardAt
    <3>2. device # 0
          BY <3>1 DEF Lives
    <3> QED BY <3>1, <3>2 DEF HeardInv
  <2>3. HeardAt(At(t)', Item(t)')
        BY <1>1, <1>5, <2>2, GoesTo DEF Returns, HeardAt, Block
  <2> QED BY <2>1, <2>3 DEF HeardInv, queues
<1>6. CASE Put(t)
  <2>1. UNCHANGED <<rows, messages, decoder>>
        BY <1>6 DEF Put
  <2>2. HeardAt(At(t)', Item(t)')
        BY <1>1, <1>6, GoesTo DEF Put, HeardAt
  <2>3. \A i \in DOMAIN blocks' : blocks'[i].heard = entry
    <3>1. Item(t) \in Blocks /\ Item(t).heard = entry
          BY <1>6, <1>a DEF Put, Holds, HeardAt
    <3>2. \A i \in DOMAIN Append(blocks, Item(t)) : Append(blocks, Item(t))[i].heard = entry
          BY <3>1, <1>b DEF HeardInv, QueueInv
    <3> QED BY <1>6, <3>2 DEF Put, HeardInv
  <2> QED BY <2>1, <2>2, <2>3 DEF HeardInv
<1>7. CASE TakeBlock(t)
  <2>1. UNCHANGED <<rows, messages, decoder>>
        BY <1>7 DEF TakeBlock
  <2>2. \A i \in DOMAIN blocks' : blocks'[i].heard = entry
    <3>1. blocks # <<>> => \A i \in DOMAIN Tail(blocks) : Tail(blocks)[i].heard = entry
          BY <1>b DEF HeardInv, QueueInv
    <3> QED BY <1>7, <3>1 DEF TakeBlock, HeardInv
  <2>3. HeardAt(At(t)', Item(t)')
    <3>1. blocks # <<>> => HeardHere(Row(blocks[1].heard))
          BY <1>b DEF HeardInv, QueueInv, Row
    <3> QED BY <1>1, <1>7, <3>1, GoesTo DEF TakeBlock, HeardAt
  <2> QED BY <2>1, <2>2, <2>3 DEF HeardInv
<1>8. CASE Decode(t)
  <2>1. UNCHANGED <<queues, decoder>>
        BY <1>8 DEF Decode
  <2>2. HeardAt(At(t)', Item(t)')
        BY <1>1, <1>8, <1>a, GoesTo DEF Decode, HeardAt
  <2> QED BY <2>1, <2>2 DEF HeardInv, queues
<1>14. CASE FeedDecoder(t)
  <2>1. UNCHANGED queues
        BY <1>14 DEF FeedDecoder
  <2>2. Item(t).heard = entry /\ decoder \cup {Item(t).heard} = {entry}
        BY <1>14, <1>a DEF FeedDecoder, HeardAt, HeardInv
  <2>3. decoder' \subseteq {entry}
        BY <1>14, <2>2 DEF FeedDecoder, HeardInv
  <2>4. HeardAt(At(t)', Item(t)')
        BY <1>1, <1>14, <2>2, GoesTo DEF FeedDecoder, HeardAt
  <2> QED BY <2>1, <2>3, <2>4 DEF HeardInv, queues
<1>15. CASE MessageTest(t)
  <2>1. UNCHANGED queues
        BY <1>15 DEF MessageTest
  <2>2. Item(t).heard = {entry} /\ Item(t).block = entry
        BY <1>15, <1>a DEF MessageTest, HeardAt
  <2>3. decoder' \subseteq {entry}
        BY <1>15, <2>2 DEF MessageTest, HeardInv
  <2>4. HeardAt(At(t)', Item(t)')
        BY <1>1, <1>15, <2>2, GoesTo DEF MessageTest, HeardAt
  <2> QED BY <2>1, <2>3, <2>4 DEF HeardInv, queues
<1>9. CASE MessageDrop(t)
  <2>1. UNCHANGED <<rows, blocks, decoder>>
        BY <1>9 DEF MessageDrop
  <2>2. \A i \in DOMAIN messages' : messages'[i].heard = {entry}
    <3>1. messages # <<>> => \A i \in DOMAIN Tail(messages) : Tail(messages)[i].heard = {entry}
          BY <1>b DEF HeardInv, QueueInv
    <3> QED BY <1>9, <3>1 DEF MessageDrop, HeardInv
  <2>3. HeardAt(At(t)', Item(t)')
        BY <1>1, <1>9, <1>a, GoesTo DEF MessageDrop, Raise, HeardAt
  <2> QED BY <2>1, <2>2, <2>3 DEF HeardInv
<1>10. CASE MessageInsert(t)
  <2>1. UNCHANGED <<rows, blocks, decoder>>
        BY <1>10 DEF MessageInsert
  <2>2. \A i \in DOMAIN messages' : messages'[i].heard = {entry}
    <3>1. Item(t) \in Messages /\ Item(t).heard = {entry}
          BY <1>10, <1>a DEF MessageInsert, Holds, HeardAt
    <3>2. \A i \in DOMAIN Append(messages, Item(t)) :
                Append(messages, Item(t))[i].heard = {entry}
          BY <3>1, <1>b DEF HeardInv, QueueInv
    <3> QED BY <1>10, <3>2 DEF MessageInsert, HeardInv
  <2>3. HeardAt(At(t)', Item(t)')
        BY <1>1, <1>10, GoesTo DEF MessageInsert, Raise, HeardAt
  <2> QED BY <2>1, <2>2, <2>3 DEF HeardInv
<1>11. CASE Drop(t)
  <2>1. UNCHANGED <<messages, blocks, decoder>>
        BY <1>11 DEF Drop
  <2>2. \A i \in DOMAIN rows' : HeardHere(rows'[i])
    <3>1. rows # <<>> => \A i \in DOMAIN Tail(rows) : HeardHere(Tail(rows)[i])
          BY <1>b DEF HeardInv, QueueInv
    <3> QED BY <1>11, <3>1 DEF Drop, HeardInv
  <2>3. HeardAt(At(t)', Item(t)')
        BY <1>1, <1>11, <1>a, GoesTo DEF Drop, Raise, HeardAt
  <2> QED BY <2>1, <2>2, <2>3 DEF HeardInv
<1>12. CASE Insert(t)
  <2>1. UNCHANGED <<messages, blocks, decoder>>
        BY <1>12 DEF Insert
  <2>2. HeardHere(Item(t)) /\ Item(t) \in RowItems \cup {Error}
        BY <1>12, <1>a DEF Insert, Holds, HeardAt
  <2>3. \A i \in DOMAIN rows' : HeardHere(rows'[i])
    <3>1. \A i \in DOMAIN Append(rows, Item(t)) : HeardHere(Append(rows, Item(t))[i])
          BY <2>2, <1>b DEF HeardInv, QueueInv
    <3> QED BY <1>12, <3>1 DEF Insert, HeardInv
  <2>4. HeardAt(At(t)', Item(t)')
        BY <1>1, <1>12, <2>2, GoesTo DEF Insert, Raise, HeardAt
  <2> QED BY <2>1, <2>3, <2>4 DEF HeardInv
<1>13. CASE OnError(t) \/ Publish(t)
  <2>1. UNCHANGED <<queues, decoder>>
        BY <1>13 DEF OnError, Publish
  <2>2. HeardAt(At(t)', Item(t)')
        BY <1>1, <1>13, <1>a, GoesTo DEF OnError, Publish, HeardAt
  <2> QED BY <2>1, <2>2 DEF HeardInv, queues
<1>16. CASE SetStop(t)
  <2>1. UNCHANGED <<queues, decoder>>
        BY <1>16 DEF SetStop
  <2>2. HeardAt(At(t)', Item(t)')
        BY <1>1, <1>16, GoesTo DEF SetStop, HeardAt
  <2> QED BY <2>1, <2>2 DEF HeardInv, queues
<1> QED
    BY <1>4, <1>5, <1>6, <1>7, <1>8, <1>9, <1>10, <1>11, <1>12, <1>13, <1>14, <1>15, <1>16
    DEF ThreadStep

\* Switched off, only the message that was being decoded is still delivered.
LEMMA ThreadQuiet ==
    ASSUME TypeInv, RoleInv, OwnInv, QuietInv, NEW t \in Threads, ThreadStep(t)
    PROVE  QuietInv'
<1> USE DEF Go, Messaging
<1>1. /\ ThreadInv /\ ~Ended(t) /\ UNCHANGED <<mainloop, radio>>
      /\ \A s \in Threads : s # t => At(s)' = At(s) /\ Item(s)' = Item(s)
      BY OneThread DEF TypeInv
<1>2. QueueInv
      BY DEF TypeInv
<1>3. SUFFICES ASSUME ~cwEnabled, main \notin {"reset", "unmessage", "unmessageGet"}
               PROVE  \/ messages' = <<>>
                      \/ /\ Len(messages') <= 1
                         /\ \A s \in Threads : At(s)' \notin Messaging \cup {"feed"}
      BY <1>1 DEF QuietInv, mainloop
<1>4. CASE MessageInsert(t)
  <2>1. messages = <<>> /\ t[1] = "processor" /\ t[2] = life
        BY <1>1, <1>3, <1>4 DEF MessageInsert, QuietInv, RoleInv, OwnInv
  <2>2. \A s \in Threads : At(s) \in Messaging \cup {"feed"} => s = t
    <3>1. SUFFICES ASSUME NEW s \in Threads, At(s) \in Messaging \cup {"feed"}
                   PROVE  s = t
          OBVIOUS
    <3>2. s[1] = "processor" /\ s[2] = life
          BY <3>1 DEF RoleInv, OwnInv, Ended
    <3> QED BY <2>1, <3>2 DEF Threads
  <2>3. At(t)' \notin Messaging \cup {"feed"}
        BY <1>1, <1>4, GoesTo DEF MessageInsert, Raise
  <2>4. messages' = <<>> \/ Len(messages') <= 1
    <3>1. Item(t) \in Messages
          BY <1>4 DEF TypeInv, HoldsInv, Holds, MessageInsert
    <3>2. Len(Append(<<>>, Item(t))) = 1
          BY <3>1
    <3> QED BY <1>4, <2>1, <3>2 DEF MessageInsert
  <2> QED BY <1>1, <2>2, <2>3, <2>4
<1>5. CASE FeedDecoder(t) \/ MessageTest(t) \/ MessageDrop(t)
      BY <1>3, <1>5 DEF FeedDecoder, MessageTest, MessageDrop, QuietInv, queues
<1>6. CASE ~MessageInsert(t) /\ ~(FeedDecoder(t) \/ MessageTest(t) \/ MessageDrop(t))
  <2>1. messages' = messages
    <3>1. CASE Read(t) \/ Returns(t) \/ Put(t)
          BY <3>1 DEF Read, Returns, Put, queues
    <3>2. CASE TakeBlock(t) \/ Decode(t)
          BY <3>2 DEF TakeBlock, Decode, queues
    <3>3. CASE Publish(t) \/ Drop(t) \/ Insert(t) \/ SetStop(t) \/ OnError(t)
          BY <3>3 DEF Publish, Drop, Insert, SetStop, OnError, queues
    <3> QED BY <1>6, <3>1, <3>2, <3>3 DEF ThreadStep
  <2>2. At(t)' \notin Messaging \cup {"feed"}
    <3>1. CASE Read(t) \/ Returns(t) \/ Put(t)
          BY <1>1, <3>1, GoesTo DEF Read, Returns, Put
    <3>2. CASE TakeBlock(t) \/ OnError(t) \/ Publish(t) \/ SetStop(t)
          BY <1>1, <3>2, GoesTo DEF TakeBlock, OnError, Publish, SetStop
    <3>3. CASE Decode(t)
          BY <1>1, <1>3, <3>3, GoesTo DEF Decode
    <3>4. CASE Drop(t) \/ Insert(t)
          BY <1>1, <3>4, GoesTo DEF Drop, Insert, Raise
    <3> QED BY <1>6, <3>1, <3>2, <3>3, <3>4 DEF ThreadStep
  <2> QED BY <1>1, <1>3, <2>1, <2>2 DEF QuietInv
<1> QED BY <1>4, <1>5, <1>6

\* The main loop makes a new life only when the threads of the last one ended.
LEMMA MainOwn ==
    ASSUME TypeInv, RoleInv, overruns = 0 => OwnInv,
           TakeStep \/ StopStep \/ Toggle \/ \E g \in Freqs \cup {Shut} : Stop(g)
    PROVE  RoleInv' /\ (overruns' = 0 => overruns = 0 /\ OwnInv')
<1>1. CASE Open
  <2>1. UNCHANGED overruns /\ main = "open"
        BY <1>1 DEF Open
  <2>2. CASE UNCHANGED <<radio, thread>> /\ main' = "closeDevice"
        BY <2>1, <2>2 DEF OwnInv, RoleInv, At, Item, Ended, radio, Starting
  <2>3. CASE /\ life' = life + 1 /\ main' = "run"
             /\ thread' = [t \in Threads |->
                    IF t[2] = life' THEN [thread[t] EXCEPT !.pc = "test"] ELSE thread[t]]
    <3>1. \A t \in Threads :
                /\ At(t)' = IF t[2] = life' THEN "test" ELSE At(t)
                /\ Item(t)' = Item(t)
          BY <2>3 DEF TypeInv, ThreadInv, At, Item
    <3>2. RoleInv'
          BY <3>1 DEF RoleInv, Publishing, Messaging
    <3>3. OwnInv => OwnInv'
          BY <2>1, <2>3, <3>1 DEF OwnInv, Ended, Starting
    <3> QED BY <2>1, <3>2, <3>3
  <2> QED BY <1>1, <2>2, <2>3 DEF Open
<1>2. CASE ~Open
  <2>1. UNCHANGED <<thread, life>>
        BY <1>2 DEF StopStep, StartStep, TakeStep, JoinReader, JoinProcessor, Join, CloseDevice,
              EmptyRows, EmptyMessages, EmptyBlocks, TakeEntry, TakeRow, Drain, Reset, Unmessage,
              Toggle, Stop, radio
  <2>2. RoleInv' /\ \A t \in Threads : Ended(t)' = Ended(t)
        BY <2>1 DEF RoleInv, At, Item, Ended
  <2>3. CASE TakeStep \/ Toggle \/ \E g \in Freqs \cup {Shut} : Stop(g)
    <3>1. /\ UNCHANGED overruns
          /\ main' \in {"run", "drain", "reset", "unmessage", "unmessageGet", "joinReader"}
          BY <2>3 DEF TakeStep, TakeRow, Drain, Reset, Unmessage, Emptying, Toggle, Stop
    <3> QED BY <2>1, <2>2, <3>1 DEF OwnInv, Starting
  <2>4. CASE CloseDevice \/ EmptyRows \/ EmptyMessages \/ EmptyBlocks \/ TakeEntry
    <3>1. UNCHANGED overruns /\ main \in Starting \cup {"closeDevice"}
          BY <2>4 DEF CloseDevice, EmptyRows, EmptyMessages, EmptyBlocks, Emptying, TakeEntry,
                      Starting
    <3> QED BY <2>1, <2>2, <3>1 DEF OwnInv
  <2>5. ASSUME NEW role \in Roles, NEW from, NEW to, Join(role, from, to), overruns' = 0
        PROVE  overruns = 0 /\ \A t \in Threads : t[1] = role => Ended(t)
    <3>1. overruns = 0 /\ Ended(<<role, life>>)
          BY <2>5 DEF Join, TypeInv, MainInv
    <3>2. ASSUME NEW t \in Threads, t[1] = role PROVE Ended(t)
      <4>1. CASE t[2] # life
            BY <3>1, <4>1 DEF OwnInv
      <4>2. CASE t[2] = life
        <5>1. t = <<role, life>>
              BY <3>2, <4>2 DEF Threads
        <5> QED BY <3>1, <5>1
      <4> QED BY <4>1, <4>2
    <3> QED BY <3>1, <3>2
  <2>6. CASE JoinReader
    <3>1. main' = "joinProcessor"
          BY <2>6 DEF JoinReader, Join
    <3>2. overruns' = 0 => overruns = 0 /\ \A t \in Threads : t[1] = "reader" => Ended(t)
          BY <2>5, <2>6 DEF JoinReader, Roles
    <3> QED BY <2>1, <2>2, <3>1, <3>2 DEF OwnInv, Starting
  <2>7. CASE JoinProcessor
    <3>1. main = "joinProcessor" /\ main' = "closeDevice"
          BY <2>7 DEF JoinProcessor, Join
    <3>2. overruns' = 0 => overruns = 0 /\ \A t \in Threads : t[1] = "processor" => Ended(t)
          BY <2>5, <2>7 DEF JoinProcessor, Roles
    <3>3. \A t \in Threads : t[1] \in {"reader", "processor"}
          BY DEF Threads, Roles
    <3> QED BY <2>1, <2>2, <3>1, <3>2, <3>3 DEF OwnInv, Starting
  <2> QED BY <1>2, <2>3, <2>4, <2>6, <2>7 DEF StopStep, StartStep
<1> QED BY <1>1, <1>2

\* start() closes before it empties, and empties one queue after the other.
LEMMA MainEmptied ==
    ASSUME EmptiedInv,
           TakeStep \/ StopStep \/ Toggle \/ \E g \in Freqs \cup {Shut} : Stop(g)
    PROVE  EmptiedInv'
<1> USE DEF Starting
<1>1. CASE TakeStep \/ Toggle \/ \E g \in Freqs \cup {Shut} : Stop(g)
  <2>1. main' \in {"run", "drain", "reset", "unmessage", "unmessageGet", "joinReader"}
        BY <1>1 DEF TakeStep, TakeRow, Drain, Reset, Unmessage, Emptying, Toggle, Stop
  <2> QED BY <2>1 DEF EmptiedInv
<1>2. CASE JoinReader \/ JoinProcessor \/ Open
  <2>1. main' \in {"run", "joinProcessor", "closeDevice"}
        BY <1>2 DEF JoinReader, JoinProcessor, Join, Open
  <2> QED BY <2>1 DEF EmptiedInv
<1>3. CASE CloseDevice
      BY <1>3 DEF CloseDevice, EmptiedInv
<1>4. CASE EmptyRows
      BY <1>4 DEF EmptyRows, Emptying, EmptiedInv, radio
<1>5. CASE EmptyMessages
      BY <1>5 DEF EmptyMessages, Emptying, EmptiedInv, radio
<1>6. CASE EmptyBlocks
      BY <1>6 DEF EmptyBlocks, Emptying, EmptiedInv, radio
<1>7. CASE TakeEntry
      BY <1>7 DEF TakeEntry, EmptiedInv, radio
<1> QED
    BY <1>1, <1>2, <1>3, <1>4, <1>5, <1>6, <1>7 DEF StopStep, StartStep

\* The main loop takes, empties and closes; it retunes with every queue empty.
LEMMA MainHeard ==
    ASSUME TypeInv, OwnInv, EmptiedInv, HeardInv,
           TakeStep \/ StopStep \/ Toggle \/ \E g \in Freqs \cup {Shut} : Stop(g)
    PROVE  HeardInv'
<1> USE DEF HeardHere
<1>q. QueueInv
      BY DEF TypeInv
<1>1. CASE TakeRow
  <2>1. UNCHANGED <<entry, radio, thread, messages, blocks, decoder>>
        BY <1>1 DEF TakeRow
  <2>2. \A i \in DOMAIN rows' : HeardHere(rows'[i])
    <3>1. \A i \in DOMAIN Tail(rows) : HeardHere(Tail(rows)[i])
          BY <1>1, <1>q DEF TakeRow, HeardInv, QueueInv
    <3> QED BY <1>1, <3>1 DEF TakeRow
  <2> QED BY <2>1, <2>2 DEF HeardInv, HeardAt, At, Item, radio
<1>2. CASE Drain \/ Unmessage \/ EmptyMessages
  <2>1. UNCHANGED <<entry, radio, thread, rows, blocks, decoder>>
        BY <1>2 DEF Drain, Unmessage, EmptyMessages
  <2>2. \A i \in DOMAIN messages' : messages'[i].heard = {entry}
    <3>1. messages # <<>> => \A i \in DOMAIN Tail(messages) : Tail(messages)[i].heard = {entry}
          BY <1>q DEF HeardInv, QueueInv
    <3> QED BY <1>2, <3>1 DEF Drain, Unmessage, EmptyMessages, Emptying, HeardInv
  <2> QED BY <2>1, <2>2 DEF HeardInv, HeardAt, At, Item, radio
<1>3. CASE Toggle \/ Reset
      BY <1>3 DEF Toggle, Reset, HeardInv, HeardAt, At, Item, radio, queues
<1>4. CASE \E g \in Freqs \cup {Shut} : Stop(g)
      BY <1>4 DEF Stop, HeardInv, HeardAt, At, Item, radio, queues
<1>5. CASE JoinReader \/ JoinProcessor
      BY <1>5 DEF JoinReader, JoinProcessor, Join, HeardInv, HeardAt, At, Item, radio, queues
<1>6. CASE CloseDevice
  <2>1. /\ UNCHANGED <<entry, thread, queues, decoder, tuned>> /\ device' = 0
        /\ \A t \in Threads : Ended(t)
        BY <1>6 DEF CloseDevice, OwnInv
  <2>2. \A t \in Threads : HeardAt(At(t), Item(t))'
        BY <2>1 DEF HeardAt, Ended, At, Item, Publishing, Messaging
  <2> QED BY <2>1, <2>2 DEF HeardInv, queues
<1>8. CASE EmptyRows
  <2>1. UNCHANGED <<entry, radio, thread, messages, blocks, decoder>>
        BY <1>8 DEF EmptyRows
  <2>2. \A i \in DOMAIN rows' : HeardHere(rows'[i])
    <3>1. rows # <<>> => \A i \in DOMAIN Tail(rows) : HeardHere(Tail(rows)[i])
          BY <1>q DEF HeardInv, QueueInv
    <3> QED BY <1>8, <3>1 DEF EmptyRows, Emptying, HeardInv
  <2> QED BY <2>1, <2>2 DEF HeardInv, HeardAt, At, Item, radio
<1>9. CASE EmptyBlocks
  <2>1. UNCHANGED <<entry, radio, thread, rows, messages, decoder>>
        BY <1>9 DEF EmptyBlocks
  <2>2. \A i \in DOMAIN blocks' : blocks'[i].heard = entry
    <3>1. blocks # <<>> => \A i \in DOMAIN Tail(blocks) : Tail(blocks)[i].heard = entry
          BY <1>q DEF HeardInv, QueueInv
    <3> QED BY <1>9, <3>1 DEF EmptyBlocks, Emptying, HeardInv
  <2> QED BY <2>1, <2>2 DEF HeardInv, HeardAt, At, Item, radio
<1>10. CASE TakeEntry
  <2>1. /\ UNCHANGED <<radio, thread, queues>> /\ decoder' = {}
        /\ device = 0 /\ rows = <<>> /\ messages = <<>> /\ blocks = <<>>
        /\ \A t \in Threads : Ended(t)
        BY <1>10 DEF TakeEntry, EmptiedInv, OwnInv, Starting
  <2>2. \A t \in Threads : HeardAt(At(t), Item(t))'
        BY <2>1 DEF HeardAt, Ended, At, Item, Publishing, Messaging
  <2> QED BY <2>1, <2>2 DEF HeardInv, queues, radio
<1>7. CASE Open
  <2>1. UNCHANGED <<entry, queues, decoder>> /\ \A t \in Threads : Ended(t)
        BY <1>7 DEF Open, OwnInv, Starting
  <2>2. device' # 0 => tuned'[device'] = entry
    <3>1. CASE UNCHANGED radio
          BY <3>1 DEF HeardInv, radio
    <3>2. CASE /\ life' = life + 1 /\ device' = life'
               /\ tuned' = [tuned EXCEPT ![life'] = entry]
      <4>1. life' \in Lives
            BY <1>7, <3>2, Sizes DEF Open, TypeInv, MainInv, Lives, Starting
      <4> QED BY <3>2, <4>1 DEF TypeInv, MainInv
    <3> QED BY <1>7, <3>1, <3>2 DEF Open
  <2>3. \A t \in Threads : At(t)' \in {"test", At(t)}
        BY <1>7 DEF Open, TypeInv, ThreadInv, At
  <2>4. \A t \in Threads : HeardAt(At(t), Item(t))'
        BY <2>1, <2>3 DEF HeardAt, Ended, Publishing, Messaging
  <2> QED BY <2>1, <2>2, <2>4 DEF HeardInv, queues
<1> QED
    BY <1>1, <1>2, <1>3, <1>4, <1>5, <1>6, <1>7, <1>8, <1>9, <1>10
    DEF TakeStep, StopStep, StartStep

\* Toggling empties the messages before the main loop runs again.
LEMMA MainQuiet ==
    ASSUME TypeInv, QuietInv,
           TakeStep \/ StopStep \/ Toggle \/ \E g \in Freqs \cup {Shut} : Stop(g)
    PROVE  QuietInv'
<1>1. CASE TakeRow \/ JoinReader \/ JoinProcessor \/ \E g \in Freqs \cup {Shut} : Stop(g)
      BY <1>1 DEF TakeRow, JoinReader, JoinProcessor, Join, Stop, QuietInv, At, queues
<1>2. CASE Drain \/ Unmessage \/ EmptyMessages
  <2>1. messages # <<>> => Tail(messages) = <<>> \/ Len(Tail(messages)) <= Len(messages)
        BY DEF TypeInv, QueueInv
  <2>2. messages # <<>> /\ Len(messages) <= 1 => Tail(messages) = <<>>
        BY DEF TypeInv, QueueInv
  <2>3. CASE Drain
        BY <2>1, <2>2, <2>3 DEF Drain, QuietInv, At
  <2>4. CASE Unmessage
        BY <2>1, <2>2, <2>4 DEF Unmessage, Emptying, QuietInv, At
  <2>5. CASE EmptyMessages
        BY <2>1, <2>2, <2>5 DEF EmptyMessages, Emptying, QuietInv, At
  <2> QED BY <1>2, <2>3, <2>4, <2>5
<1>3. CASE Toggle \/ Reset
      BY <1>3 DEF Toggle, Reset, QuietInv
<1>4. CASE CloseDevice \/ EmptyRows \/ EmptyBlocks \/ TakeEntry
      BY <1>4 DEF CloseDevice, EmptyRows, EmptyBlocks, Emptying, TakeEntry, QuietInv, At, queues
<1>5. CASE Open
  <2>1. \A t \in Threads : At(t)' \in {"test", At(t)}
        BY <1>5 DEF Open, TypeInv, ThreadInv, At
  <2>2. UNCHANGED <<cwEnabled, messages>> /\ main = "open"
        BY <1>5 DEF Open, queues
  <2> QED BY <2>1, <2>2 DEF QuietInv, Messaging
<1> QED
    BY <1>1, <1>2, <1>3, <1>4, <1>5 DEF TakeStep, StopStep, StartStep

\* The invariant holds initially and every step keeps it.
THEOREM InvAlways == Spec => []Inv
<1>1. Init => Inv
  <2> SUFFICES ASSUME Init PROVE Inv
      OBVIOUS
  <2>1. \A t \in Threads : At(t) = "none"
        BY DEF Init, At
  <2>2. RoleInv /\ OwnInv /\ EmptiedInv /\ HeardInv /\ QuietInv
        BY <2>1 DEF Init, RoleInv, OwnInv, EmptiedInv, HeardInv, HeardAt, QuietInv, Ended,
                    Publishing, Messaging
  <2> QED BY <2>2, InitType DEF Inv, OnTime
<1>2. ASSUME Inv, [Next]_vars PROVE Inv'
  <2>1. TypeInv'
        BY <1>2, ThreadType, MainType, StutterType DEF Inv, Next
  <2>2. ASSUME NEW t \in Threads, ThreadStep(t) PROVE RoleInv' /\ (overruns' = 0 => OnTime')
    <3>1. RoleInv'
          BY <1>2, <2>2, ThreadRole DEF Inv
    <3>2. overruns' = overruns
          BY <1>2, <2>2, OneThread DEF Inv, TypeInv, mainloop
    <3>3. overruns = 0 => OwnInv' /\ EmptiedInv' /\ HeardInv' /\ QuietInv'
          BY <1>2, <2>2, ThreadOwn, ThreadEmptied, ThreadHeard, ThreadQuiet DEF Inv, OnTime
    <3> QED BY <3>1, <3>2, <3>3 DEF OnTime
  <2>3. CASE TakeStep \/ StopStep \/ Toggle \/ \E g \in Freqs \cup {Shut} : Stop(g)
    <3>1. RoleInv' /\ (overruns' = 0 => overruns = 0 /\ OwnInv')
          BY <1>2, <2>3, MainOwn DEF Inv, OnTime
    <3>2. overruns = 0 => EmptiedInv' /\ HeardInv' /\ QuietInv'
          BY <1>2, <2>3, MainEmptied, MainHeard, MainQuiet DEF Inv, OnTime
    <3> QED BY <2>1, <3>1, <3>2 DEF Inv, OnTime
  <2>4. CASE UNCHANGED vars
    <3>1. RoleInv'
          BY <1>2, <2>4 DEF Inv, RoleInv, At, Item, vars
    <3>2. OwnInv => OwnInv'
          BY <2>4 DEF OwnInv, Ended, At, vars, mainloop, radio
    <3>6. EmptiedInv => EmptiedInv'
          BY <2>4 DEF EmptiedInv, vars, mainloop, radio, queues
    <3>3. HeardInv => HeardInv'
          BY <2>4 DEF HeardInv, HeardAt, HeardHere, At, Item, vars, mainloop, radio, queues
    <3>4. QuietInv => QuietInv'
          BY <2>4 DEF QuietInv, At, vars, mainloop, queues
    <3>5. overruns' = overruns
          BY <2>4 DEF vars, mainloop
    <3> QED BY <1>2, <2>1, <3>1, <3>2, <3>3, <3>4, <3>5, <3>6 DEF Inv, OnTime
  <2> QED BY <1>2, <2>1, <2>2, <2>3, <2>4 DEF Inv, Next
<1> QED BY <1>1, <1>2, PTL DEF Spec

\* As long as no join timed out, the main loop takes nothing that was received
\* on another frequency than the one it shows and files it under.
THEOREM Tuned == Spec => []OfThisTuning
<1>1. Inv => OfThisTuning
      BY DEF Inv, OnTime, HeardInv, OfThisTuning
<1> QED BY <1>1, InvAlways, PTL

\* As long as no join timed out, a read is on the open handle and one reader
\* lives at most.
THEOREM Owned == Spec => []DeviceOwned
<1>1. ASSUME Inv, overruns = 0 PROVE DeviceOwned
  <2>1. \A t \in Threads : At(t) = "reading" => Item(t).of = device
        BY <1>1 DEF Inv, OnTime, HeardInv, HeardAt
  <2> DEFINE Readers == {t \in Threads : ~Ended(t) /\ t[1] = "reader"}
  <2>2. Readers \subseteq {<<"reader", life>>}
    <3>1. ASSUME NEW t \in Readers PROVE t = <<"reader", life>>
          BY <1>1, <3>1 DEF Inv, OnTime, OwnInv, Threads
    <3> QED BY <3>1
  <2>3. Cardinality(Readers) <= 1
    <3>1. IsFiniteSet({<<"reader", life>>}) /\ Cardinality({<<"reader", life>>}) = 1
          BY FS_Singleton
    <3> QED BY <2>2, <3>1, FS_Subset
  <2> QED BY <2>1, <2>3 DEF DeviceOwned
<1>2. Inv => DeviceOwned
      BY <1>1 DEF DeviceOwned
<1> QED BY <1>2, InvAlways, PTL

\* As long as no join timed out, with the decoder off at most one message waits
\* for the main loop: the one that was being decoded at the switch.
THEOREM Quiet == Spec => []QuietWhenOff
<1>1. Inv => QuietWhenOff
  <2> SUFFICES ASSUME Inv, overruns = 0, ~cwEnabled, main = "run"
               PROVE  Len(messages) <= 1
      BY DEF QuietWhenOff
  <2>1. messages = <<>> \/ Len(messages) <= 1
        BY DEF Inv, OnTime, QuietInv
  <2> QED BY <2>1
<1> QED BY <1>1, InvAlways, PTL

-----------------------------------------------------------------------------
(* MorseDecoder: the clock *)

\* The first sample picked in the next block is the one Stride after the last.
LEMMA NextPicked ==
    ASSUME Stride \in Nat, Stride > 0, Size \in Nat, pick \in 0 .. Stride - 1
    PROVE  Picks \in Nat /\ NextPick = pick - Size + Stride * Picks /\ (Size > pick <=> Picks > 0)
<1>1. CASE Size > pick
  <2> DEFINE x == Size - pick - 1
             a == x \div Stride
             r == x % Stride
  <2>1. x \in Nat BY <1>1
  <2>2. a \in Int /\ r \in 0 .. Stride - 1 /\ x = Stride * a + r BY <2>1, Division
  <2>3. a >= 0
    <3>1. CASE a < 0
      <4>1. Stride * a <= 0 - Stride BY <2>2, <3>1
      <4>2. Stride * a \in Int BY <2>2
      <4> QED BY <2>1, <2>2, <4>1, <4>2
    <3> QED BY <2>2, <3>1
  <2>4. Picks = a + 1 BY <1>1 DEF Picks
  <2> HIDE DEF a, r
  <2>5. Stride * Picks = Stride * a + Stride BY <2>2, <2>4
  <2>6. Stride * a \in Int BY <2>2
  <2>7. pick - Size = Stride * (0 - Picks) + (Stride - 1 - r)
    <3>1. Stride * (0 - Picks) = 0 - Stride * Picks BY <2>2, <2>4
    <3> QED BY <2>2, <2>5, <2>6, <3>1
  <2>8. /\ Stride - 1 - r \in 0 .. Stride - 1 /\ pick - Size \in Int
        /\ 0 - Picks \in Int
    BY <2>2, <2>4
  <2>9. NextPick = Stride - 1 - r
    <3>1. \A b \in Int, c \in 0 .. Stride - 1 :
              pick - Size = Stride * b + c => c = (pick - Size) % Stride
      BY <2>8, Division
    <3> QED BY <2>7, <2>8, <3>1 DEF NextPick
  <2> QED BY <1>1, <2>2, <2>3, <2>4, <2>5, <2>6, <2>9
<1>2. CASE ~(Size > pick)
  <2>1. /\ Picks = 0 /\ pick - Size \in 0 .. Stride - 1
        /\ pick - Size = Stride * 0 + (pick - Size)
    BY <1>2 DEF Picks
  <2>2. (pick - Size) % Stride = pick - Size BY <2>1, Division
  <2> QED BY <1>2, <2>1, <2>2 DEF NextPick
<1> QED BY <1>1, <1>2

\* The first sample to pick lies whole strides after the reset, and each stride
\* between has given an audio sample.
ClockInv ==
    /\ rate \in Rates
    /\ (fed > 0 => previous = TRUE) /\ (fed = 0 => previous = FALSE)
    /\ pick \in Nat /\ pick < Stride /\ fed \in Nat /\ windows \in Nat
    /\ audio \in Nat /\ audio < WindowSamples
    /\ \E q \in Nat : /\ fed + pick = Stride * q
                      /\ windows * WindowSamples + audio = IF fed = 0 THEN 0 ELSE q - 1

\* What a rate is divided into.
LEMMA StrideFacts ==
    ASSUME rate \in Rates
    PROVE  Stride \in Nat /\ Stride > 0 /\ Size \in Nat /\ Size > 0
<1>1. rate \in Nat /\ rate > 0 /\ rate % 16000 = 0 BY MorseAssumption DEF AudioRate
<1>2. Stride \in Nat /\ Stride > 0 BY <1>1 DEF Stride, AudioRate
<1>3. Size \in Nat /\ Size > 0 BY <1>1 DEF Size
<1> QED BY <1>2, <1>3

\* A debounce window is 20 ms of audio at 16 kHz.
LEMMA WindowNumbers == AudioRate = 16000 /\ WindowSamples = 320
BY DEF AudioRate, WindowSamples

\* What a block adds to the clock.
LEMMA BlockFacts ==
    ASSUME ClockInv
    PROVE  /\ Picks \in Nat /\ NextPick = pick - Size + Stride * Picks
           /\ NextPick \in Nat /\ NextPick < Stride
           /\ (fed = 0 => Picks > 0 /\ pick = 0)
           /\ Buffered \in Nat
           /\ Buffered = audio + (IF fed > 0 \/ Picks = 0 THEN Picks ELSE Picks - 1)
           /\ Buffered \div WindowSamples \in Nat
           /\ Buffered % WindowSamples \in Nat /\ Buffered % WindowSamples < WindowSamples
           /\ Buffered = (Buffered \div WindowSamples) * WindowSamples
                         + (Buffered % WindowSamples)
<1>1. Stride \in Nat /\ Stride > 0 /\ Size \in Nat /\ Size > 0 BY StrideFacts DEF ClockInv
<1>2. pick \in 0 .. Stride - 1 BY <1>1 DEF ClockInv
<1>3. Picks \in Nat /\ NextPick = pick - Size + Stride * Picks /\ (Size > pick <=> Picks > 0)
  BY <1>1, <1>2, NextPicked
<1>4. NextPick \in 0 .. Stride - 1 BY <1>1, <1>2, Division DEF NextPick
<1>5. ASSUME fed = 0 PROVE Picks > 0 /\ pick = 0
  <2>1. PICK q \in Nat : pick = Stride * q BY <1>2, <1>5 DEF ClockInv
  <2>2. q = 0
    <3>1. CASE q > 0
      <4>1. Stride * q >= Stride BY <1>1, <3>1
      <4> QED BY <1>1, <1>2, <2>1, <4>1
    <3> QED BY <3>1
  <2>3. pick = 0 BY <1>1, <2>1, <2>2
  <2> QED BY <1>1, <1>3, <2>3
<1>6. Buffered = audio + (IF fed > 0 \/ Picks = 0 THEN Picks ELSE Picks - 1)
  <2>1. (fed > 0 => previous = TRUE) /\ (fed = 0 => previous = FALSE) BY DEF ClockInv
  <2>2. fed > 0 \/ (fed = 0 /\ ~(fed > 0)) BY DEF ClockInv
  <2> QED BY <2>1, <2>2 DEF Buffered
<1>7. Buffered \in Nat BY <1>3, <1>6 DEF ClockInv
<1>8. /\ Buffered \div 320 \in Nat /\ Buffered % 320 \in Nat /\ Buffered % 320 < 320
      /\ Buffered = (Buffered \div 320) * 320 + (Buffered % 320)
  <2> HIDE DEF Buffered
  <2> QED BY <1>7
<1> QED BY <1>1, <1>3, <1>4, <1>5, <1>6, <1>7, <1>8, WindowNumbers

\* After the reset nothing is fed and the first sample is the first to pick.
LEMMA ClockInit == MorseInit => ClockInv
<1> SUFFICES ASSUME MorseInit PROVE ClockInv OBVIOUS
<1>1. Stride \in Nat /\ Stride > 0 BY StrideFacts DEF MorseInit
<1>2. fed + pick = Stride * 0 BY <1>1 DEF MorseInit
<1>3. 0 \in Nat /\ windows * WindowSamples + audio = 0 BY WindowNumbers DEF MorseInit
<1>4. fed = 0 BY DEF MorseInit
<1>5. \E q \in Nat : /\ fed + pick = Stride * q
                     /\ windows * WindowSamples + audio = IF fed = 0 THEN 0 ELSE q - 1
  BY <1>2, <1>3, <1>4
<1>6. (fed > 0 => previous = TRUE) /\ (fed = 0 => previous = FALSE)
  <2>1. previous = FALSE BY DEF MorseInit
  <2>2. ~(fed > 0) BY <1>4
  <2> QED BY <2>1, <2>2
<1>7. rate \in Rates /\ pick = 0 /\ fed = 0 /\ windows = 0 /\ audio = 0 BY DEF MorseInit
<1> QED BY <1>1, <1>5, <1>6, <1>7, WindowNumbers DEF ClockInv

\* A block moves the first sample to pick on by whole strides and gives an audio
\* sample for each; a retune starts the count again.
LEMMA ClockStep == ASSUME ClockInv, [MorseNext]_morseVars PROVE ClockInv'
<1>0. Stride \in Nat /\ Stride > 0 /\ Size \in Nat /\ Size > 0 BY StrideFacts DEF ClockInv
<1>1. CASE Retune
  <2>1. rate' = rate /\ Stride' = Stride /\ WindowSamples' = WindowSamples
    BY <1>1 DEF Retune, Stride, WindowSamples, AudioRate
  <2>2. pick' = 0 /\ previous' = FALSE /\ audio' = 0 /\ fed' = 0 /\ windows' = 0
    BY <1>1 DEF Retune
  <2>3. fed' + pick' = Stride' * 0 BY <1>0, <2>1, <2>2
  <2>4. 0 \in Nat /\ windows' * WindowSamples' + audio' = 0 BY <2>1, <2>2, WindowNumbers
  <2>5. \E q \in Nat : /\ fed' + pick' = Stride' * q
                       /\ windows' * WindowSamples' + audio' = IF fed' = 0 THEN 0 ELSE q - 1
    BY <2>2, <2>3, <2>4
  <2>6. (fed' > 0 => previous' = TRUE) /\ (fed' = 0 => previous' = FALSE)
    <3>1. previous' = FALSE BY <2>2
    <3>2. ~(fed' > 0) BY <2>2
    <3> QED BY <3>1, <3>2
  <2>7. rate' \in Rates BY <2>1 DEF ClockInv
  <2> QED BY <1>0, <2>1, <2>2, <2>5, <2>6, <2>7, WindowNumbers DEF ClockInv
<1>2. ASSUME NEW strong \in BOOLEAN, FeedIq(strong) PROVE ClockInv'
  <2>1. rate' = rate /\ Stride' = Stride /\ WindowSamples' = WindowSamples
    BY <1>2 DEF FeedIq, Stride, WindowSamples, AudioRate
  <2>2. /\ pick' = NextPick /\ previous' = (previous \/ Picks > 0)
        /\ audio' = Buffered % WindowSamples /\ fed' = fed + Size
        /\ windows' = windows + Buffered \div WindowSamples
    BY <1>2 DEF FeedIq
  <2>3. fed' \in Nat /\ fed' > 0 /\ fed \in Nat BY <1>0, <2>2 DEF ClockInv
  <2>4. (fed' > 0 => previous' = TRUE) /\ (fed' = 0 => previous' = FALSE)
    <3>1. fed = 0 => Picks > 0 BY BlockFacts
    <3>2. fed > 0 \/ fed = 0 BY <2>3
    <3>3. fed > 0 => previous = TRUE BY DEF ClockInv
    <3>4. previous' = TRUE BY <2>2, <3>1, <3>2, <3>3
    <3>5. ~(fed' = 0) BY <2>3
    <3> QED BY <3>4, <3>5
  <2>5. PICK q \in Nat : /\ fed + pick = Stride * q
                         /\ windows * WindowSamples + audio = IF fed = 0 THEN 0 ELSE q - 1
    BY DEF ClockInv
  <2>6. fed' + pick' = Stride * (q + Picks)
    <3>1. Stride * (q + Picks) = Stride * q + Stride * Picks BY <1>0, BlockFacts
    <3>2. Stride * q \in Int /\ Stride * Picks \in Int BY <1>0, BlockFacts
    <3>3. fed \in Nat /\ pick \in Nat BY DEF ClockInv
    <3> HIDE DEF Stride, Size, Picks, NextPick
    <3>4. NextPick = pick - Size + Stride * Picks BY BlockFacts
    <3> QED BY <1>0, <2>2, <2>5, <3>1, <3>2, <3>3, <3>4
  <2>7. windows' * WindowSamples + audio' = q + Picks - 1
    <3> DEFINE w == Buffered \div WindowSamples
               r == Buffered % WindowSamples
    <3>1. w \in Nat /\ r \in Nat /\ Buffered = w * WindowSamples + r BY BlockFacts
    <3>2. windows' = windows + w /\ audio' = r BY <2>2
    <3>3. windows \in Nat /\ audio \in Nat /\ fed \in Nat BY DEF ClockInv
    <3> HIDE DEF w, r
    <3>4. windows' * 320 + audio' = windows * 320 + Buffered - 0
      BY <3>1, <3>2, <3>3, WindowNumbers
    <3>5. CASE fed > 0
      <4>1. Buffered = audio + Picks /\ Picks \in Nat BY <3>5, BlockFacts
      <4>2. windows * 320 + audio = q - 1 BY <2>5, <3>5, WindowNumbers
      <4> QED BY <3>3, <3>4, <4>1, <4>2, WindowNumbers
    <3>6. CASE fed = 0
      <4>1. Buffered = audio + Picks - 1 /\ Picks \in Nat BY <3>3, <3>6, BlockFacts
      <4>2. windows * 320 + audio = 0 BY <2>5, <3>6, WindowNumbers
      <4>3. q = 0
        <5>1. Stride * q = 0 BY <2>5, <3>6, BlockFacts
        <5> HIDE DEF Stride
        <5> QED BY <1>0, <5>1
      <4> QED BY <3>3, <3>4, <4>1, <4>2, <4>3, WindowNumbers
    <3> QED BY <3>3, <3>5, <3>6
  <2>8. q + Picks \in Nat BY BlockFacts
  <2>9. \E x \in Nat : /\ fed' + pick' = Stride' * x
                       /\ windows' * WindowSamples' + audio' = IF fed' = 0 THEN 0 ELSE x - 1
    <3>1. fed' + pick' = Stride' * (q + Picks) BY <2>1, <2>6
    <3>2. windows' * WindowSamples' + audio' = (q + Picks) - 1
      <4>1. q + Picks - 1 = (q + Picks) - 1 BY BlockFacts
      <4> QED BY <2>1, <2>7, <4>1
    <3>3. fed' # 0 BY <2>3
    <3> QED BY <2>8, <3>1, <3>2, <3>3
  <2>10. pick' \in Nat /\ pick' < Stride' /\ audio' \in Nat /\ audio' < WindowSamples'
    BY <2>1, <2>2, BlockFacts
  <2>11. windows' \in Nat
    <3>1. windows \in Nat BY DEF ClockInv
    <3>2. Buffered \div WindowSamples \in Nat BY BlockFacts
    <3> HIDE DEF Buffered, WindowSamples
    <3> QED BY <2>2, <3>1, <3>2
  <2>12. rate' \in Rates BY <2>1 DEF ClockInv
  <2> QED BY <2>3, <2>4, <2>9, <2>10, <2>11, <2>12 DEF ClockInv
<1>3. CASE UNCHANGED morseVars
  <2>1. UNCHANGED <<rate, previous, pick, fed, windows, audio>>
    BY <1>3 DEF morseVars, sender, framing
  <2> QED BY <2>1 DEF ClockInv, Stride, WindowSamples, AudioRate
<1> QED BY <1>1, <1>2, <1>3 DEF MorseNext

\* Whole strides and a part of one: the audio samples are what the samples fed
\* make, and the windows are what the audio samples make.
LEMMA ClockSays == ASSUME ClockInv PROVE ClockIsAir
<1>1. Stride \in Nat /\ Stride > 0 BY StrideFacts DEF ClockInv
<1>2. PICK q \in Nat : /\ fed + pick = Stride * q
                       /\ windows * WindowSamples + audio = IF fed = 0 THEN 0 ELSE q - 1
  BY DEF ClockInv
<1>3. fed \in Nat /\ pick \in 0 .. Stride - 1 BY <1>1 DEF ClockInv
<1>4. fed + Stride - 1 = Stride * q + (Stride - 1 - pick)
  <2>1. Stride * q \in Int BY <1>1
  <2> HIDE DEF Stride
  <2> QED BY <1>1, <1>2, <1>3, <2>1
<1>5. Stride - 1 - pick \in 0 .. Stride - 1 /\ fed + Stride - 1 \in Int
  <2> HIDE DEF Stride
  <2> QED BY <1>1, <1>3
<1>6. (fed + Stride - 1) \div Stride = q
  <2> HIDE DEF Stride
  <2> QED BY <1>1, <1>4, <1>5, Division
<1> QED BY <1>2, <1>6 DEF ClockIsAir

\* For any sample rate of whole strides and any blocks: the windows the debouncer
\* counts its durations in are the air time the receiver has listened for, so that
\* no block boundary gains or loses an audio sample (MorseDecoder.feed_iq).
THEOREM ClockIsAirAlways == MorseSpec => []ClockIsAir
<1>1. MorseSpec => []ClockInv
  BY ClockInit, ClockStep, PTL DEF MorseSpec
<1>2. ClockInv => ClockIsAir BY ClockSays
<1> QED BY <1>1, <1>2, PTL

-----------------------------------------------------------------------------
(* MorseDecoder: runs *)

\* The tone of the debouncer is that of the last window settled, and the label it
\* has; before any window it is silence.
ScanInv(tone, h) ==
    /\ h # <<>> => h[Len(h)] = tone
    /\ h = <<>> => tone = FALSE
    /\ Label(h)[Len(h)] = tone

\* At most one window is in doubt and it contradicts the tone; without it, the
\* marks, the gaps and what the current run has lasted are the turns of the windows
\* heard. The last part says d is the record of its fields.
DebounceInv(d) ==
    /\ d.tone \in BOOLEAN /\ d.heard \in Seq(BOOLEAN) /\ d.candidate \in {0, 1}
    /\ d.candidate = 1 => Len(d.heard) > 0 /\ d.heard[Len(d.heard)] = ~d.tone
    /\ ScanInv(d.tone, Settled(d))
    /\ Agrees(d, Settled(d), Turns(Settled(d))[Len(Settled(d))])
    /\ d = [unit |-> d.unit, tone |-> d.tone, elapsed |-> d.elapsed, marks |-> d.marks,
            gaps |-> d.gaps, candidate |-> d.candidate, texts |-> d.texts, heard |-> d.heard]

\* Until something is sent nothing is keyed, and the decoder is as a reset left it.
FreshInv == sent = <<>> => script = <<>> /\ morse = Fresh

\* A debounced window has the tone of the last sure one.
LEMMA LabelFacts ==
    ASSUME NEW h \in Seq(BOOLEAN)
    PROVE  /\ Label(h) \in [0 .. Len(h) -> BOOLEAN] /\ Label(h)[0] = FALSE
           /\ \A j \in 1 .. Len(h) :
                Label(h)[j] = IF Sure(h, j) THEN h[j] ELSE Label(h)[j - 1]
<1> DEFINE n == Len(h)
           Body(f, j) == IF j = 0 THEN FALSE ELSE IF Sure(h, j) THEN h[j] ELSE f[j - 1]
           G == [p \in (1 .. n) \X BOOLEAN |-> IF Sure(h, p[1]) THEN h[p[1]] ELSE p[2]]
<1>1. n \in Nat /\ \A j \in 1 .. n : h[j] \in BOOLEAN OBVIOUS
<1>2. G \in [(1 .. n) \X BOOLEAN -> BOOLEAN] BY <1>1
<1>3. PICK f : Recurses(f, n, BOOLEAN, FALSE, G)
  <2> HIDE DEF n, G
  <2>1. n \in Nat /\ FALSE \in BOOLEAN BY <1>1
  <2> QED BY <1>2, <2>1, Recursion
<1>4. f \in [0 .. n -> BOOLEAN] /\ f[0] = FALSE /\ \A j \in 1 .. n : f[j] = G[<<j, f[j - 1]>>]
  <2> HIDE DEF n, G
  <2> QED BY <1>3 DEF Recurses
<1>5. ASSUME NEW j \in 0 .. n PROVE f[j] = Body(f, j)
  <2>1. CASE j = 0 BY <1>4, <2>1
  <2>2. CASE j \in 1 .. n
    <3>1. <<j, f[j - 1]>> \in (1 .. n) \X BOOLEAN BY <1>1, <1>4, <2>2
    <3>2. f[j] = IF Sure(h, j) THEN h[j] ELSE f[j - 1] BY <1>4, <2>2, <3>1
    <3>3. j # 0 BY <2>2
    <3> QED BY <3>2, <3>3
  <2> HIDE DEF Body
  <2> QED BY <1>1, <2>1, <2>2
<1> DEFINE label[j \in 0 .. n] == Body(label, j)
<1>6. Label(h) = label BY DEF Label
<1>7. \E x : x = [j \in 0 .. n |-> Body(x, j)]
  <2> HIDE DEF Body
  <2>1. f = [j \in 0 .. n |-> Body(f, j)] BY <1>4, <1>5
  <2> QED BY <2>1
<1>8. label = [j \in 0 .. n |-> Body(label, j)]
  <2> HIDE DEF Body
  <2> QED BY <1>7
<1> HIDE DEF label
<1>9. \A j \in 0 .. n : label[j] = Body(label, j)
  <2> HIDE DEF Body
  <2> QED BY <1>8
<1>10. label \in [0 .. n -> BOOLEAN]
  <2>1. DOMAIN label = 0 .. n BY <1>8
  <2> DEFINE T == {k \in Nat : k <= n => label[k] \in BOOLEAN}
  <2>2. 0 \in T
    <3>1. 0 \in 0 .. n BY <1>1
    <3>2. label[0] = FALSE BY <1>9, <3>1
    <3> QED BY <3>2
  <2>3. ASSUME NEW k \in Nat, k < n, k \in T PROVE k + 1 \in T
    <3>1. k + 1 \in 1 .. n /\ (k + 1) - 1 = k BY <1>1, <2>3
    <3>2. label[k + 1] = Body(label, k + 1)
      <4> HIDE DEF Body
      <4> QED BY <1>9, <3>1
    <3>3. label[k] \in BOOLEAN BY <2>3
    <3>4. h[k + 1] \in BOOLEAN /\ k + 1 # 0 BY <1>1, <3>1
    <3>5. label[k + 1] = h[k + 1] \/ label[k + 1] = label[k] BY <3>1, <3>2, <3>4
    <3>6. label[k + 1] \in BOOLEAN BY <3>3, <3>4, <3>5
    <3> QED BY <3>6
  <2> HIDE DEF T, n
  <2>4. \A k \in 0 .. n : k \in T BY <1>1, <2>2, <2>3, Induction
  <2>5. \A k \in 0 .. n : label[k] \in BOOLEAN BY <1>1, <2>4 DEF T
  <2>6. label = [k \in 0 .. n |-> label[k]] BY <1>8, <2>1
  <2> QED BY <2>5, <2>6
<1> QED BY <1>1, <1>6, <1>9, <1>10

\* The turns up to a window, each at its place, and their number.
LEMMA TurnsFacts ==
    ASSUME NEW h \in Seq(BOOLEAN)
    PROVE  /\ Turns(h)[0] = <<>>
           /\ \A j \in 1 .. Len(h) :
                Turns(h)[j] = IF Label(h)[j] # Label(h)[j - 1] THEN Append(Turns(h)[j - 1], j)
                              ELSE Turns(h)[j - 1]
           /\ \A j \in 0 .. Len(h) :
                /\ Turns(h)[j] \in Seq(Nat) /\ (Label(h)[j] <=> Len(Turns(h)[j]) % 2 = 1)
                /\ \A i \in 1 .. Len(Turns(h)[j]) : Turns(h)[j][i] <= j
<1> DEFINE n == Len(h)
           S == Seq(Nat)
           Turned(j) == Label(h)[j] # Label(h)[j - 1]
           Body(f, j) == IF j = 0 THEN <<>>
                         ELSE IF Turned(j) THEN Append(f[j - 1], j) ELSE f[j - 1]
           G == [p \in (1 .. n) \X S |-> IF Turned(p[1]) THEN Append(p[2], p[1]) ELSE p[2]]
<1>1. n \in Nat /\ <<>> \in S OBVIOUS
<1>2. G \in [(1 .. n) \X S -> S]
  <2>1. ASSUME NEW p \in (1 .. n) \X S PROVE p[2] \in S /\ Append(p[2], p[1]) \in S BY <1>1
  <2> HIDE DEF S, Turned, n
  <2> QED BY <2>1
<1>3. PICK f : Recurses(f, n, S, <<>>, G)
  <2> HIDE DEF n, G, S
  <2> QED BY <1>1, <1>2, Recursion
<1>4. f \in [0 .. n -> S] /\ f[0] = <<>> /\ \A j \in 1 .. n : f[j] = G[<<j, f[j - 1]>>]
  <2> HIDE DEF n, G, S
  <2> QED BY <1>3 DEF Recurses
<1>5. ASSUME NEW j \in 0 .. n PROVE f[j] = Body(f, j)
  <2>1. CASE j = 0 BY <1>4, <2>1
  <2>2. CASE j \in 1 .. n
    <3> HIDE DEF S, n, Turned
    <3>1. j - 1 \in 0 .. n BY <1>1, <2>2
    <3>2. <<j, f[j - 1]>> \in (1 .. n) \X S BY <1>4, <2>2, <3>1
    <3>3. f[j] = IF Turned(j) THEN Append(f[j - 1], j) ELSE f[j - 1] BY <1>4, <2>2, <3>2
    <3>4. j # 0 BY <2>2
    <3> QED BY <3>3, <3>4
  <2> HIDE DEF Body
  <2> QED BY <1>1, <2>1, <2>2
<1>6. \E x : x = [j \in 0 .. n |-> Body(x, j)]
  <2> HIDE DEF Body, n
  <2>1. f = [j \in 0 .. n |-> Body(f, j)] BY <1>4, <1>5
  <2> QED BY <2>1
<1> DEFINE turns[j \in 0 .. n] == Body(turns, j)
<1>7. Turns(h) = turns BY DEF Turns
<1>8. turns = [j \in 0 .. n |-> Body(turns, j)]
  <2> HIDE DEF Body, n
  <2> QED BY <1>6
<1> HIDE DEF turns
<1>9. \A j \in 0 .. n : turns[j] = Body(turns, j)
  <2> HIDE DEF Body, n
  <2> QED BY <1>8
<1>10. turns[0] = <<>>
  <2>1. 0 \in 0 .. n BY <1>1
  <2> HIDE DEF n
  <2> QED BY <1>9, <2>1
<1>11. ASSUME NEW j \in 1 .. n
       PROVE  turns[j] = IF Turned(j) THEN Append(turns[j - 1], j) ELSE turns[j - 1]
  <2>1. j \in 0 .. n /\ j # 0 BY <1>1
  <2>2. turns[j] = Body(turns, j)
    <3> HIDE DEF Body, n
    <3> QED BY <1>9, <2>1
  <2> HIDE DEF Turned, n
  <2> QED BY <2>1, <2>2
<1> DEFINE Right(j, t) == /\ t \in Seq(Nat) /\ (Label(h)[j] <=> Len(t) % 2 = 1)
                          /\ \A i \in 1 .. Len(t) : t[i] <= j
           T == {k \in Nat : k <= n => Right(k, turns[k])}
<1>12. 0 \in T
  <2>1. Label(h)[0] = FALSE BY LabelFacts
  <2>2. Right(0, <<>>) BY <2>1
  <2> HIDE DEF Right
  <2> QED BY <1>10, <2>2
<1>13. ASSUME NEW k \in Nat, k < n, k \in T PROVE k + 1 \in T
  <2>1. k + 1 \in 1 .. n /\ (k + 1) - 1 = k /\ k \in 0 .. n BY <1>1, <1>13
  <2>2. Right(k, turns[k])
    <3> HIDE DEF Right
    <3> QED BY <1>13
  <2>3. turns[k + 1] = IF Turned(k + 1) THEN Append(turns[k], k + 1) ELSE turns[k]
    <3> HIDE DEF Turned, n
    <3> QED BY <1>11, <2>1
  <2>4. Label(h)[k + 1] \in BOOLEAN /\ Label(h)[k] \in BOOLEAN
    <3>1. k + 1 \in 0 .. Len(h) /\ k \in 0 .. Len(h) BY <2>1
    <3> QED BY <3>1, LabelFacts
  <2>5. CASE Turned(k + 1)
    <3> DEFINE t == turns[k]
               u == Append(t, k + 1)
    <3>1. t \in Seq(Nat) /\ \A i \in 1 .. Len(t) : t[i] <= k BY <2>2
    <3>2. turns[k + 1] = u BY <2>3, <2>5
    <3>3. /\ u \in Seq(Nat) /\ Len(u) = Len(t) + 1 /\ Len(t) \in Nat /\ u[Len(t) + 1] = k + 1
          /\ \A i \in 1 .. Len(t) : u[i] = t[i]
      <4> HIDE DEF t
      <4> QED BY <3>1
    <3>4. Label(h)[k + 1] <=> ~Label(h)[k] BY <2>1, <2>4, <2>5
    <3>5. Label(h)[k] <=> Len(t) % 2 = 1 BY <2>2
    <3> HIDE DEF t, u
    <3>6. Len(u) % 2 = 1 <=> ~(Len(t) % 2 = 1) BY <3>3
    <3>7. \A i \in 1 .. Len(u) : u[i] <= k + 1
      <4>1. ASSUME NEW i \in 1 .. Len(u) PROVE u[i] <= k + 1
        <5>1. CASE i = Len(t) + 1 BY <3>3, <5>1
        <5>2. CASE i \in 1 .. Len(t)
          <6>1. u[i] = t[i] /\ t[i] <= k /\ t[i] \in Nat BY <3>1, <3>3, <5>2
          <6> QED BY <6>1
        <5> QED BY <3>3, <5>1, <5>2
      <4> QED BY <4>1
    <3>8. Label(h)[k + 1] <=> Len(u) % 2 = 1 BY <3>4, <3>5, <3>6
    <3>9. Right(k + 1, turns[k + 1]) BY <3>2, <3>3, <3>7, <3>8
    <3> HIDE DEF Right
    <3> QED BY <3>9
  <2>6. CASE ~Turned(k + 1)
    <3>1. turns[k + 1] = turns[k] BY <2>3, <2>6
    <3>2. Label(h)[k + 1] = Label(h)[k] BY <2>1, <2>6
    <3>3. \A i \in 1 .. Len(turns[k]) : turns[k][i] <= k + 1
      <4>1. turns[k] \in Seq(Nat) /\ \A i \in 1 .. Len(turns[k]) : turns[k][i] <= k BY <2>2
      <4>2. ASSUME NEW i \in 1 .. Len(turns[k]) PROVE turns[k][i] <= k + 1
        <5>1. turns[k][i] \in Nat /\ turns[k][i] <= k BY <4>1
        <5> QED BY <5>1
      <4> QED BY <4>2
    <3>4. Right(k + 1, turns[k]) BY <2>2, <3>2, <3>3
    <3> HIDE DEF Right
    <3> QED BY <3>1, <3>4
  <2> QED BY <2>5, <2>6
<1>14. \A k \in 0 .. n : k \in T
  <2> HIDE DEF T, n
  <2> QED BY <1>1, <1>12, <1>13, Induction
<1>15. ASSUME NEW k \in 0 .. n PROVE Right(k, turns[k])
  <2> HIDE DEF Right
  <2> QED BY <1>1, <1>14
<1> HIDE DEF turns
<1> QED BY <1>7, <1>10, <1>11, <1>15

\* A window and the one before it.
LEMMA NextWindow ==
    ASSUME NEW h \in Seq(BOOLEAN), NEW m \in 1 .. Len(h), NEW n, n = m - 1
    PROVE  /\ Label(h)[m] = IF Sure(h, m) THEN h[m] ELSE Label(h)[n]
           /\ Turns(h)[m] = IF Label(h)[m] # Label(h)[n] THEN Append(Turns(h)[n], m)
                            ELSE Turns(h)[n]
<1>1. Label(h)[m] = IF Sure(h, m) THEN h[m] ELSE Label(h)[m - 1] BY LabelFacts
<1>2. Turns(h)[m] = IF Label(h)[m] # Label(h)[m - 1] THEN Append(Turns(h)[m - 1], m)
                    ELSE Turns(h)[m - 1]
  BY TurnsFacts
<1> QED BY <1>1, <1>2

\* What is heard later leaves the windows before it as they were.
LEMMA LabelKept ==
    ASSUME NEW h \in Seq(BOOLEAN), NEW g \in Seq(BOOLEAN), NEW tone, ScanInv(tone, h),
           Len(h) <= Len(g), \A j \in 1 .. Len(h) : g[j] = h[j]
    PROVE  /\ \A j \in 0 .. Len(h) : Label(g)[j] = Label(h)[j]
           /\ \A j \in 0 .. Len(h) : Turns(g)[j] = Turns(h)[j]
<1> DEFINE n == Len(h)
           T == {k \in Nat : k <= n => Label(g)[k] = Label(h)[k]}
           U == {k \in Nat : k <= n => Turns(g)[k] = Turns(h)[k]}
<1>1. n \in Nat /\ DOMAIN h = 1 .. n /\ DOMAIN g = 1 .. Len(g) /\ Len(g) \in Nat OBVIOUS
<1>2. 0 \in T /\ 0 \in U BY LabelFacts, TurnsFacts
<1>3. ASSUME NEW k \in Nat, k < n, k \in T PROVE k + 1 \in T
  <2>1. k + 1 \in 1 .. n /\ k + 1 \in 1 .. Len(g) /\ (k + 1) - 1 = k BY <1>1, <1>3
  <2>2. Label(g)[k + 1] = IF Sure(g, k + 1) THEN g[k + 1] ELSE Label(g)[k]
    BY <2>1, NextWindow
  <2>3. Label(h)[k + 1] = IF Sure(h, k + 1) THEN h[k + 1] ELSE Label(h)[k]
    BY <2>1, NextWindow
  <2>4. g[k + 1] = h[k + 1] /\ Label(g)[k] = Label(h)[k] BY <1>3, <2>1
  <2>5. CASE k + 1 < n
    <3>1. \A i \in {k, k + 2} \cap (1 .. n) : i \in DOMAIN g /\ g[i] = h[i] BY <1>1
    <3>2. {k, k + 2} \cap DOMAIN h = {k, k + 2} \cap DOMAIN g BY <1>1, <2>5
    <3>3. Sure(g, k + 1) <=> Sure(h, k + 1)
      <4>1. (k + 1) - 1 = k /\ (k + 1) + 1 = k + 2 OBVIOUS
      <4> QED BY <1>1, <2>4, <3>1, <3>2, <4>1 DEF Sure
    <3> QED BY <2>2, <2>3, <2>4, <3>3
  <2>6. CASE k + 1 = n
    <3>1. h[k + 1] = tone /\ Label(h)[k + 1] = tone
      <4>1. h # <<>> BY <2>1
      <4> QED BY <2>6, <4>1 DEF ScanInv
    <3>2. Sure(h, k + 1) => Sure(g, k + 1)
      <4>1. \A i \in DOMAIN h : i \in DOMAIN g /\ g[i] = h[i] BY <1>1
      <4> QED BY <2>4, <4>1 DEF Sure
    <3> QED BY <2>2, <2>3, <2>4, <3>1, <3>2
  <2>7. k + 1 < n \/ k + 1 = n
    <3> HIDE DEF n
    <3> QED BY <1>1, <2>1
  <2> QED BY <2>5, <2>6, <2>7
<1>4. \A k \in 0 .. n : k \in T
  <2> HIDE DEF T, n
  <2> QED BY <1>1, <1>2, <1>3, Induction
<1>5. \A j \in 0 .. n : Label(g)[j] = Label(h)[j] BY <1>4
<1>6. ASSUME NEW k \in Nat, k < n, k \in U PROVE k + 1 \in U
  <2>1. /\ k + 1 \in 1 .. n /\ k + 1 \in 1 .. Len(g) /\ (k + 1) - 1 = k
        /\ k \in 0 .. n /\ k + 1 \in 0 .. n
    BY <1>1, <1>6
  <2>2. Turns(g)[k + 1] = IF Label(g)[k + 1] # Label(g)[k] THEN Append(Turns(g)[k], k + 1)
                          ELSE Turns(g)[k]
    BY <2>1, NextWindow
  <2>3. Turns(h)[k + 1] = IF Label(h)[k + 1] # Label(h)[k] THEN Append(Turns(h)[k], k + 1)
                          ELSE Turns(h)[k]
    BY <2>1, NextWindow
  <2>4. Turns(g)[k] = Turns(h)[k] BY <1>6
  <2>5. Label(g)[k] = Label(h)[k] /\ Label(g)[k + 1] = Label(h)[k + 1] BY <1>5, <2>1
  <2> QED BY <2>2, <2>3, <2>4, <2>5
<1>7. \A k \in 0 .. n : k \in U
  <2> HIDE DEF U, n
  <2> QED BY <1>1, <1>2, <1>6, Induction
<1>8. \A j \in 0 .. n : Turns(g)[j] = Turns(h)[j] BY <1>7
<1> QED BY <1>5, <1>8

\* A window of the tone that lasts is part of the run.
LEMMA OneMore ==
    ASSUME NEW h \in Seq(BOOLEAN), NEW tone \in BOOLEAN, ScanInv(tone, h)
    PROVE  LET g == Append(h, tone)
           IN  ScanInv(tone, g) /\ Turns(g)[Len(g)] = Turns(h)[Len(h)]
<1> DEFINE g == Append(h, tone)
           n == Len(h)
<1>1. /\ g \in Seq(BOOLEAN) /\ n \in Nat /\ Len(g) = n + 1 /\ g[n + 1] = tone /\ g # <<>>
      /\ \A j \in 1 .. n : g[j] = h[j]
  OBVIOUS
<1>2. Label(g)[n] = Label(h)[n] /\ Turns(g)[n] = Turns(h)[n]
  <2>1. n <= Len(g) /\ n \in 0 .. Len(h) BY <1>1
  <2> HIDE DEF g
  <2> QED BY <1>1, <2>1, LabelKept
<1>3. Label(h)[n] = tone BY DEF ScanInv
<1>4. n + 1 \in 1 .. Len(g) /\ (n + 1) - 1 = n BY <1>1
<1> HIDE DEF g, n
<1>5. Label(g)[n + 1] = tone
  <2>1. Label(g)[n + 1] = IF Sure(g, n + 1) THEN g[n + 1] ELSE Label(g)[n]
    BY <1>1, <1>4, NextWindow
  <2> QED BY <1>1, <1>2, <1>3, <2>1
<1>6. Turns(g)[n + 1] = Turns(g)[n]
  <2>1. Turns(g)[n + 1] = IF Label(g)[n + 1] # Label(g)[n] THEN Append(Turns(g)[n], n + 1)
                          ELSE Turns(g)[n]
    BY <1>1, <1>4, NextWindow
  <2> QED BY <1>2, <1>3, <1>5, <2>1
<1>7. ScanInv(tone, g) BY <1>1, <1>5 DEF ScanInv
<1>8. Turns(g)[Len(g)] = Turns(h)[n] BY <1>1, <1>2, <1>6
<1> QED BY <1>7, <1>8 DEF g, n

\* So is a single window of the other tone, once the tone is back.
LEMMA TwoMore ==
    ASSUME NEW h \in Seq(BOOLEAN), NEW tone \in BOOLEAN, NEW other \in BOOLEAN, other # tone,
           ScanInv(tone, h)
    PROVE  LET g == Append(Append(h, other), tone)
           IN  ScanInv(tone, g) /\ Turns(g)[Len(g)] = Turns(h)[Len(h)]
<1> DEFINE g == Append(Append(h, other), tone)
           n == Len(h)
<1>1. /\ g \in Seq(BOOLEAN) /\ n \in Nat /\ Len(g) = n + 2 /\ DOMAIN g = 1 .. n + 2
      /\ g[n + 1] = other /\ g[n + 2] = tone /\ g # <<>> /\ \A j \in 1 .. n : g[j] = h[j]
  OBVIOUS
<1>2. Label(g)[n] = Label(h)[n] /\ Turns(g)[n] = Turns(h)[n]
  <2>1. n <= Len(g) /\ n \in 0 .. Len(h) BY <1>1
  <2> HIDE DEF g
  <2> QED BY <1>1, <2>1, LabelKept
<1>3. Label(h)[n] = tone BY DEF ScanInv
<1>4. /\ n + 1 \in 1 .. Len(g) /\ (n + 1) - 1 = n /\ (n + 1) + 1 = n + 2
      /\ n + 2 \in 1 .. Len(g) /\ (n + 2) - 1 = n + 1
  BY <1>1
<1>5. n > 0 => g[n] = tone
  <2>1. n > 0 => n \in 1 .. n /\ h # <<>> BY <1>1
  <2> QED BY <1>1, <2>1 DEF ScanInv
<1> HIDE DEF g, n
<1>6. ~Sure(g, n + 1)
  <2>1. ASSUME NEW k \in {n, n + 2} \cap DOMAIN g PROVE g[k] = tone
    <3>1. k = n + 2 \/ (k = n /\ n > 0) BY <1>1
    <3> QED BY <1>1, <1>5, <3>1
  <2> QED BY <1>1, <1>4, <2>1 DEF Sure
<1>7. Label(g)[n + 1] = tone /\ Turns(g)[n + 1] = Turns(g)[n]
  <2>1. Label(g)[n + 1] = IF Sure(g, n + 1) THEN g[n + 1] ELSE Label(g)[n]
    BY <1>1, <1>4, NextWindow
  <2>2. Turns(g)[n + 1] = IF Label(g)[n + 1] # Label(g)[n] THEN Append(Turns(g)[n], n + 1)
                          ELSE Turns(g)[n]
    BY <1>1, <1>4, NextWindow
  <2> QED BY <1>2, <1>3, <1>6, <2>1, <2>2
<1>8. Label(g)[n + 2] = tone /\ Turns(g)[n + 2] = Turns(g)[n + 1]
  <2>1. Label(g)[n + 2] = IF Sure(g, n + 2) THEN g[n + 2] ELSE Label(g)[n + 1]
    BY <1>1, <1>4, NextWindow
  <2>2. Turns(g)[n + 2] = IF Label(g)[n + 2] # Label(g)[n + 1]
                          THEN Append(Turns(g)[n + 1], n + 2) ELSE Turns(g)[n + 1]
    BY <1>1, <1>4, NextWindow
  <2> QED BY <1>1, <1>7, <2>1, <2>2
<1>9. ScanInv(tone, g) BY <1>1, <1>8 DEF ScanInv
<1>10. Turns(g)[Len(g)] = Turns(h)[n] BY <1>1, <1>2, <1>7, <1>8
<1> QED BY <1>9, <1>10 DEF g, n

\* Two windows of the other tone are a turn, at the first.
LEMMA TurnsOver ==
    ASSUME NEW h \in Seq(BOOLEAN), NEW tone \in BOOLEAN, NEW other \in BOOLEAN, other # tone,
           ScanInv(tone, h)
    PROVE  LET g == Append(Append(h, other), other)
           IN  /\ ScanInv(other, g)
               /\ Turns(g)[Len(g)] = Append(Turns(h)[Len(h)], Len(h) + 1)
<1> DEFINE g == Append(Append(h, other), other)
           n == Len(h)
<1>1. /\ g \in Seq(BOOLEAN) /\ n \in Nat /\ Len(g) = n + 2 /\ DOMAIN g = 1 .. n + 2
      /\ g[n + 1] = other /\ g[n + 2] = other /\ g # <<>> /\ \A j \in 1 .. n : g[j] = h[j]
  OBVIOUS
<1>2. Label(g)[n] = Label(h)[n] /\ Turns(g)[n] = Turns(h)[n]
  <2>1. n <= Len(g) /\ n \in 0 .. Len(h) BY <1>1
  <2> HIDE DEF g
  <2> QED BY <1>1, <2>1, LabelKept
<1>3. Label(h)[n] = tone BY DEF ScanInv
<1>4. /\ n + 1 \in 1 .. Len(g) /\ (n + 1) - 1 = n /\ (n + 1) + 1 = n + 2
      /\ n + 2 \in 1 .. Len(g) /\ (n + 2) - 1 = n + 1
  BY <1>1
<1> HIDE DEF g, n
<1>5. Sure(g, n + 1) /\ Sure(g, n + 2) BY <1>1, <1>4 DEF Sure
<1>6. Label(g)[n + 1] = other /\ Turns(g)[n + 1] = Append(Turns(g)[n], n + 1)
  <2>1. Label(g)[n + 1] = IF Sure(g, n + 1) THEN g[n + 1] ELSE Label(g)[n]
    BY <1>1, <1>4, NextWindow
  <2>2. Turns(g)[n + 1] = IF Label(g)[n + 1] # Label(g)[n] THEN Append(Turns(g)[n], n + 1)
                          ELSE Turns(g)[n]
    BY <1>1, <1>4, NextWindow
  <2> QED BY <1>1, <1>2, <1>3, <1>5, <2>1, <2>2
<1>7. Label(g)[n + 2] = other /\ Turns(g)[n + 2] = Turns(g)[n + 1]
  <2>1. Label(g)[n + 2] = IF Sure(g, n + 2) THEN g[n + 2] ELSE Label(g)[n + 1]
    BY <1>1, <1>4, NextWindow
  <2>2. Turns(g)[n + 2] = IF Label(g)[n + 2] # Label(g)[n + 1]
                          THEN Append(Turns(g)[n + 1], n + 2) ELSE Turns(g)[n + 1]
    BY <1>1, <1>4, NextWindow
  <2> QED BY <1>1, <1>5, <1>6, <2>1, <2>2
<1>8. ScanInv(other, g) BY <1>1, <1>7 DEF ScanInv
<1>9. Turns(g)[Len(g)] = Append(Turns(h)[n], n + 1) BY <1>1, <1>2, <1>6, <1>7
<1> QED BY <1>8, <1>9 DEF g, n

\* The lasting runs up to one more turn.
LEMMA LastingFacts ==
    ASSUME NEW t \in Seq(Nat), NEW x \in Nat
    PROVE  /\ Lasting(Append(t, x), 1) =
                IF Len(t) % 2 = 1 THEN Append(Lasting(t, 1), (x - t[Len(t)]) * Window)
                ELSE Lasting(t, 1)
           /\ Lasting(Append(t, x), 2) =
                IF Len(t) % 2 = 0 /\ t # <<>>
                THEN Append(Lasting(t, 2), (x - t[Len(t)]) * Window) ELSE Lasting(t, 2)
           /\ (Lasting(t, 1) = <<>>) <=> Len(t) < 2
<1> DEFINE n == Len(t)
           u == Append(t, x)
           M(s, first) == (Len(s) - first + 1) \div 2
           E(s, first, i) == (s[2 * i + first - 1] - s[2 * i + first - 2]) * Window
<1>1. /\ n \in Nat /\ u \in Seq(Nat) /\ Len(u) = n + 1 /\ u[n + 1] = x
      /\ \A i \in 1 .. n : u[i] = t[i] /\ t[i] \in Nat
  OBVIOUS
<1>2. \A s, first : Lasting(s, first) = [i \in 1 .. M(s, first) |-> E(s, first, i)]
  BY DEF Lasting
<1>3. \A s \in Seq(Nat) : \A first \in {1, 2} : \A i \in 1 .. M(s, first) :
          /\ 2 * i + first - 1 \in 1 .. Len(s) /\ 2 * i + first - 2 \in 1 .. Len(s)
  OBVIOUS
<1>4. ASSUME NEW first \in {1, 2}, NEW i \in 1 .. M(t, first)
      PROVE  E(u, first, i) = E(t, first, i) /\ E(t, first, i) \in Int
  <2>1. 2 * i + first - 1 \in 1 .. n /\ 2 * i + first - 2 \in 1 .. n BY <1>3
  <2>2. Window \in Int BY DEF Window
  <2> DEFINE a == 2 * i + first - 1
             b == 2 * i + first - 2
  <2>3. /\ E(u, first, i) = (u[a] - u[b]) * Window
        /\ E(t, first, i) = (t[a] - t[b]) * Window
    OBVIOUS
  <2> HIDE DEF u, n, a, b, E
  <2>4. u[a] = t[a] /\ u[b] = t[b] /\ t[a] \in Nat /\ t[b] \in Nat BY <1>1, <2>1 DEF a, b
  <2> QED BY <2>2, <2>3, <2>4
<1>5. ASSUME NEW first \in {1, 2}, M(u, first) = M(t, first)
      PROVE  Lasting(u, first) = Lasting(t, first)
  <2> HIDE DEF u, M, E
  <2> QED BY <1>2, <1>4, <1>5
<1>6. ASSUME NEW first \in {1, 2}, M(t, first) \in Nat, M(u, first) = M(t, first) + 1,
             2 * M(u, first) + first - 1 = n + 1
      PROVE  Lasting(u, first) = Append(Lasting(t, first), (x - t[n]) * Window)
  <2> DEFINE m == M(t, first)
             f == Lasting(t, first)
             g == Lasting(u, first)
             v == (x - t[n]) * Window
  <2>1. f = [i \in 1 .. m |-> E(t, first, i)] /\ g = [i \in 1 .. m + 1 |-> E(u, first, i)]
    <3> HIDE DEF u, M, E
    <3> QED BY <1>2, <1>6
  <2>2. E(u, first, m + 1) = v /\ v \in Int
    <3>1. 2 * (m + 1) + first - 1 = n + 1 /\ 2 * (m + 1) + first - 2 = n BY <1>6
    <3>2. n \in 1 .. n BY <1>1, <1>6, <3>1
    <3>3. E(u, first, m + 1) = (u[n + 1] - u[n]) * Window BY <3>1
    <3> HIDE DEF u, n, m, E
    <3> QED BY <1>1, <3>2, <3>3 DEF Window
  <2>3. \A i \in 1 .. m : E(u, first, i) = E(t, first, i) /\ E(t, first, i) \in Int BY <1>4
  <2>4. m \in Nat BY <1>6
  <2> HIDE DEF u, n, m, M, E, f, g, v
  <2>5. f \in Seq(Int) /\ Len(f) = m BY <2>1, <2>3, <2>4
  <2> DEFINE p == Append(f, v)
  <2>6. /\ p \in Seq(Int) /\ Len(p) = m + 1 /\ p[m + 1] = v
        /\ \A i \in 1 .. m : p[i] = f[i]
    BY <2>2, <2>4, <2>5
  <2> HIDE DEF p
  <2>7. ASSUME NEW i \in 1 .. m + 1 PROVE E(u, first, i) = p[i]
    <3>1. CASE i = m + 1 BY <2>2, <2>6, <3>1
    <3>2. CASE i # m + 1
      <4>1. i \in 1 .. m BY <2>4, <3>2
      <4>2. f[i] = E(t, first, i) BY <2>1, <4>1
      <4> QED BY <2>3, <2>6, <4>1, <4>2
    <3> QED BY <3>1, <3>2
  <2>8. g = p
    <3>1. p = [i \in 1 .. m + 1 |-> p[i]] BY <2>4, <2>6
    <3> QED BY <2>1, <2>7, <3>1
  <2> QED BY <2>8 DEF f, g, p, v
<1>7. (Lasting(t, 1) = <<>>) <=> n < 2
  <2>1. Lasting(t, 1) = [i \in 1 .. M(t, 1) |-> E(t, 1, i)] BY <1>2
  <2>2. M(t, 1) \in Nat /\ (M(t, 1) = 0 <=> n < 2) BY <1>1
  <2>4. \A i \in 1 .. M(t, 1) : E(t, 1, i) \in Int BY <1>4
  <2> HIDE DEF M, E
  <2>3. Lasting(t, 1) = <<>> <=> M(t, 1) = 0 BY <2>1, <2>2, <2>4
  <2> QED BY <2>2, <2>3
<1>8. CASE n % 2 = 1
  <2>1. /\ M(t, 1) \in Nat /\ M(u, 1) = M(t, 1) + 1 /\ 2 * M(u, 1) + 1 - 1 = n + 1
        /\ M(u, 2) = M(t, 2)
    <3> HIDE DEF u, n
    <3>1. PICK k \in Nat : n = 2 * k + 1 BY <1>1, <1>8
    <3>2. Len(t) = n BY DEF n
    <3> QED BY <1>1, <3>1, <3>2
  <2>2. Lasting(u, 1) = Append(Lasting(t, 1), (x - t[n]) * Window) BY <1>6, <2>1
  <2>3. Lasting(u, 2) = Lasting(t, 2) BY <1>5, <2>1
  <2>4. ~(n % 2 = 0) BY <1>8
  <2> HIDE DEF u, M, E
  <2> QED BY <1>8, <2>2, <2>3, <2>4, <1>7 DEF u
<1>9. CASE n % 2 = 0 /\ n > 0
  <2>1. /\ M(t, 2) \in Nat /\ M(u, 2) = M(t, 2) + 1 /\ 2 * M(u, 2) + 2 - 1 = n + 1
        /\ M(u, 1) = M(t, 1)
    <3> HIDE DEF u, n
    <3>1. PICK k \in Nat : n = 2 * k + 2
      <4>1. n = 2 * ((n \div 2) - 1) + 2 /\ (n \div 2) - 1 \in Nat BY <1>1, <1>9
      <4> QED BY <4>1
    <3>2. Len(t) = n BY DEF n
    <3> QED BY <1>1, <3>1, <3>2
  <2>2. Lasting(u, 2) = Append(Lasting(t, 2), (x - t[n]) * Window) BY <1>6, <2>1
  <2>3. Lasting(u, 1) = Lasting(t, 1) BY <1>5, <2>1
  <2>4. ~(n % 2 = 1) /\ t # <<>> BY <1>9
  <2> HIDE DEF u, M, E
  <2> QED BY <1>9, <2>2, <2>3, <2>4, <1>7 DEF u
<1>10. CASE n = 0
  <2>1. M(u, 1) = M(t, 1)
    <3> HIDE DEF u
    <3> QED BY <1>1, <1>10
  <2>2. \A i : i \notin 1 .. M(u, 2) /\ i \notin 1 .. M(t, 2)
    <3> HIDE DEF u
    <3> QED BY <1>1, <1>10
  <2>3. Lasting(u, 1) = Lasting(t, 1) BY <1>5, <2>1
  <2>4. Lasting(u, 2) = Lasting(t, 2)
    <3>1. 1 .. M(u, 2) = {} /\ 1 .. M(t, 2) = {}
      <4> HIDE DEF M
      <4> QED BY <2>2
    <3>2. \A i \in {} : E(u, 2, i) = E(t, 2, i) OBVIOUS
    <3> HIDE DEF M, E
    <3> QED BY <1>2, <3>1, <3>2
  <2>5. ~(n % 2 = 1) /\ t = <<>> BY <1>10
  <2> HIDE DEF u, M, E
  <2> QED BY <2>3, <2>4, <2>5, <1>7 DEF u
<1>11. n % 2 = 1 \/ (n % 2 = 0 /\ n > 0) \/ n = 0
  <2> HIDE DEF n
  <2> QED BY <1>1
<1> QED BY <1>7, <1>8, <1>9, <1>10, <1>11

-----------------------------------------------------------------------------
(* MorseDecoder: the debouncer *)

\* The debouncer's record of its fields.
Debouncer(unit, tone, elapsed, marks, gaps, candidate, texts, heard) ==
    [unit |-> unit, tone |-> tone, elapsed |-> elapsed, marks |-> marks, gaps |-> gaps,
     candidate |-> candidate, texts |-> texts, heard |-> heard]

\* What is settled, and what is in doubt.
LEMMA SettledFacts ==
    ASSUME NEW d, DebounceInv(d)
    PROVE  /\ Settled(d) \in Seq(BOOLEAN)
           /\ d.candidate = 0 => d.heard = Settled(d)
           /\ d.candidate = 1 => d.heard = Append(Settled(d), ~d.tone)
<1> DEFINE s == d.heard
           n == Len(s)
           h == Settled(d)
           m == n - d.candidate
<1>1. /\ s \in Seq(BOOLEAN) /\ n \in Nat /\ d.candidate \in {0, 1} /\ d.tone \in BOOLEAN
      /\ d.candidate = 1 => n > 0 /\ s[n] = ~d.tone
  BY DEF DebounceInv
<1>2. h = SubSeq(s, 1, m) BY DEF Settled
<1>3. m \in Nat /\ m <= n /\ \A i \in 1 .. m : s[i] \in BOOLEAN BY <1>1
<1>4. /\ h \in Seq(BOOLEAN) /\ Len(h) = m /\ \A i \in 1 .. m : h[i] = s[i]
  <2> HIDE DEF h, n, m, s
  <2>1. /\ h \in Seq(BOOLEAN) /\ Len(h) = IF 1 <= m THEN m - 1 + 1 ELSE 0
        /\ \A i \in 1 .. m - 1 + 1 : h[i] = s[1 + i - 1]
    BY <1>2, <1>3, SubSeqProperties
  <2> QED BY <1>3, <2>1
<1>5. ASSUME d.candidate = 0 PROVE s = h
  <2>1. m = n BY <1>1, <1>5
  <2> HIDE DEF h, m
  <2> QED BY <1>1, <1>4, <2>1, SeqEqual
<1>6. ASSUME d.candidate = 1 PROVE s = Append(h, ~d.tone)
  <2> DEFINE g == Append(h, ~d.tone)
  <2>1. m = n - 1 /\ n > 0 /\ s[n] = ~d.tone /\ (~d.tone) \in BOOLEAN
    <3>1. n > 0 /\ s[n] = ~d.tone BY <1>1, <1>6
    <3>2. m = n - 1 BY <1>6
    <3>3. (~d.tone) \in BOOLEAN OBVIOUS
    <3> HIDE DEF h, m, n, s
    <3> QED BY <3>1, <3>2, <3>3
  <2> HIDE DEF h, m, s
  <2>2. /\ g \in Seq(BOOLEAN) /\ Len(g) = m + 1 /\ g[m + 1] = ~d.tone
        /\ \A i \in 1 .. m : g[i] = h[i]
    BY <1>4, <2>1, AppendProperties
  <2> HIDE DEF g
  <2>3. \A i \in 1 .. n : s[i] = g[i]
    <3>1. ASSUME NEW i \in 1 .. n PROVE s[i] = g[i]
      <4>1. CASE i = n
        <5>1. m + 1 = n BY <1>1, <2>1
        <5> QED BY <2>1, <2>2, <4>1, <5>1
      <4>2. CASE i \in 1 .. m BY <1>4, <2>2, <4>2
      <4>3. i = n \/ i \in 1 .. m BY <1>1, <2>1
      <4> QED BY <4>1, <4>2, <4>3
    <3> QED BY <3>1
  <2>4. Len(s) = Len(g) BY <1>1, <2>1, <2>2
  <2>5. s = g BY <1>1, <2>2, <2>3, <2>4, SeqEqual
  <2> QED BY <2>5 DEF g
<1> QED BY <1>4, <1>5, <1>6

\* A debouncer with nothing in doubt.
LEMMA Settles ==
    ASSUME NEW unit, NEW tone \in BOOLEAN, NEW elapsed, NEW marks, NEW gaps, NEW texts,
           NEW heard \in Seq(BOOLEAN), ScanInv(tone, heard),
           NEW t, t = Turns(heard)[Len(heard)], marks = Lasting(t, 1), gaps = Lasting(t, 2),
           t # <<>> => elapsed = (Len(heard) - t[Len(t)] + 1) * Window
    PROVE  DebounceInv(Debouncer(unit, tone, elapsed, marks, gaps, 0, texts, heard))
<1> DEFINE r == Debouncer(unit, tone, elapsed, marks, gaps, 0, texts, heard)
<1>1. /\ r.unit = unit /\ r.tone = tone /\ r.elapsed = elapsed /\ r.marks = marks
      /\ r.gaps = gaps /\ r.candidate = 0 /\ r.texts = texts /\ r.heard = heard
      /\ r = [unit |-> r.unit, tone |-> r.tone, elapsed |-> r.elapsed, marks |-> r.marks,
              gaps |-> r.gaps, candidate |-> r.candidate, texts |-> r.texts, heard |-> r.heard]
  BY DEF Debouncer
<1> HIDE DEF r
<1>2. Settled(r) = heard
  <2>1. Settled(r) = SubSeq(heard, 1, Len(heard) - 0) BY <1>1 DEF Settled
  <2>2. Len(heard) - 0 = Len(heard) OBVIOUS
  <2> QED BY <2>1, <2>2
<1>3. Len(heard) \in Nat /\ Len(heard) \in 0 .. Len(heard) OBVIOUS
<1>4. tone <=> Len(t) % 2 = 1
  <2>1. Label(heard)[Len(heard)] <=> Len(t) % 2 = 1 BY <1>3, TurnsFacts
  <2> QED BY <2>1 DEF ScanInv
<1>5. t # <<>> => r.elapsed = (Len(heard) - Last(t) + 1) * Window BY <1>1 DEF Last
<1>6. Agrees(r, heard, t) BY <1>1, <1>4, <1>5 DEF Agrees
<1>7. r.candidate # 1 BY <1>1
<1> QED BY <1>1, <1>2, <1>6, <1>7 DEF DebounceInv, r

\* A debouncer that has heard nothing since.
LEMMA Empties ==
    ASSUME NEW unit, NEW elapsed, NEW texts
    PROVE  DebounceInv(Debouncer(unit, FALSE, elapsed, <<>>, <<>>, 0, texts, <<>>))
<1>1. <<>> \in Seq(BOOLEAN) /\ Len(<<>>) = 0 OBVIOUS
<1>2. Label(<<>>)[0] = FALSE BY <1>1, LabelFacts
<1>3. Turns(<<>>)[0] = <<>> BY <1>1, TurnsFacts
<1>4. ScanInv(FALSE, <<>>) BY <1>1, <1>2 DEF ScanInv
<1>5. Lasting(<<>>, 1) = <<>> /\ Lasting(<<>>, 2) = <<>>
  <2>1. 1 .. (Len(<<>>) - 1 + 1) \div 2 = {} /\ 1 .. (Len(<<>>) - 2 + 1) \div 2 = {} BY <1>1
  <2> QED BY <2>1 DEF Lasting
<1> QED BY <1>1, <1>3, <1>4, <1>5, Settles

\* The debouncer with a window more heard.
Hears(d, raw) == [d EXCEPT !.heard = Append(@, raw)]
\* A debouncer, from its fields.
Parts(d) == Debouncer(d.unit, d.tone, d.elapsed, d.marks, d.gaps, d.candidate, d.texts, d.heard)

\* What the steps of the debouncer change of it.
LEMMA HearsMore ==
    ASSUME NEW d, d = Parts(d), NEW raw
    PROVE  Hears(d, raw) = Debouncer(d.unit, d.tone, d.elapsed, d.marks, d.gaps, d.candidate,
                                     d.texts, Append(d.heard, raw))
<1> DEFINE g == Append(d.heard, raw)
<1>1. DOMAIN d = {"unit", "tone", "elapsed", "marks", "gaps", "candidate", "texts", "heard"}
  <2>1. DOMAIN Parts(d)
          = {"unit", "tone", "elapsed", "marks", "gaps", "candidate", "texts", "heard"}
    BY DEF Parts, Debouncer
  <2> QED BY <2>1
<1>2. Hears(d, raw) = [d EXCEPT !.heard = g] BY DEF Hears
<1> HIDE DEF g
<1>3. [d EXCEPT !.heard = g] = Debouncer(d.unit, d.tone, d.elapsed, d.marks, d.gaps,
                                         d.candidate, d.texts, g)
  BY <1>1 DEF Debouncer
<1> QED BY <1>2, <1>3 DEF g

\* What a run that goes on, or turns, changes of the debouncer.
LEMMA RunOnFields ==
    ASSUME NEW unit, NEW tone, NEW elapsed, NEW marks, NEW gaps, NEW candidate, NEW texts,
           NEW heard, NEW raw, NEW duration
    PROVE  RunOn(Debouncer(unit, tone, elapsed, marks, gaps, candidate, texts, heard),
                 raw, duration)
            = Debouncer(unit, raw, IF raw # tone THEN duration ELSE elapsed + duration,
                IF raw # tone /\ tone /\ elapsed >= Click THEN Append(marks, elapsed) ELSE marks,
                IF raw # tone /\ ~tone /\ marks # <<>> /\ elapsed >= Click
                THEN Append(gaps, elapsed) ELSE gaps,
                0, texts, heard)
<1> DEFINE d == Debouncer(unit, tone, elapsed, marks, gaps, candidate, texts, heard)
           e == IF raw # tone THEN duration ELSE elapsed + duration
           m == IF raw # tone /\ tone /\ elapsed >= Click THEN Append(marks, elapsed) ELSE marks
           g == IF raw # tone /\ ~tone /\ marks # <<>> /\ elapsed >= Click
                THEN Append(gaps, elapsed) ELSE gaps
<1>1. d.tone = tone /\ d.elapsed = elapsed /\ d.marks = marks /\ d.gaps = gaps BY DEF Debouncer
<1>2. RunOn(d, raw, duration)
        = [d EXCEPT !.tone = raw, !.candidate = 0, !.elapsed = e, !.marks = m, !.gaps = g]
  <2> HIDE DEF d
  <2> QED BY <1>1 DEF RunOn
<1> HIDE DEF e, m, g
<1>3. [d EXCEPT !.tone = raw, !.candidate = 0, !.elapsed = e, !.marks = m, !.gaps = g]
        = Debouncer(unit, raw, e, m, g, 0, texts, heard)
  <2> DEFINE r == [d EXCEPT !.tone = raw, !.candidate = 0, !.elapsed = e, !.marks = m,
                            !.gaps = g]
             names == {"unit", "tone", "elapsed", "marks", "gaps", "candidate", "texts", "heard"}
  <2>1. DOMAIN d = names /\ d.unit = unit /\ d.texts = texts /\ d.heard = heard
    BY DEF Debouncer
  <2> HIDE DEF d
  <2>2. /\ DOMAIN r = names /\ r.unit = unit /\ r.tone = raw /\ r.elapsed = e /\ r.marks = m
        /\ r.gaps = g /\ r.candidate = 0 /\ r.texts = texts /\ r.heard = heard
    BY <2>1
  <2>3. r = [x \in names |-> r[x]] BY <2>1
  <2> DEFINE q == Debouncer(unit, raw, e, m, g, 0, texts, heard)
  <2>4. /\ q.unit = unit /\ q.tone = raw /\ q.elapsed = e /\ q.marks = m /\ q.gaps = g
        /\ q.candidate = 0 /\ q.texts = texts /\ q.heard = heard
        /\ q = [x \in names |-> q[x]]
    BY DEF Debouncer
  <2> HIDE DEF q, r
  <2>5. \A x \in names : r[x] = q[x] BY <2>2, <2>4
  <2>6. r = q BY <2>3, <2>4, <2>5
  <2> QED BY <2>6 DEF q, r
<1> QED BY <1>2, <1>3 DEF e, m, g

\* A run that goes on.
LEMMA GoesOn ==
    ASSUME NEW d, DebounceInv(d)
    PROVE  DebounceInv(RunOn(Hears(d, d.tone), d.tone, (d.candidate + 1) * Window))
<1> DEFINE h == Settled(d)
           t == Turns(h)[Len(h)]
           g == Append(d.heard, d.tone)
           c == d.candidate
           elapsed == d.elapsed + (c + 1) * Window
<1>1. /\ d.tone \in BOOLEAN /\ d.heard \in Seq(BOOLEAN) /\ c \in {0, 1} /\ ScanInv(d.tone, h)
      /\ d.marks = Lasting(t, 1) /\ d.gaps = Lasting(t, 2)
      /\ t # <<>> => d.elapsed = (Len(h) - t[Len(t)] + 1) * Window
  BY DEF DebounceInv, Agrees, Last
<1>2. /\ h \in Seq(BOOLEAN) /\ (c = 0 => d.heard = h) /\ (c = 1 => d.heard = Append(h, ~d.tone))
  BY SettledFacts
<1> HIDE DEF h
<1>3. /\ ScanInv(d.tone, g) /\ Turns(g)[Len(g)] = t /\ Len(g) = Len(h) + c + 1
      /\ g \in Seq(BOOLEAN)
  <2>1. CASE c = 0
    <3>1. g = Append(h, d.tone) BY <1>2, <2>1
    <3>2. ScanInv(d.tone, g) /\ Turns(g)[Len(g)] = t BY <1>1, <1>2, <3>1, OneMore
    <3>3. Len(g) = Len(h) + 1 /\ g \in Seq(BOOLEAN) BY <1>1, <1>2, <3>1
    <3> QED BY <1>2, <2>1, <3>2, <3>3
  <2>2. CASE c = 1
    <3> DEFINE other == ~d.tone
    <3>1. g = Append(Append(h, other), d.tone) BY <1>2, <2>2
    <3>2. other \in BOOLEAN /\ other # d.tone BY <1>1
    <3> HIDE DEF other
    <3>3. ScanInv(d.tone, g) /\ Turns(g)[Len(g)] = t BY <1>1, <1>2, <3>1, <3>2, TwoMore
    <3>4. Len(g) = Len(h) + 2 /\ g \in Seq(BOOLEAN) BY <1>1, <1>2, <3>1, <3>2
    <3> QED BY <1>2, <2>2, <3>3, <3>4
  <2> QED BY <1>1, <2>1, <2>2
<1>4. t # <<>> => elapsed = (Len(g) - t[Len(t)] + 1) * Window
  <2>1. ASSUME t # <<>> PROVE elapsed = (Len(g) - t[Len(t)] + 1) * Window
    <3>1. t \in Seq(Nat)
      <4>1. Len(h) \in 0 .. Len(h) BY <1>2
      <4> QED BY <1>2, <4>1, TurnsFacts
    <3>2. t[Len(t)] \in Nat
      <4> HIDE DEF t
      <4> QED BY <2>1, <3>1
    <3>3. Len(h) \in Nat /\ c \in Nat BY <1>1, <1>2
    <3>4. d.elapsed = (Len(h) - t[Len(t)] + 1) * Window BY <1>1, <2>1
    <3> HIDE DEF t, g, c
    <3> QED BY <1>3, <3>2, <3>3, <3>4 DEF Window
  <2> QED BY <2>1
<1>5. RunOn(Hears(d, d.tone), d.tone, (c + 1) * Window)
        = Debouncer(d.unit, d.tone, elapsed, d.marks, d.gaps, 0, d.texts, g)
  <2>1. d = Parts(d) BY DEF DebounceInv, Parts, Debouncer
  <2> HIDE DEF c, elapsed, g
  <2>2. Hears(d, d.tone)
          = Debouncer(d.unit, d.tone, d.elapsed, d.marks, d.gaps, d.candidate, d.texts, g)
    BY <2>1, HearsMore DEF g
  <2>3. ~(d.tone # d.tone) OBVIOUS
  <2> QED BY <2>2, <2>3, RunOnFields DEF elapsed
<1> HIDE DEF t, g, c, elapsed
<1>6. DebounceInv(Debouncer(d.unit, d.tone, elapsed, d.marks, d.gaps, 0, d.texts, g))
  BY <1>1, <1>3, <1>4, Settles
<1> QED BY <1>5, <1>6 DEF c

\* A run that ends.
LEMMA Ends ==
    ASSUME NEW d, DebounceInv(d), d.candidate = 1, NEW other \in BOOLEAN, other # d.tone
    PROVE  DebounceInv(RunOn(Hears(d, other), other, 2 * Window))
<1> DEFINE h == Settled(d)
           t == Turns(h)[Len(h)]
           g == Append(d.heard, other)
           u == Append(t, Len(h) + 1)
           marks == IF d.tone /\ d.elapsed >= Click THEN Append(d.marks, d.elapsed) ELSE d.marks
           gaps == IF ~d.tone /\ d.marks # <<>> /\ d.elapsed >= Click
                   THEN Append(d.gaps, d.elapsed) ELSE d.gaps
<1>1. /\ d.tone \in BOOLEAN /\ d.heard \in Seq(BOOLEAN) /\ ScanInv(d.tone, h)
      /\ d.marks = Lasting(t, 1) /\ d.gaps = Lasting(t, 2)
      /\ d.tone <=> Len(t) % 2 = 1
      /\ t # <<>> => d.elapsed = (Len(h) - t[Len(t)] + 1) * Window
  BY DEF DebounceInv, Agrees, Last
<1>2. h \in Seq(BOOLEAN) /\ d.heard = Append(h, other)
  <2>1. other = ~d.tone BY <1>1
  <2> QED BY <2>1, SettledFacts
<1> HIDE DEF h
<1>3. /\ ScanInv(other, g) /\ Turns(g)[Len(g)] = u /\ Len(g) = Len(h) + 2 /\ g \in Seq(BOOLEAN)
  <2>1. g = Append(Append(h, other), other) BY <1>2
  <2>2. ScanInv(other, g) /\ Turns(g)[Len(g)] = u BY <1>1, <1>2, <2>1, TurnsOver
  <2>3. Len(g) = Len(h) + 2 /\ g \in Seq(BOOLEAN) BY <1>2, <2>1
  <2> QED BY <2>2, <2>3
<1>4. t \in Seq(Nat) /\ \A i \in 1 .. Len(t) : t[i] <= Len(h)
  <2>1. Len(h) \in 0 .. Len(h) BY <1>2
  <2> QED BY <1>2, <2>1, TurnsFacts
<1>5. Len(h) \in Nat /\ Len(h) + 1 \in Nat BY <1>2
<1> HIDE DEF t, g
<1>6. ASSUME t # <<>>
      PROVE  d.elapsed >= Click /\ d.elapsed = ((Len(h) + 1) - t[Len(t)]) * Window
  <2>1. t[Len(t)] \in Nat /\ t[Len(t)] <= Len(h) BY <1>4, <1>6
  <2>2. d.elapsed = (Len(h) - t[Len(t)] + 1) * Window BY <1>1, <1>6
  <2> QED BY <1>5, <2>1, <2>2 DEF Window, Click
<1>7. marks = Lasting(u, 1) /\ gaps = Lasting(u, 2)
  <2> DEFINE lasted == ((Len(h) + 1) - t[Len(t)]) * Window
             odd == Len(t) % 2 = 1
             even == Len(t) % 2 = 0
  <2>1. /\ Lasting(u, 1) = IF odd THEN Append(Lasting(t, 1), lasted) ELSE Lasting(t, 1)
        /\ Lasting(u, 2) = IF even /\ t # <<>> THEN Append(Lasting(t, 2), lasted)
                           ELSE Lasting(t, 2)
        /\ (Lasting(t, 1) = <<>>) <=> Len(t) < 2
    BY <1>4, <1>5, LastingFacts
  <2>2. (odd => ~even /\ t # <<>>) /\ (~odd => even) /\ (~odd /\ t # <<>> => ~(Len(t) < 2))
    <3>1. odd => t # <<>>
      <4>1. t = <<>> => Len(t) = 0 OBVIOUS
      <4> QED BY <4>1
    <3>2. Len(t) \in Nat /\ (t # <<>> => Len(t) > 0) BY <1>4
    <3> QED BY <3>1, <3>2
  <2>3. t = <<>> => Len(t) < 2 OBVIOUS
  <2>4. d.tone <=> odd BY <1>1
  <2>5. t # <<>> => d.elapsed >= Click /\ d.elapsed = lasted BY <1>6
  <2> HIDE DEF lasted, odd, even, u
  <2>6. CASE odd BY <1>1, <2>1, <2>2, <2>4, <2>5, <2>6
  <2>7. CASE ~odd BY <1>1, <2>1, <2>2, <2>3, <2>4, <2>5, <2>7
  <2> QED BY <2>6, <2>7
<1>8. 2 * Window = (Len(g) - u[Len(u)] + 1) * Window
  <2>1. u[Len(u)] = Len(h) + 1 BY <1>4, <1>5
  <2> HIDE DEF u
  <2> QED BY <1>3, <1>5, <2>1 DEF Window
<1>9. RunOn(Hears(d, other), other, 2 * Window)
        = Debouncer(d.unit, other, 2 * Window, marks, gaps, 0, d.texts, g)
  <2>1. d = Parts(d) BY DEF DebounceInv, Parts, Debouncer
  <2>2. Hears(d, other)
          = Debouncer(d.unit, d.tone, d.elapsed, d.marks, d.gaps, d.candidate, d.texts, g)
    BY <2>1, HearsMore DEF g
  <2> QED BY <2>2, RunOnFields
<1> HIDE DEF u, marks, gaps
<1>10. DebounceInv(Debouncer(d.unit, other, 2 * Window, marks, gaps, 0, d.texts, g))
  BY <1>3, <1>7, <1>8, Settles
<1> QED BY <1>9, <1>10

\* A window that may begin a run.
LEMMA Doubts ==
    ASSUME NEW d, DebounceInv(d), d.candidate = 0, NEW other \in BOOLEAN, other # d.tone
    PROVE  DebounceInv([Hears(d, other) EXCEPT !.candidate = 1])
<1> DEFINE g == Append(d.heard, other)
           r == Debouncer(d.unit, d.tone, d.elapsed, d.marks, d.gaps, 1, d.texts, g)
           h == Settled(d)
<1>1. d.tone \in BOOLEAN /\ d.heard \in Seq(BOOLEAN) BY DEF DebounceInv
<1>2. [Hears(d, other) EXCEPT !.candidate = 1] = r
  <2>1. d = Parts(d) BY DEF DebounceInv, Parts, Debouncer
  <2>2. Hears(d, other)
          = Debouncer(d.unit, d.tone, d.elapsed, d.marks, d.gaps, d.candidate, d.texts, g)
    BY <2>1, HearsMore
  <2> HIDE DEF g
  <2> QED BY <2>2 DEF Debouncer
<1>3. /\ r.unit = d.unit /\ r.tone = d.tone /\ r.elapsed = d.elapsed /\ r.marks = d.marks
      /\ r.gaps = d.gaps /\ r.candidate = 1 /\ r.texts = d.texts /\ r.heard = g
      /\ r = [unit |-> r.unit, tone |-> r.tone, elapsed |-> r.elapsed, marks |-> r.marks,
              gaps |-> r.gaps, candidate |-> r.candidate, texts |-> r.texts, heard |-> r.heard]
  BY DEF Debouncer
<1> HIDE DEF r
<1>4. /\ g \in Seq(BOOLEAN) /\ Len(g) = Len(d.heard) + 1 /\ Len(d.heard) \in Nat
      /\ g[Len(d.heard) + 1] = other /\ \A i \in 1 .. Len(d.heard) : g[i] = d.heard[i]
  BY <1>1, AppendProperties
<1>5. Settled(r) = d.heard
  <2> HIDE DEF g
  <2> DEFINE n == Len(d.heard)
             s == Settled(r)
  <2>1. n \in Nat /\ \A i \in 1 .. n : g[i] \in BOOLEAN /\ g[i] = d.heard[i] BY <1>1, <1>4
  <2>2. s = SubSeq(g, 1, n)
    <3>1. Len(g) - 1 = n BY <1>4
    <3> QED BY <1>3, <3>1 DEF Settled
  <2> HIDE DEF n, s
  <2>3. /\ s \in Seq(BOOLEAN) /\ Len(s) = IF 1 <= n THEN n - 1 + 1 ELSE 0
        /\ \A i \in 1 .. n - 1 + 1 : s[i] = g[1 + i - 1]
    BY <2>1, <2>2, SubSeqProperties
  <2>4. Len(s) = n /\ \A i \in 1 .. n : s[i] = d.heard[i] BY <2>1, <2>3
  <2>5. s = d.heard BY <1>1, <2>3, <2>4, SeqEqual DEF n
  <2> QED BY <2>5 DEF s
<1>6. Settled(d) = d.heard BY SettledFacts
<1>7. ScanInv(r.tone, Settled(r)) /\ Agrees(r, Settled(r), Turns(Settled(r))[Len(Settled(r))])
  <2>1. ScanInv(d.tone, h) /\ Agrees(d, h, Turns(h)[Len(h)]) BY DEF DebounceInv
  <2> QED BY <1>3, <1>5, <1>6, <2>1 DEF Agrees
<1>8. Len(r.heard) > 0 /\ r.heard[Len(r.heard)] = ~r.tone
  <2>1. other = ~d.tone BY <1>1
  <2> HIDE DEF g
  <2>2. Len(g) > 0 /\ g[Len(g)] = other BY <1>4
  <2> QED BY <1>3, <2>1, <2>2
<1>9. r.tone \in BOOLEAN /\ r.heard \in Seq(BOOLEAN) /\ r.candidate \in {0, 1}
  BY <1>1, <1>3, <1>4
<1>10. DebounceInv(r) BY <1>3, <1>7, <1>8, <1>9 DEF DebounceInv
<1> QED BY <1>2, <1>10

\* The windows of a block are fed one after the other.
LEMMA FeedWindowsFacts ==
    ASSUME NEW raw \in Seq(BOOLEAN), NEW active
    PROVE  \E f : /\ f[0] = [morse EXCEPT !.texts = <<>>]
                  /\ \A i \in 1 .. Len(raw) : f[i] = FeedToneWindow(f[i - 1], raw[i], active)
                  /\ FeedWindows(raw, active) = f[Len(raw)]
<1> DEFINE n == Len(raw)
           start == [morse EXCEPT !.texts = <<>>]
           Body(g, i) == IF i = 0 THEN start
                         ELSE With(g[i - 1], LAMBDA d : FeedToneWindow(d, raw[i], active))
           Next1(g, i) == IF i = 0 THEN start ELSE FeedToneWindow(g[i - 1], raw[i], active)
           F(g, k) == \A i \in 0 .. k : g[i] = Next1(g, i)
           T == {k \in Nat : \E g : F(g, k)}
<1>1. n \in Nat OBVIOUS
<1>2. \A g, i : Body(g, i) = Next1(g, i)
  BY DEF With
<1>3. \E g : F(g, n)
  <2>1. 0 \in T
    <3> DEFINE g == [i \in {0} |-> start]
    <3>1. F(g, 0) OBVIOUS
    <3> HIDE DEF F
    <3> QED BY <3>1
  <2>2. ASSUME NEW k \in Nat, k \in T PROVE k + 1 \in T
    <3>1. PICK g : F(g, k) BY <2>2
    <3> DEFINE h == [i \in 0 .. k + 1 |-> IF i = k + 1 THEN Next1(g, k + 1) ELSE g[i]]
    <3>2. ASSUME NEW i \in 0 .. k + 1 PROVE h[i] = Next1(h, i)
      <4>1. CASE i = 0 BY <3>1, <4>1
      <4>2. CASE i \in 1 .. k
        <5>1. h[i] = g[i] /\ h[i - 1] = g[i - 1] BY <4>2
        <5>2. g[i] = Next1(g, i) BY <3>1, <4>2
        <5> QED BY <5>1, <5>2, <4>2
      <4>3. CASE i = k + 1
        <5>1. h[i] = Next1(g, i) /\ h[i - 1] = g[i - 1] BY <4>3
        <5> QED BY <5>1, <4>3
      <4> QED BY <4>1, <4>2, <4>3
    <3>3. F(h, k + 1) BY <3>2
    <3> HIDE DEF F, h
    <3> QED BY <3>3
  <2> HIDE DEF T, n
  <2>3. \A k \in Nat : k < n /\ k \in T => k + 1 \in T BY <2>2
  <2>4. \A k \in 0 .. n : k \in T BY <1>1, <2>1, <2>3, Induction
  <2>5. n \in T BY <1>1, <2>4
  <2> QED BY <2>5 DEF T
<1>4. \E f : f = [i \in 0 .. n |-> Body(f, i)]
  <2>1. PICK g : F(g, n) BY <1>3
  <2> DEFINE h == [i \in 0 .. n |-> g[i]]
  <2>2. ASSUME NEW i \in 0 .. n PROVE h[i] = Body(h, i)
    <3>1. h[i] = g[i] /\ (i # 0 => h[i - 1] = g[i - 1]) BY <1>1
    <3>2. g[i] = Next1(g, i) BY <2>1
    <3>3. h[i] = Next1(h, i) BY <3>1, <3>2
    <3> QED BY <3>3, <1>2
  <2> HIDE DEF Body
  <2>3. h = [i \in 0 .. n |-> Body(h, i)] BY <2>2
  <2> QED BY <2>3
<1>5. \E f : f = [i \in 0 .. n |-> Body(f, i)] /\ FeedWindows(raw, active) = f[n]
  <2> DEFINE f[i \in 0 .. n] == Body(f, i)
  <2> HIDE DEF Body
  <2>1. f = [i \in 0 .. n |-> Body(f, i)] BY <1>4
  <2>2. FeedWindows(raw, active) = f[n] BY DEF FeedWindows, Body
  <2> QED BY <2>1, <2>2
<1> HIDE DEF Body, Next1
<1>6. PICK f : f = [i \in 0 .. n |-> Body(f, i)] /\ FeedWindows(raw, active) = f[n] BY <1>5
<1>7. \A i \in 0 .. n : f[i] = Next1(f, i) BY <1>2, <1>6
<1>8. f[0] = [morse EXCEPT !.texts = <<>>] BY <1>1, <1>7 DEF Next1
<1>9. ASSUME NEW i \in 1 .. n PROVE f[i] = FeedToneWindow(f[i - 1], raw[i], active)
  BY <1>1, <1>7 DEF Next1
<1> QED BY <1>6, <1>8, <1>9

\* An attempt takes all that was heard with it.
LEMMA Finishes ==
    ASSUME NEW d, d = Parts(d), d.tone = FALSE, d.candidate = 0
    PROVE  DebounceInv(FinishMessage(d))
<1> DEFINE attempt == Attempt(d.unit, d.marks, d.gaps)
           texts == IF attempt.accepted THEN Append(d.texts, attempt.text) ELSE d.texts
           unit == IF attempt.accepted THEN attempt.unit ELSE d.unit
           r == [d EXCEPT !.marks = <<>>, !.gaps = <<>>, !.heard = <<>>,
                          !.texts = texts, !.unit = unit]
           q == Debouncer(unit, FALSE, d.elapsed, <<>>, <<>>, 0, texts, <<>>)
           names == {"unit", "tone", "elapsed", "marks", "gaps", "candidate", "texts", "heard"}
<1>1. FinishMessage(d) = r
  <2> HIDE DEF attempt
  <2> QED BY DEF FinishMessage, With, attempt
<1>2. DOMAIN d = names
  <2>1. DOMAIN Parts(d) = names BY DEF Parts, Debouncer
  <2> QED BY <2>1
<1> HIDE DEF texts, unit
<1>3. /\ DOMAIN r = names /\ r.unit = unit /\ r.tone = FALSE /\ r.elapsed = d.elapsed
      /\ r.marks = <<>> /\ r.gaps = <<>> /\ r.candidate = 0 /\ r.texts = texts /\ r.heard = <<>>
      /\ r = [x \in names |-> r[x]]
  BY <1>2
<1>4. /\ q.unit = unit /\ q.tone = FALSE /\ q.elapsed = d.elapsed /\ q.marks = <<>>
      /\ q.gaps = <<>> /\ q.candidate = 0 /\ q.texts = texts /\ q.heard = <<>>
      /\ q = [x \in names |-> q[x]]
  BY DEF Debouncer
<1>5. DebounceInv(q) BY Empties
<1> HIDE DEF q, r
<1>6. \A x \in names : r[x] = q[x] BY <1>3, <1>4
<1>7. r = q BY <1>3, <1>4, <1>6
<1> QED BY <1>1, <1>5, <1>7

\* What one window does to the debouncer.
LEMMA WindowStep ==
    ASSUME NEW d, DebounceInv(d), NEW raw \in BOOLEAN, NEW active
    PROVE  DebounceInv(FeedToneWindow(d, raw, active))
<1> DEFINE e == Hears(d, raw)
           count == d.candidate + 1
           run == RunOn(e, raw, count * Window)
<1>1. /\ d = Parts(d) /\ d.candidate \in {0, 1} /\ d.tone \in BOOLEAN
  BY DEF DebounceInv, Parts, Debouncer
<1>2. e = Debouncer(d.unit, d.tone, d.elapsed, d.marks, d.gaps, d.candidate, d.texts,
                    Append(d.heard, raw))
  BY <1>1, HearsMore
<1>3. e.tone = d.tone /\ e.candidate = d.candidate BY <1>2 DEF Debouncer
<1>4. FeedToneWindow(d, raw, active)
        = IF raw = d.tone \/ count >= RequiredWindows THEN Feed(e, raw, count * Window, active)
          ELSE [e EXCEPT !.candidate = count]
  <2>1. FeedToneWindow(d, raw, active)
          = IF raw = e.tone \/ e.candidate + 1 >= RequiredWindows
            THEN Feed(e, raw, (e.candidate + 1) * Window, active)
            ELSE [e EXCEPT !.candidate = e.candidate + 1]
    BY DEF FeedToneWindow, Hears
  <2> HIDE DEF e
  <2> QED BY <1>3, <2>1
<1>5. CASE raw = d.tone \/ d.candidate = 1
  <2>1. DebounceInv(run)
    <3>1. CASE raw = d.tone
      <4>1. DebounceInv(RunOn(Hears(d, d.tone), d.tone, (d.candidate + 1) * Window)) BY GoesOn
      <4> QED BY <3>1, <4>1
    <3>2. CASE raw # d.tone
      <4>1. d.candidate = 1 /\ count = 2 BY <1>5, <3>2
      <4>2. DebounceInv(RunOn(Hears(d, raw), raw, 2 * Window)) BY <3>2, <4>1, Ends
      <4> HIDE DEF count
      <4> QED BY <4>1, <4>2
    <3> QED BY <3>1, <3>2
  <2>2. run.tone = raw /\ run.candidate = 0 /\ run = Parts(run)
    <3>1. run = Parts(run) BY <2>1 DEF DebounceInv, Parts, Debouncer
    <3>2. run.tone = raw /\ run.candidate = 0
      <4>1. "tone" \in DOMAIN e /\ "candidate" \in DOMAIN e BY <1>2 DEF Debouncer
      <4> HIDE DEF e, count
      <4> QED BY <4>1 DEF RunOn
    <3> QED BY <3>1, <3>2
  <2>3. FeedToneWindow(d, raw, active) = Feed(e, raw, count * Window, active)
    <3>1. raw = d.tone \/ count >= RequiredWindows BY <1>5 DEF RequiredWindows
    <3> HIDE DEF e, count
    <3> QED BY <1>4, <3>1
  <2>4. \/ Feed(e, raw, count * Window, active) = run
        \/ raw = FALSE /\ Feed(e, raw, count * Window, active) = FinishMessage(run)
    <3> HIDE DEF e, count
    <3> QED BY DEF Feed
  <2> HIDE DEF run, e, count
  <2>5. raw = FALSE => DebounceInv(FinishMessage(run)) BY <2>2, Finishes
  <2> QED BY <2>1, <2>3, <2>4, <2>5
<1>6. CASE raw # d.tone /\ d.candidate = 0
  <2>1. count = 1 /\ ~(count >= RequiredWindows) BY <1>6 DEF RequiredWindows
  <2>2. DebounceInv([Hears(d, raw) EXCEPT !.candidate = 1]) BY <1>6, Doubts
  <2> HIDE DEF count
  <2> QED BY <1>4, <1>6, <2>1, <2>2
<1> QED BY <1>1, <1>5, <1>6

\* What a block does to it.
LEMMA BlockStep ==
    ASSUME DebounceInv(morse), NEW raw \in Seq(BOOLEAN), NEW active
    PROVE  DebounceInv(FeedWindows(raw, active))
<1> DEFINE n == Len(raw)
<1>1. PICK f : /\ f[0] = [morse EXCEPT !.texts = <<>>]
               /\ \A i \in 1 .. Len(raw) : f[i] = FeedToneWindow(f[i - 1], raw[i], active)
               /\ FeedWindows(raw, active) = f[Len(raw)]
  BY FeedWindowsFacts
<1>2. n \in Nat /\ \A i \in 1 .. n : raw[i] \in BOOLEAN OBVIOUS
<1> DEFINE T == {k \in Nat : k <= n => DebounceInv(f[k])}
<1>3. 0 \in T
  <2>1. DebounceInv(f[0])
    <3> DEFINE d == morse
               r == Debouncer(d.unit, d.tone, d.elapsed, d.marks, d.gaps, d.candidate, <<>>,
                              d.heard)
    <3>1. d = Parts(d) BY DEF DebounceInv, Parts, Debouncer
    <3>2. [d EXCEPT !.texts = <<>>] = r BY <3>1 DEF Parts, Debouncer
    <3>3. /\ r.unit = d.unit /\ r.tone = d.tone /\ r.elapsed = d.elapsed /\ r.marks = d.marks
          /\ r.gaps = d.gaps /\ r.candidate = d.candidate /\ r.heard = d.heard
          /\ r = [unit |-> r.unit, tone |-> r.tone, elapsed |-> r.elapsed, marks |-> r.marks,
                  gaps |-> r.gaps, candidate |-> r.candidate, texts |-> r.texts,
                  heard |-> r.heard]
      BY DEF Debouncer
    <3> HIDE DEF r
    <3>4. Settled(r) = Settled(d) BY <3>3 DEF Settled
    <3>5. \A h, t : Agrees(d, h, t) => Agrees(r, h, t) BY <3>3 DEF Agrees
    <3>6. DebounceInv(r) BY <3>3, <3>4, <3>5 DEF DebounceInv
    <3> QED BY <1>1, <3>2, <3>6
  <2> QED BY <2>1
<1>4. ASSUME NEW k \in Nat, k < n, k \in T PROVE k + 1 \in T
  <2>1. k + 1 \in 1 .. n /\ (k + 1) - 1 = k /\ k <= n BY <1>2, <1>4
  <2>2. DebounceInv(f[k]) /\ raw[k + 1] \in BOOLEAN BY <1>2, <1>4, <2>1
  <2>3. DebounceInv(FeedToneWindow(f[k], raw[k + 1], active)) BY <2>2, WindowStep
  <2>4. f[k + 1] = FeedToneWindow(f[k], raw[k + 1], active) BY <1>1, <2>1
  <2> QED BY <2>3, <2>4
<1>5. \A k \in 0 .. n : k \in T
  <2> HIDE DEF T, n
  <2> QED BY <1>2, <1>3, <1>4, Induction
<1>6. n \in T BY <1>2, <1>5
<1> QED BY <1>1, <1>2, <1>6

\* A reset debouncer has heard nothing.
LEMMA FreshDebounced == DebounceInv(Fresh)
<1>1. Fresh = Debouncer(Unit.initial, FALSE, 0, <<>>, <<>>, 0, <<>>, <<>>)
  BY DEF Fresh, Debouncer
<1> QED BY <1>1, Empties

\* The windows of a block are a sequence.
LEMMA WindowsOfBlock ==
    ASSUME NEW n \in Nat, NEW keyed, NEW wrong
    PROVE  [i \in 1 .. n |-> keyed[i] # (i \in wrong)] \in Seq(BOOLEAN)
OBVIOUS

\* The inductive invariant of the decoder.
MorseInv == ClockInv /\ DebounceInv(morse)

\* A retune resets the debouncer; a block feeds it window by window.
LEMMA MorseStep == ASSUME MorseInv, [MorseNext]_morseVars PROVE MorseInv'
<1>1. ClockInv' BY ClockStep DEF MorseInv
<1>2. CASE Retune
  <2>1. morse' = Fresh BY <1>2 DEF Retune
  <2>2. DebounceInv(morse') BY <2>1, FreshDebounced
  <2> QED BY <1>1, <2>2 DEF MorseInv
<1>3. ASSUME NEW strong \in BOOLEAN, FeedIq(strong) PROVE MorseInv'
  <2> DEFINE n == Buffered \div WindowSamples
             keyed == [i \in 1 .. n |-> i \in DOMAIN script /\ script[i]]
             raw(wrong) == [i \in 1 .. n |-> keyed[i] # (i \in wrong)]
  <2>1. n \in Nat BY BlockFacts DEF MorseInv
  <2>2. \E wrong : morse' = FeedWindows(raw(wrong), carrier')
    BY <1>3 DEF FeedIq
  <2>3. PICK wrong : morse' = FeedWindows(raw(wrong), carrier') BY <2>2
  <2>4. raw(wrong) \in Seq(BOOLEAN)
    <3> HIDE DEF n, keyed
    <3> QED BY <2>1, WindowsOfBlock
  <2> HIDE DEF raw
  <2>5. \A active : DebounceInv(FeedWindows(raw(wrong), active)) BY <2>4, BlockStep DEF MorseInv
  <2>6. DebounceInv(morse') BY <2>3, <2>5
  <2> QED BY <1>1, <2>6 DEF MorseInv
<1>4. CASE UNCHANGED morseVars
  <2>1. morse' = morse BY <1>4 DEF morseVars
  <2> QED BY <1>1, <2>1 DEF MorseInv
<1> QED BY <1>2, <1>3, <1>4 DEF MorseNext

\* The clock and the debouncer keep their invariants through any texts, timings,
\* noise, blocks and retunes.
THEOREM MorseInvAlways == MorseSpec => []MorseInv
<1>1. MorseInit => MorseInv
  <2>1. MorseInit => morse = Fresh BY DEF MorseInit
  <2> QED BY <2>1, ClockInit, FreshDebounced DEF MorseInv
<1> QED BY <1>1, MorseStep, PTL DEF MorseSpec

\* For any signal, with clicks and fades of any length in it: the marks and gaps of
\* the debouncer are the lengths of the turns of the windows it was given, a window
\* that only interrupts a run included in the run (MorseDecoder._feed_tone).
THEOREM RunsAreSignal == MorseSpec => []RunsMatchSignal
<1>1. MorseInv => RunsMatchSignal BY DEF MorseInv, DebounceInv, RunsMatchSignal
<1> QED BY <1>1, MorseInvAlways, PTL

\* Before anything is sent the decoder is fresh.
LEMMA FreshInit == MorseInit => FreshInv
BY MorseAssumption DEF MorseInit, FreshInv

\* A retune clears the script with what was sent.
LEMMA FreshStep == ASSUME FreshInv, [MorseNext]_morseVars PROVE FreshInv'
<1>1. CASE Retune BY <1>1 DEF Retune, FreshInv
<1>2. ASSUME NEW strong \in BOOLEAN, FeedIq(strong) PROVE FreshInv'
  <2>1. sent' = sent BY <1>2 DEF FeedIq
  <2>2. sent # <<>>
    <3>1. ASSUME sent = <<>> PROVE FALSE
      <4>1. script = <<>> /\ morse = Fresh BY <3>1 DEF FreshInv
      <4>2. ~Busy BY <4>1 DEF Busy, Fresh
      <4> QED BY <1>2, <4>2 DEF FeedIq
    <3> QED BY <3>1
  <2> QED BY <2>1, <2>2 DEF FreshInv
<1>3. CASE UNCHANGED morseVars BY <1>3 DEF morseVars, sender, FreshInv
<1> QED BY <1>1, <1>2, <1>3 DEF MorseNext

\* On a frequency where nothing was sent yet, nothing is published: no mark, gap or
\* text of the frequency before is carried over the retune (MorseDecoder.reset).
THEOREM StartsFresh == MorseSpec => FreshStart
<1>1. FreshInv /\ [MorseNext]_morseVars => [sent = <<>> => published' = published]_morseVars
  <2> SUFFICES ASSUME FreshInv, [MorseNext]_morseVars, sent = <<>>
               PROVE  published' = published
    OBVIOUS
  <2>1. CASE Retune BY <2>1 DEF Retune
  <2>2. ASSUME NEW strong \in BOOLEAN, FeedIq(strong) PROVE FALSE
    <3>1. script = <<>> /\ morse = Fresh BY DEF FreshInv
    <3>2. ~Busy BY <3>1 DEF Busy, Fresh
    <3> QED BY <2>2, <3>2 DEF FeedIq
  <2>3. CASE UNCHANGED morseVars BY <2>3 DEF morseVars
  <2> QED BY <2>1, <2>2, <2>3 DEF MorseNext
<1> QED BY <1>1, FreshInit, FreshStep, PTL DEF MorseSpec, FreshStart

=============================================================================
