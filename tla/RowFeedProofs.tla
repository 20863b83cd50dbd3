---------------------------- MODULE RowFeedProofs ----------------------------
(***************************************************************************)
(* For frames of any number of words, any frequencies and messages, and    *)
(* histories of any length below one lap of the row sequence: a Display    *)
(* with nothing new to read shows exactly the frame committed last, until  *)
(* the adapter is replaced; and, also after it is, the messages in the     *)
(* Display's history are ones the CM0 decoded, and all of those arrive of  *)
(* which no chunk was lost.                                                *)
(***************************************************************************)
EXTENDS RowFeed, SequenceTheorems, OperatorLemmas, TLAPS

Kinds == {"tuning", "row", "live", "replay", "none"}
Frames == [kind : Kinds, id : Nat, what : Freqs \cup Messages \cup {"none"}, index : Nat]
MessageFrames == {c \in Frames : IsChunk(c)}
Sets == [signal : 0 .. Words + 2, frame : Frames]

\* Batch b leaves value v in signal g: its last set of g is to v, or it has
\* none and v is there already.
SetsLast(b, g, v) ==
    \E k \in DOMAIN b : /\ b[k].signal = g /\ b[k].frame = v
                        /\ \A j \in DOMAIN b : j > k => b[j].signal # g
Leaves(b, g, v) ==
    SetsLast(b, g, v) \/ (wr[g] = v /\ \A k \in DOMAIN b : b[k].signal # g)

TypeInv ==
    /\ cRow \in Nat /\ frames \in 0 .. MaxFrames
    /\ cQueue \in Seq(MessageFrames) /\ cBatch \in Seq(Sets)
    /\ cPublished \in Freqs \cup {"none"} /\ cEntry \in Freqs
    /\ wr \in [Signals -> Frames] /\ wrSeq \in Nat /\ sent \in Frames
    /\ dSeq \in Nat /\ dRead \in Seq(Nat \cup Frames) /\ Len(dRead) <= Words + 2

\* Nothing is being published: Main holds the frame sent last, and the tuning
\* the adapter remembers.
StillInv ==
    cBatch = <<>> =>
        /\ sent.id = frames
        /\ sent.id # 0 => wr = Whole(sent)
        /\ cPublished # "none" => /\ wr[FreqSignal] = Tuning(cPublished)
                                  /\ wr[SpanSignal] = Tuning(cPublished)

\* A frame is being published: the sets to come complete it, its commit last.
Coming == cBatch[Len(cBatch)]
BatchInv ==
    cBatch # <<>> =>
        /\ sent.id < frames /\ Coming.frame.id = frames /\ Coming.signal = Commit
        /\ \A k \in 1 .. Len(cBatch) - 1 : cBatch[k].signal # Commit
        /\ \A g \in Signals : Leaves(cBatch, g, ValueOf(Coming.frame, g))
        /\ cPublished # "none" => /\ ~IsChunk(Coming.frame)
                                  /\ Coming.frame.what = cPublished

\* A read begun under the current sequence has only values that are there.
ReadInv ==
    dRead # <<>> =>
        /\ dRead[1] \in Nat /\ dRead[1] <= wrSeq
        /\ dRead[1] = wrSeq /\ cBatch = <<>> =>
                \A k \in 2 .. Len(dRead) : dRead[k] = wr[k - 1]

ShownInv ==
    /\ dSeq <= wrSeq
    /\ dSeq = wrSeq /\ cBatch = <<>> /\ sent.id # 0 => shown = Whole(sent)

SequenceInv == cUp /\ cRow = frames /\ wrSeq = sent.id

FeedInv == TypeInv /\ SequenceInv /\ StillInv /\ BatchInv /\ ReadInv /\ ShownInv
IInv == "restarted" \notin marks => FeedInv

-----------------------------------------------------------------------------

\* What the assumption says of the constants.
LEMMA Sizes ==
    /\ Words \in Nat /\ Words > 0 /\ MaxFrames \in Nat /\ RowMod \in Nat /\ MaxFrames < RowMod
    /\ "none" \notin Freqs
    /\ Signals = 1 .. Words + 2 /\ FreqSignal = 1 /\ SpanSignal = 2
    /\ \A m \in Messages : Length[m.text] \in Nat /\ m \in [freq : Freqs, text : Texts]
<1>1. /\ Words \in Nat /\ Words > 0 /\ MaxFrames \in Nat /\ RowMod \in Nat /\ MaxFrames < RowMod
      /\ "none" \notin Freqs
      BY FeedAssumption
<1>2. Signals = 1 .. Words + 2
      BY <1>1 DEF Signals, FreqSignal, SpanSignal, RowSignals
<1>3. \A m \in Messages : Length[m.text] \in Nat /\ m \in [freq : Freqs, text : Texts]
      BY FeedAssumption
<1> QED BY <1>1, <1>2, <1>3 DEF FreqSignal, SpanSignal

\* The frames of a row and of a message's chunks.
LEMMA FrameTypes ==
    /\ \A f \in Freqs : Tuning(f) \in Frames
    /\ \A f \in Freqs, n \in Nat : Row(f, n) \in Frames /\ ~IsChunk(Row(f, n))
    /\ \A c \in MessageFrames, n \in Nat :
            Chunk(c.kind, c.what, c.index, n) \in MessageFrames
    /\ Nothing \in Frames
BY DEF Tuning, Row, Chunk, Nothing, Frames, Kinds, MessageFrames, IsChunk

\* A message waits as chunks, whichever way it is announced.
LEMMA QueueType == ASSUME NEW m \in Messages PROVE QueueAfterShow(m) \in Seq(MessageFrames)
<1>1. Length[m.text] \in Nat
      BY Sizes
<1>2. \A i \in 1 .. Length[m.text] : Chunk("live", m, i - 1, 0) \in MessageFrames
      BY <1>1 DEF Chunk, MessageFrames, Frames, Kinds, IsChunk
<1> QED BY <1>1, <1>2 DEF QueueAfterShow, Chunks

\* Initially the adapter has published its tuning and no frame.
LEMMA InitInv == Init => IInv
<1> SUFFICES ASSUME Init PROVE FeedInv
    BY DEF IInv
<1>1. TypeInv
  <2>1. wr \in [Signals -> Frames]
        BY FrameTypes DEF Init
  <2>2. <<>> \in Seq(MessageFrames) /\ <<>> \in Seq(Sets) /\ <<>> \in Seq(Nat \cup Frames)
        OBVIOUS
  <2> QED BY <2>1, <2>2, FrameTypes, Sizes DEF Init, TypeInv
<1>2. SequenceInv /\ BatchInv /\ ReadInv /\ ShownInv
      BY DEF Init, SequenceInv, BatchInv, ReadInv, ShownInv, Nothing
<1>3. StillInv
      BY Sizes DEF Init, StillInv, Nothing, RowSignals
<1> QED BY <1>1, <1>2, <1>3 DEF FeedInv

-----------------------------------------------------------------------------
(* Publishing a frame *)

\* The sets of t, those of r, and the commit of the frame.
Joined(t, r, frame) == Committing(t \o r, frame)

\* Where each of them is.
LEMMA BatchFacts ==
    ASSUME NEW t \in Seq(Sets), NEW r \in Seq(Sets), NEW frame \in Frames
    PROVE  LET b == Joined(t, r, frame)
           IN  /\ b \in Seq(Sets) /\ b # <<>> /\ Len(b) = Len(t) + Len(r) + 1
               /\ \A k \in 1 .. Len(t) : b[k] = t[k]
               /\ \A k \in 1 .. Len(r) : b[Len(t) + k] = r[k]
               /\ b[Len(b)] = [signal |-> Commit, frame |-> frame]
<1> DEFINE c == [signal |-> Commit, frame |-> frame]
           b == Append(t \o r, c)
<1>1. c \in Sets
      BY Sizes DEF Sets, Commit
<1>2. /\ t \o r \in Seq(Sets) /\ Len(t \o r) = Len(t) + Len(r)
      /\ \A k \in 1 .. Len(t) : (t \o r)[k] = t[k]
      /\ \A k \in 1 .. Len(r) : (t \o r)[Len(t) + k] = r[k]
      OBVIOUS
<1> HIDE DEF c
<1>3. /\ b \in Seq(Sets) /\ Len(b) = Len(t \o r) + 1
      /\ \A k \in 1 .. Len(t \o r) : b[k] = (t \o r)[k]
      /\ b[Len(t \o r) + 1] = c
      BY <1>1, <1>2, AppendProperties
<1>4. Len(t) \in Nat /\ Len(r) \in Nat
      OBVIOUS
<1> HIDE DEF b
<1>5. b # <<>> /\ Len(b) = Len(t) + Len(r) + 1
      BY <1>2, <1>3, <1>4
<1>6. \A k \in 1 .. Len(t) : b[k] = t[k]
      BY <1>2, <1>3, <1>4
<1>7. ASSUME NEW k \in 1 .. Len(r) PROVE b[Len(t) + k] = r[k]
  <2>1. Len(t) + k \in 1 .. Len(t \o r)
        BY <1>2, <1>4
  <2> QED BY <1>2, <1>3, <2>1
<1>8. b[Len(b)] = c
      BY <1>2, <1>3
<1> QED BY <1>3, <1>5, <1>6, <1>7, <1>8 DEF b, c, Committing, Joined

\* The sets of a tuning, of a row and of a chunk, in their order.
LEMMA SetOrders ==
    /\ \A f \in Freqs : /\ SetTuning(f) \in Seq(Sets) /\ Len(SetTuning(f)) = 2
                        /\ \A k \in 1 .. 2 :
                              SetTuning(f)[k] = [signal |-> k, frame |-> Tuning(f)]
    /\ \A frame \in Frames :
        /\ SetAll(RowOrder, frame) \in Seq(Sets) /\ Len(SetAll(RowOrder, frame)) = Words
        /\ \A k \in 1 .. Words :
              SetAll(RowOrder, frame)[k] = [signal |-> k + 2, frame |-> frame]
    /\ \A frame \in Frames :
        LET r == SetAll(<<FreqSignal, SpanSignal>> \o RowOrder, frame)
        IN  /\ r \in Seq(Sets) /\ Len(r) = Words + 2
            /\ \A k \in 1 .. Words + 2 : r[k] = [signal |-> k, frame |-> frame]
<1>1. ASSUME NEW order \in Seq(0 .. Words + 2), NEW frame \in Frames
      PROVE  /\ SetAll(order, frame) \in Seq(Sets) /\ Len(SetAll(order, frame)) = Len(order)
             /\ \A k \in 1 .. Len(order) :
                    SetAll(order, frame)[k] = [signal |-> order[k], frame |-> frame]
  <2>1. \A k \in 1 .. Len(order) : [signal |-> order[k], frame |-> frame] \in Sets
        BY Sizes DEF Sets
  <2>2. DOMAIN order = 1 .. Len(order) /\ Len(order) \in Nat
        OBVIOUS
  <2> QED BY <2>1, <2>2 DEF SetAll
<1>2. /\ RowOrder \in Seq(0 .. Words + 2) /\ Len(RowOrder) = Words
      /\ \A k \in 1 .. Words : RowOrder[k] = k + 2
      BY Sizes DEF RowOrder
<1> DEFINE both == <<FreqSignal, SpanSignal>>
<1>3. both \in Seq(0 .. Words + 2) /\ Len(both) = 2 /\ \A k \in 1 .. 2 : both[k] = k
      BY Sizes
<1> HIDE DEF both
<1>4. /\ both \o RowOrder \in Seq(0 .. Words + 2) /\ Len(both \o RowOrder) = Words + 2
      /\ \A k \in 1 .. Words + 2 : (both \o RowOrder)[k] = k
  <2>1. /\ both \o RowOrder \in Seq(0 .. Words + 2)
        /\ Len(both \o RowOrder) = Len(both) + Len(RowOrder)
        /\ \A k \in 1 .. Len(both) + Len(RowOrder) : (both \o RowOrder)[k] =
                IF k <= Len(both) THEN both[k] ELSE RowOrder[k - Len(both)]
        BY <1>2, <1>3, ConcatProperties
  <2>2. Len(both) + Len(RowOrder) = Words + 2
        BY <1>2, <1>3, Sizes
  <2>3. ASSUME NEW k \in 1 .. Words + 2 PROVE (both \o RowOrder)[k] = k
    <3>1. CASE k <= 2
          BY <1>3, <2>1, <2>2, <3>1, Sizes
    <3>2. CASE k > 2
      <4>1. k - 2 \in 1 .. Words /\ (k - 2) + 2 = k
            BY <3>2, Sizes
      <4>2. RowOrder[k - 2] = (k - 2) + 2
            BY <1>2, <4>1
      <4>3. (both \o RowOrder)[k] = RowOrder[k - 2]
            BY ONLY <1>3, <2>1, <2>2, <3>2, k \in 1 .. Words + 2, Sizes
      <4> QED BY <4>1, <4>2, <4>3
    <3>3. k <= 2 \/ k > 2
          BY Sizes
    <3> QED BY <3>1, <3>2, <3>3
  <2> QED BY <2>1, <2>2, <2>3
<1>6. ASSUME NEW f \in Freqs
      PROVE  /\ SetTuning(f) \in Seq(Sets) /\ Len(SetTuning(f)) = 2
             /\ \A k \in 1 .. 2 : SetTuning(f)[k] = [signal |-> k, frame |-> Tuning(f)]
  <2>1. Tuning(f) \in Frames /\ SetTuning(f) = SetAll(both, Tuning(f))
        BY FrameTypes DEF SetTuning, both
  <2>2. /\ SetAll(both, Tuning(f)) \in Seq(Sets) /\ Len(SetAll(both, Tuning(f))) = Len(both)
        /\ \A k \in 1 .. Len(both) :
              SetAll(both, Tuning(f))[k] = [signal |-> both[k], frame |-> Tuning(f)]
        BY <1>1, <1>3, <2>1
  <2> QED BY <1>3, <2>1, <2>2
<1>7. \A frame \in Frames :
        /\ SetAll(RowOrder, frame) \in Seq(Sets) /\ Len(SetAll(RowOrder, frame)) = Words
        /\ \A k \in 1 .. Words :
              SetAll(RowOrder, frame)[k] = [signal |-> k + 2, frame |-> frame]
      BY <1>1, <1>2
<1>8. \A frame \in Frames :
        LET r == SetAll(<<FreqSignal, SpanSignal>> \o RowOrder, frame)
        IN  /\ r \in Seq(Sets) /\ Len(r) = Words + 2
            /\ \A k \in 1 .. Words + 2 : r[k] = [signal |-> k, frame |-> frame]
  <2> SUFFICES ASSUME NEW frame \in Frames
               PROVE  LET r == SetAll(both \o RowOrder, frame)
                      IN  /\ r \in Seq(Sets) /\ Len(r) = Words + 2
                          /\ \A k \in 1 .. Words + 2 : r[k] = [signal |-> k, frame |-> frame]
      BY DEF both
  <2> DEFINE o == both \o RowOrder
  <2>1. o \in Seq(0 .. Words + 2) /\ Len(o) = Words + 2 /\ \A k \in 1 .. Words + 2 : o[k] = k
        BY <1>4
  <2> HIDE DEF o
  <2>2. /\ SetAll(o, frame) \in Seq(Sets) /\ Len(SetAll(o, frame)) = Len(o)
        /\ \A k \in 1 .. Len(o) : SetAll(o, frame)[k] = [signal |-> o[k], frame |-> frame]
        BY <1>1, <2>1
  <2> QED BY <2>1, <2>2 DEF o
<1> QED BY <1>6, <1>7, <1>8

\* Batch b completes the frame, its commit last.
Completes(b, frame) ==
    /\ b \in Seq(Sets) /\ b # <<>>
    /\ b[Len(b)] = [signal |-> Commit, frame |-> frame]
    /\ \A k \in 1 .. Len(b) - 1 : b[k].signal # Commit
    /\ \A g \in Signals : Leaves(b, g, ValueOf(frame, g))

\* The tuning comes first, unless Main holds it already.
LEMMA TuningFacts ==
    ASSUME TypeInv
    PROVE  /\ TuningSets \in Seq(Sets) /\ Len(TuningSets) \in {0, 2}
           /\ \A k \in 1 .. Len(TuningSets) :
                    TuningSets[k] = [signal |-> k, frame |-> Tuning(cEntry)]
           /\ Len(TuningSets) = 0 => cPublished = cEntry
<1>1. CASE cPublished = cEntry
  <2>1. TuningSets = <<>>
        BY <1>1 DEF TuningSets
  <2> QED BY <1>1, <2>1
<1>2. CASE cPublished # cEntry
  <2>1. TuningSets = SetTuning(cEntry) /\ cEntry \in Freqs
        BY <1>2 DEF TuningSets, TypeInv
  <2>2. /\ SetTuning(cEntry) \in Seq(Sets) /\ Len(SetTuning(cEntry)) = 2
        /\ \A k \in 1 .. 2 :
                SetTuning(cEntry)[k] = [signal |-> k, frame |-> Tuning(cEntry)]
        BY <2>1, SetOrders
  <2> QED BY <2>1, <2>2
<1> QED BY <1>1, <1>2

\* The sets of a frame's batch: those of a tuning if any, one to the frame for
\* every signal above o (2 for a row, 0 for a chunk), and the commit.
LEMMA BatchShape ==
    ASSUME TypeInv, NEW frame \in Frames, NEW r \in Seq(Sets), Len(r) \in {Words, Words + 2},
           \A k \in 1 .. Len(r) :
                r[k] = [signal |-> k + (Words + 2 - Len(r)), frame |-> frame]
    PROVE  LET b == Joined(TuningSets, r, frame)
               o == Words + 2 - Len(r)
           IN  /\ b \in Seq(Sets) /\ b # <<>>
               /\ b[Len(b)] = [signal |-> Commit, frame |-> frame]
               /\ \A k \in 1 .. Len(b) - 1 : b[k].signal # Commit
               /\ \A g \in o + 1 .. Words + 2 : SetsLast(b, g, frame)
               /\ \/ \A g \in 1 .. o : SetsLast(b, g, Tuning(cEntry))
                  \/ /\ cPublished = cEntry
                     /\ \A g \in 1 .. o, k \in DOMAIN b : b[k].signal # g
<1> DEFINE t == TuningSets
           b == Joined(t, r, frame)
           v == Tuning(cEntry)
<1>1. /\ t \in Seq(Sets) /\ Len(t) \in {0, 2}
      /\ \A k \in 1 .. Len(t) : t[k] = [signal |-> k, frame |-> v]
      /\ Len(t) = 0 => cPublished = cEntry
      BY TuningFacts
<1>2. v \in Frames
      BY FrameTypes DEF TypeInv
<1> HIDE DEF t, v
<1>3. /\ b \in Seq(Sets) /\ b # <<>> /\ Len(b) = Len(t) + Len(r) + 1
      /\ \A k \in 1 .. Len(t) : b[k] = t[k]
      /\ \A k \in 1 .. Len(r) : b[Len(t) + k] = r[k]
      /\ b[Len(b)] = [signal |-> Commit, frame |-> frame]
      BY <1>1, BatchFacts
<1> HIDE DEF b
<1>4. /\ \A k \in 1 .. Len(t) : b[k] = [signal |-> k, frame |-> v]
      /\ \A k \in 1 .. Len(r) :
            b[Len(t) + k] = [signal |-> k + (Words + 2 - Len(r)), frame |-> frame]
      BY <1>1, <1>3
<1> DEFINE W == Words + 2
           n == Len(t)
           o == Words + 2 - Len(r)
<1>5. /\ W \in Nat /\ n \in Nat /\ o \in Nat /\ n \in {0, 2} /\ o \in {0, 2} /\ o < W
      /\ Len(r) = W - o /\ Len(b) = n + (W - o) + 1
      BY <1>1, <1>3, Sizes
<1>6. /\ \A k \in 1 .. n : b[k] = [signal |-> k, frame |-> v]
      /\ \A k \in 1 .. W - o : b[n + k] = [signal |-> k + o, frame |-> frame]
      BY <1>4, <1>5
<1>7. W = Words + 2 /\ n = Len(t) /\ o = Words + 2 - Len(r)
      OBVIOUS
<1> HIDE DEF W, n, o
<1>8. /\ DOMAIN b = 1 .. Len(b) /\ Len(b) = n + (W - o) + 1 /\ n \in Nat /\ o \in Nat
      /\ W \in Nat /\ n \in {0, 2} /\ o \in {0, 2} /\ o < W
      BY <1>5
<1>9. ASSUME NEW k \in 1 .. Len(b), k > n, k # Len(b)
      PROVE  b[k].signal = k - n + o /\ k - n + o > o
  <2>1. k - n \in 1 .. W - o /\ n + (k - n) = k
        BY <1>8, <1>9
  <2>2. b[n + (k - n)] = [signal |-> (k - n) + o, frame |-> frame]
        BY <1>6, <2>1
  <2> QED BY <1>8, <2>1, <2>2
<1>10. ASSUME NEW k \in 1 .. n PROVE b[k].signal = k /\ b[k].frame = v
  <2>1. b[k] = [signal |-> k, frame |-> v]
        BY <1>6
  <2> QED BY <2>1
<1>11. b[Len(b)].signal = 0
      BY <1>3 DEF Commit
<1>12. ASSUME NEW k \in 1 .. Len(b) - 1 PROVE b[k].signal # Commit
  <2>1. CASE k <= n
        BY <1>8, <1>10, <2>1 DEF Commit
  <2>2. CASE k > n
        BY <1>8, <1>9, <2>2 DEF Commit
  <2>3. k <= n \/ k > n
        BY <1>8
  <2> QED BY <2>1, <2>2, <2>3
<1>13. ASSUME NEW g \in o + 1 .. W PROVE SetsLast(b, g, frame)
  <2> DEFINE k == n + (g - o)
  <2>0. g \in Nat /\ g > o /\ g <= W
        BY <1>8
  <2>1. g - o \in 1 .. W - o /\ (g - o) + o = g /\ g # 0
        BY <1>8, <2>0
  <2>2. b[k] = [signal |-> (g - o) + o, frame |-> frame]
        BY <1>6, <2>1
  <2>4. k \in 1 .. Len(b)
    <3>1. g - o \in Nat /\ g - o > 0 /\ g - o <= W - o /\ W - o \in Nat
          BY ONLY <2>1, <2>0, <1>8
    <3>2. CASE n = 0
          BY ONLY <1>8, <3>1, <3>2
    <3>3. CASE n = 2
          BY ONLY <1>8, <3>1, <3>3
    <3> QED BY <1>8, <3>2, <3>3
  <2>3. ASSUME NEW j \in 1 .. Len(b), j > k PROVE b[j].signal # g
    <3>1. CASE j = Len(b)
          BY <1>11, <2>1, <3>1
    <3>2. CASE j # Len(b)
      <4>1. j > n /\ j - n + o # g
            BY <1>8, <2>1, <2>3
      <4> QED BY <1>9, <3>2, <4>1
    <3> QED BY <3>1, <3>2
  <2>5. b[k].signal = g /\ b[k].frame = frame
        BY <2>1, <2>2
  <2> HIDE DEF k
  <2> QED BY <1>8, <2>3, <2>4, <2>5 DEF SetsLast
<1>14. ASSUME n = 2, NEW g \in 1 .. o PROVE SetsLast(b, g, v)
  <2>1. g \in 1 .. n /\ g \in 1 .. Len(b) /\ g # 0
        BY <1>8, <1>14
  <2>2. ASSUME NEW j \in 1 .. Len(b), j > g PROVE b[j].signal # g
    <3>1. CASE j = Len(b)
          BY <1>11, <2>1, <3>1
    <3>2. CASE j # Len(b) /\ j > n
      <4>1. b[j].signal > o /\ g <= o
            BY <1>9, <3>2, <1>14
      <4> QED BY <1>8, <1>9, <3>2, <4>1
    <3>3. CASE j <= n
          BY <1>8, <1>10, <2>2, <3>3
    <3>4. j <= n \/ j > n
          BY <1>8
    <3> QED BY <3>1, <3>2, <3>3, <3>4
  <2> QED BY <1>8, <1>10, <2>1, <2>2 DEF SetsLast
<1>15. ASSUME n = 0, NEW g \in 1 .. o, NEW k \in DOMAIN b PROVE b[k].signal # g
  <2>1. k \in 1 .. Len(b) /\ k > n /\ g # 0
        BY <1>8, <1>15
  <2>2. CASE k = Len(b)
        BY <1>11, <2>1, <2>2
  <2>3. CASE k # Len(b)
    <3>1. b[k].signal = k - n + o /\ k - n + o > o
          BY <1>9, <2>1, <2>3
    <3> QED BY <1>8, <1>15, <3>1
  <2> QED BY <2>2, <2>3
<1>16. b = Joined(TuningSets, r, frame) /\ v = Tuning(cEntry)
      BY DEF b, t, v
<1>17. \/ \A g \in 1 .. o : SetsLast(b, g, v)
       \/ /\ cPublished = cEntry
          /\ \A g \in 1 .. o, k \in DOMAIN b : b[k].signal # g
      BY <1>1, <1>7, <1>14, <1>15
<1> QED BY <1>3, <1>7, <1>12, <1>13, <1>16, <1>17

\* A row's batch makes its words and, with what Main holds, its tuning.
LEMMA RowBatch ==
    ASSUME TypeInv, StillInv, cBatch = <<>>,
           NEW frame \in Frames, frame.kind = "row", frame.what = cEntry
    PROVE  Completes(Joined(TuningSets, SetAll(RowOrder, frame), frame), frame)
<1> DEFINE r == SetAll(RowOrder, frame)
           b == Joined(TuningSets, r, frame)
<1>1. /\ r \in Seq(Sets) /\ Len(r) = Words
      /\ \A k \in 1 .. Words : r[k] = [signal |-> k + 2, frame |-> frame]
      BY SetOrders
<1> HIDE DEF r
<1>a. Words + 2 - Words = 2
      BY Sizes
<1>2. /\ b \in Seq(Sets) /\ b # <<>>
      /\ b[Len(b)] = [signal |-> Commit, frame |-> frame]
      /\ \A k \in 1 .. Len(b) - 1 : b[k].signal # Commit
      /\ \A g \in 2 + 1 .. Words + 2 : SetsLast(b, g, frame)
      /\ \/ \A g \in 1 .. 2 : SetsLast(b, g, Tuning(cEntry))
         \/ /\ cPublished = cEntry
            /\ \A g \in 1 .. 2, k \in DOMAIN b : b[k].signal # g
      BY <1>1, <1>a, BatchShape
<1> HIDE DEF b
<1>3. ASSUME NEW g \in Signals PROVE Leaves(b, g, ValueOf(frame, g))
  <2>1. CASE g \in RowSignals
        BY <1>2, <2>1, Sizes DEF ValueOf, RowSignals, Leaves
  <2>2. CASE g \notin RowSignals
    <3>1. g \in 1 .. 2 /\ g \in {FreqSignal, SpanSignal} /\ ValueOf(frame, g) = Tuning(cEntry)
          BY <2>2, Sizes DEF ValueOf, IsChunk, Signals, RowSignals
    <3>2. cPublished = cEntry => wr[g] = Tuning(cEntry)
          BY <3>1, Sizes DEF StillInv, TypeInv
    <3> QED BY <1>2, <3>1, <3>2 DEF Leaves
  <2> QED BY <2>1, <2>2
<1> QED BY <1>2, <1>3 DEF Completes, b, r

\* A chunk's batch makes every signal a part of the chunk.
LEMMA ChunkBatch ==
    ASSUME TypeInv, NEW frame \in MessageFrames
    PROVE  Completes(Joined(TuningSets, SetAll(<<FreqSignal, SpanSignal>> \o RowOrder, frame),
                            frame), frame)
<1> DEFINE r == SetAll(<<FreqSignal, SpanSignal>> \o RowOrder, frame)
           b == Joined(TuningSets, r, frame)
<1>0. frame \in Frames /\ IsChunk(frame)
      BY DEF MessageFrames
<1>1. /\ r \in Seq(Sets) /\ Len(r) = Words + 2
      /\ \A k \in 1 .. Words + 2 : r[k] = [signal |-> k, frame |-> frame]
      BY <1>0, SetOrders
<1> HIDE DEF r
<1>b. ASSUME NEW k \in 1 .. Len(r)
      PROVE  r[k] = [signal |-> k + (Words + 2 - Len(r)), frame |-> frame]
  <2>1. k \in 1 .. Words + 2 /\ k + (Words + 2 - Len(r)) = k
        BY <1>1, Sizes
  <2> QED BY <1>1, <2>1
<1>2. /\ b \in Seq(Sets) /\ b # <<>>
      /\ b[Len(b)] = [signal |-> Commit, frame |-> frame]
      /\ \A k \in 1 .. Len(b) - 1 : b[k].signal # Commit
      /\ \A g \in (Words + 2 - Len(r)) + 1 .. Words + 2 : SetsLast(b, g, frame)
  <2>1. Len(r) \in {Words, Words + 2}
        BY <1>1
  <2> QED BY <1>0, <1>1, <1>b, <2>1, BatchShape
<1> HIDE DEF b
<1>3. ASSUME NEW g \in Signals PROVE Leaves(b, g, ValueOf(frame, g))
  <2>1. g \in (Words + 2 - Len(r)) + 1 .. Words + 2 /\ ValueOf(frame, g) = frame
        BY <1>0, <1>1, Sizes DEF ValueOf
  <2> QED BY <1>2, <2>1 DEF Leaves
<1> QED BY <1>2, <1>3 DEF Completes, b, r

-----------------------------------------------------------------------------
(* The steps *)

\* A frame begun on top of a whole one.
LEMMA PushKeeps ==
    ASSUME FeedInv, cBatch = <<>>, frames < MaxFrames,
           NEW frame \in Frames, frame.id = frames + 1, Completes(cBatch', frame),
           cRow' = (cRow + 1) % RowMod, frames' = frame.id,
           cQueue' \in Seq(MessageFrames), cPublished' \in Freqs \cup {"none"},
           cPublished' # "none" => ~IsChunk(frame),
           cPublished' # "none" => frame.what = cPublished',
           UNCHANGED <<cUp, cEntry, mailbox, device, sent, shown>>
    PROVE  FeedInv'
<1>1. frames' = frames + 1 /\ frames' \in 0 .. MaxFrames /\ cRow' = frames'
  <2>1. frames \in Nat /\ cRow = frames /\ frames + 1 \in 0 .. RowMod - 1
        BY Sizes DEF FeedInv, TypeInv, SequenceInv
  <2>2. (frames + 1) % RowMod = frames + 1
        BY <2>1, Sizes
  <2> QED BY <2>1, <2>2, Sizes DEF FeedInv, TypeInv
<1>2. TypeInv'
      BY <1>1 DEF FeedInv, TypeInv, Completes, mailbox, device
<1>3. SequenceInv'
      BY <1>1 DEF FeedInv, SequenceInv, mailbox
<1>4. cBatch' # <<>> /\ StillInv'
      BY DEF Completes, StillInv
<1>5. BatchInv'
  <2>1. sent'.id < frames'
        BY <1>1 DEF FeedInv, StillInv, TypeInv, Frames
  <2>2. Coming' = [signal |-> Commit, frame |-> frame]
        BY DEF Coming, Completes
  <2>3. \A g \in Signals : Leaves(cBatch, g, ValueOf(Coming.frame, g))'
        BY <2>2 DEF Completes, Leaves, SetsLast, ValueOf, mailbox
  <2> QED BY <2>1, <2>2, <2>3 DEF BatchInv, Completes
<1>6. ReadInv' /\ ShownInv'
      BY <1>4 DEF FeedInv, ReadInv, ShownInv, mailbox, device
<1> QED BY <1>2, <1>3, <1>4, <1>5, <1>6 DEF FeedInv

\* A row, or a chunk of the message that waits.
LEMMA PushStep == ASSUME FeedInv, PushRow \/ PushChunk PROVE FeedInv'
<1>1. frames + 1 \in Nat /\ cEntry \in Freqs /\ cEntry # "none" /\ cQueue \in Seq(MessageFrames)
      BY Sizes DEF FeedInv, TypeInv
<1>2. CASE PushRow
  <2> DEFINE frame == Row(cEntry, frames + 1)
  <2>1. /\ frame \in Frames /\ ~IsChunk(frame) /\ frame.kind = "row"
        /\ frame.what = cEntry /\ frame.id = frames + 1
        BY <1>1, FrameTypes DEF Row
  <2>2. cBatch' = Joined(TuningSets, SetAll(RowOrder, frame), frame)
        BY <1>2 DEF PushRow, Push, Joined
  <2>3. cBatch = <<>> /\ frames < MaxFrames /\ cPublished' = cEntry /\ cQueue' = cQueue
        BY <1>2 DEF PushRow, Between
  <2>4. /\ cRow' = (cRow + 1) % RowMod /\ frames' = frame.id
        /\ UNCHANGED <<cUp, cEntry, mailbox, device, sent, shown>>
        BY <1>2 DEF PushRow, Push
  <2> HIDE DEF frame
  <2>5. Completes(cBatch', frame)
        BY <2>1, <2>2, <2>3, RowBatch DEF FeedInv
  <2> QED BY <1>1, <2>1, <2>3, <2>4, <2>5, PushKeeps
<1>3. CASE PushChunk
  <2> DEFINE c == Head(cQueue)
             frame == Chunk(c.kind, c.what, c.index, frames + 1)
  <2>1. c \in MessageFrames /\ Tail(cQueue) \in Seq(MessageFrames)
        BY <1>1, <1>3 DEF PushChunk
  <2>2. frame \in MessageFrames /\ frame \in Frames /\ frame.id = frames + 1
        BY <1>1, <2>1, FrameTypes DEF Chunk, MessageFrames
  <2>3. cBatch' = Joined(TuningSets, SetAll(<<FreqSignal, SpanSignal>> \o RowOrder, frame), frame)
        BY <1>3 DEF PushChunk, Push, Joined
  <2>4. cBatch = <<>> /\ frames < MaxFrames /\ cPublished' = "none" /\ cQueue' = Tail(cQueue)
        BY <1>3 DEF PushChunk, Between, PublishedAfterChunk
  <2>5. /\ cRow' = (cRow + 1) % RowMod /\ frames' = frame.id
        /\ UNCHANGED <<cUp, cEntry, mailbox, device, sent, shown>>
        BY <1>3 DEF PushChunk, Push
  <2> HIDE DEF c, frame
  <2>6. Completes(cBatch', frame)
        BY <2>2, <2>3, ChunkBatch DEF FeedInv
  <2> QED BY <2>1, <2>2, <2>4, <2>5, <2>6, PushKeeps
<1> QED BY <1>2, <1>3

\* After the first set of a batch the rest still leaves what the batch did.
LEMMA LeavesRest ==
    ASSUME NEW b \in Seq(Sets), b # <<>>, wr \in [Signals -> Frames],
           b[1].signal \in Signals, wr' = [wr EXCEPT ![b[1].signal] = b[1].frame],
           NEW g \in Signals, NEW v, Leaves(b, g, v)
    PROVE  \/ SetsLast(Tail(b), g, v)
           \/ wr'[g] = v /\ \A k \in DOMAIN Tail(b) : Tail(b)[k].signal # g
<1>1. /\ Len(b) \in Nat /\ Len(b) > 0 /\ DOMAIN b = 1 .. Len(b)
      /\ DOMAIN Tail(b) = 1 .. Len(b) - 1
      /\ \A k \in 1 .. Len(b) - 1 : Tail(b)[k] = b[k + 1] /\ k + 1 \in DOMAIN b
      BY HeadTailProperties
<1>2. CASE SetsLast(b, g, v)
  <2>1. PICK k \in DOMAIN b : /\ b[k].signal = g /\ b[k].frame = v
                              /\ \A j \in DOMAIN b : j > k => b[j].signal # g
        BY <1>2 DEF SetsLast
  <2>2. CASE k = 1
    <3>1. wr'[g] = v
          BY <2>1, <2>2
    <3>2. ASSUME NEW j \in 1 .. Len(b) - 1 PROVE Tail(b)[j].signal # g
          BY <1>1, <2>1, <2>2
    <3> QED BY <1>1, <3>1, <3>2
  <2>3. CASE k # 1
    <3>1. k - 1 \in 1 .. Len(b) - 1 /\ (k - 1) + 1 = k
          BY <1>1, <2>3
    <3>2. Tail(b)[k - 1] = b[k]
          BY <1>1, <3>1
    <3>3. ASSUME NEW j \in 1 .. Len(b) - 1, j > k - 1 PROVE Tail(b)[j].signal # g
      <4>1. j + 1 > k /\ j + 1 \in DOMAIN b /\ Tail(b)[j] = b[j + 1]
            BY <1>1, <3>1, <3>3
      <4> QED BY <2>1, <4>1
    <3> QED BY <1>1, <2>1, <3>1, <3>2, <3>3 DEF SetsLast
  <2> QED BY <2>2, <2>3
<1>3. CASE wr[g] = v /\ \A k \in DOMAIN b : b[k].signal # g
  <2>1. wr'[g] = v
        BY <1>1, <1>3
  <2>2. ASSUME NEW j \in 1 .. Len(b) - 1 PROVE Tail(b)[j].signal # g
        BY <1>1, <1>3
  <2> QED BY <1>1, <2>1, <2>2
<1> QED BY <1>2, <1>3 DEF Leaves

\* One set of a frame lands; the commit, once all others have.
LEMMA LandsStep == ASSUME FeedInv, Lands PROVE FeedInv'
<1> DEFINE b == cBatch
           n == Len(b)
<1>1. /\ b \in Seq(Sets) /\ b # <<>> /\ n \in Nat /\ n > 0 /\ DOMAIN b = 1 .. n
      /\ Head(b) = b[1] /\ b[1] \in Sets /\ b[n] \in Sets
      BY DEF FeedInv, TypeInv, Lands
<1>2. /\ sent.id < frames /\ b[n].frame.id = frames /\ b[n].signal = Commit
      /\ \A k \in 1 .. n - 1 : b[k].signal # Commit
      /\ \A g \in Signals : Leaves(b, g, ValueOf(b[n].frame, g))
      /\ cPublished # "none" => ~IsChunk(b[n].frame)
      /\ cPublished # "none" => b[n].frame.what = cPublished
      BY <1>1 DEF FeedInv, BatchInv, Coming
<1>3. /\ cBatch' = Tail(b) /\ Tail(b) \in Seq(Sets) /\ Len(Tail(b)) = n - 1
      /\ \A k \in 1 .. n - 1 : Tail(b)[k] = b[k + 1]
      /\ UNCHANGED <<cUp, cRow, cQueue, cPublished, cEntry, device, frames, shown>>
      BY <1>1, HeadTailProperties DEF Lands
<1> HIDE DEF b, n
<1>4. CASE b[1].signal = Commit
  <2>1. n = 1
        BY <1>1, <1>2, <1>4
  <2>2. cBatch' = <<>>
        BY <1>3, <2>1, EmptySeq
  <2>3. wrSeq' = cRow /\ sent' = b[1].frame /\ wr' = wr
        BY <1>1, <1>4 DEF Lands, b
  <2>4. sent' \in Frames /\ sent'.id = frames
        BY <1>1, <1>2, <2>1, <2>3 DEF Sets
  <2>5. \A g \in Signals : wr[g] = ValueOf(sent', g)
    <3>1. ASSUME NEW g \in Signals PROVE ~SetsLast(b, g, ValueOf(sent', g))
          BY <1>1, <1>4, <2>1, Sizes DEF SetsLast, Commit
    <3> QED BY <1>2, <2>1, <2>3, <3>1 DEF Leaves
  <2>6. wr' = Whole(sent')
        BY <2>3, <2>5 DEF FeedInv, TypeInv, Whole
  <2>7. TypeInv' /\ SequenceInv'
    <3>1. wrSeq' = frames /\ frames \in Nat /\ cBatch' \in Seq(Sets)
          BY <1>3, <2>3, Sizes DEF FeedInv, SequenceInv, TypeInv
    <3> QED BY <1>3, <2>3, <2>4, <3>1 DEF FeedInv, TypeInv, SequenceInv, device
  <2>8. StillInv'
    <3>1. FreqSignal \in Signals \ RowSignals /\ SpanSignal \in Signals \ RowSignals
          BY Sizes DEF Signals, RowSignals
    <3>2. ASSUME cPublished # "none"
          PROVE  \A g \in Signals \ RowSignals : wr[g] = Tuning(cPublished)
          BY <1>2, <2>1, <2>3, <2>5, <3>2 DEF ValueOf
    <3> QED BY <1>3, <2>3, <2>4, <2>6, <3>1, <3>2 DEF StillInv
  <2>9. BatchInv'
        BY <2>2 DEF BatchInv
  <2>10. wrSeq' > wrSeq
        BY <1>2, <2>3 DEF FeedInv, SequenceInv
  <2>11. ReadInv' /\ ShownInv'
    <3>1. dRead # <<>> => dRead[1] \in Nat /\ dRead[1] < wrSeq'
          BY <2>10, <2>7 DEF FeedInv, ReadInv, TypeInv
    <3>2. dSeq < wrSeq'
          BY <2>10, <2>7 DEF FeedInv, ShownInv, TypeInv
    <3>3. dSeq' = dSeq /\ dRead' = dRead
          BY <1>3 DEF device
    <3>4. wrSeq' \in Nat /\ dSeq \in Nat
          BY <2>7 DEF FeedInv, TypeInv
    <3>5. ReadInv'
          BY <3>1, <3>3, <3>4 DEF ReadInv
    <3>6. ShownInv'
          BY <3>2, <3>3, <3>4 DEF ShownInv
    <3> QED BY <3>5, <3>6
  <2> QED BY <2>7, <2>8, <2>9, <2>11 DEF FeedInv
<1>5. CASE b[1].signal # Commit
  <2>1. n > 1
        BY <1>1, <1>2, <1>5
  <2>2. /\ wr' = [wr EXCEPT ![b[1].signal] = b[1].frame]
        /\ UNCHANGED <<wrSeq, sent>>
        BY <1>1, <1>5 DEF Lands, b
  <2>3. b[1].signal \in Signals /\ b[1].frame \in Frames
        BY <1>1, <1>5, Sizes DEF Sets, Commit
  <2>4. cBatch' # <<>> /\ Len(cBatch') = n - 1 /\ cBatch'[n - 1] = b[n]
    <3>1. n - 1 \in 1 .. n - 1 /\ (n - 1) + 1 = n
          BY <1>1, <2>1
    <3>2. Tail(b)[n - 1] = b[n]
          BY <1>3, <3>1
    <3>3. Len(<<>>) = 0 /\ n - 1 # 0
          BY <1>1, <2>1
    <3> QED BY <1>3, <3>2, <3>3
  <2>5. TypeInv' /\ SequenceInv' /\ StillInv'
        BY <1>3, <2>2, <2>3, <2>4 DEF FeedInv, TypeInv, SequenceInv, StillInv, device
  <2>6. \A g \in Signals : \/ SetsLast(Tail(b), g, ValueOf(b[n].frame, g))
                           \/ /\ wr'[g] = ValueOf(b[n].frame, g)
                              /\ \A k \in DOMAIN Tail(b) : Tail(b)[k].signal # g
        BY <1>1, <1>2, <2>2, <2>3, LeavesRest DEF FeedInv, TypeInv
  <2>7. BatchInv'
    <3>1. Coming' = b[n]
          BY <2>4 DEF Coming
    <3>2. \A k \in 1 .. Len(cBatch') - 1 : cBatch'[k].signal # Commit
      <4>1. ASSUME NEW k \in 1 .. n - 2 PROVE Tail(b)[k].signal # Commit
        <5>1. k \in 1 .. n - 1 /\ k + 1 \in 1 .. n - 1
              BY <1>1, <2>1
        <5> QED BY <1>2, <1>3, <5>1
      <4>2. (n - 1) - 1 = n - 2
            BY <1>1
      <4> QED BY <1>3, <2>4, <4>1, <4>2
    <3>3. \A g \in Signals : Leaves(cBatch, g, ValueOf(Coming.frame, g))'
          BY <1>3, <2>6, <3>1 DEF Leaves, SetsLast, ValueOf
    <3> QED BY <1>2, <1>3, <2>2, <3>1, <3>2, <3>3 DEF BatchInv
  <2>8. ReadInv' /\ ShownInv'
        BY <1>3, <2>2, <2>4 DEF FeedInv, ReadInv, ShownInv, device
  <2> QED BY <2>5, <2>7, <2>8 DEF FeedInv
<1>6. b = cBatch /\ n = Len(b)
      BY DEF b, n
<1> QED BY <1>4, <1>5

\* What the Display reads, the CM0 receives and the user asks for does not
\* disturb what Main holds.
LEMMA BesideKeeps ==
    ASSUME FeedInv, UNCHANGED <<cUp, cRow, cBatch, cPublished, mailbox, frames, sent>>,
           cEntry' \in Freqs, cQueue' \in Seq(MessageFrames), dSeq' \in Nat,
           dRead' \in Seq(Nat \cup Frames), Len(dRead') <= Words + 2, ReadInv', ShownInv'
    PROVE  FeedInv'
<1>1. TypeInv' /\ SequenceInv' /\ StillInv'
      BY DEF FeedInv, TypeInv, SequenceInv, StillInv, mailbox
<1>2. BatchInv'
      BY DEF FeedInv, BatchInv, Coming, Leaves, SetsLast, ValueOf, mailbox
<1> QED BY <1>1, <1>2 DEF FeedInv

\* The steps of the CM0 that publish nothing.
LEMMA CM0Step ==
    ASSUME FeedInv,
           \/ \E f \in Freqs : Retune(f)
           \/ \E m \in Messages : Verify(m)
           \/ Doubt \/ ClearStore
    PROVE  FeedInv'
<1>1. /\ UNCHANGED <<cUp, cRow, cBatch, cPublished, mailbox, frames, sent, shown, dSeq, dRead>>
      /\ cEntry' \in Freqs
      BY DEF Retune, Verify, Doubt, ClearStore, device, FeedInv, TypeInv
<1>2. cQueue' \in Seq(MessageFrames)
      BY QueueType DEF Retune, Verify, Doubt, ClearStore, FeedInv, TypeInv
<1>3. ReadInv' /\ ShownInv'
      BY <1>1 DEF FeedInv, ReadInv, ShownInv, mailbox
<1>4. dSeq' \in Nat /\ dRead' \in Seq(Nat \cup Frames) /\ Len(dRead') <= Words + 2
      BY <1>1 DEF FeedInv, TypeInv
<1> QED BY <1>1, <1>2, <1>3, <1>4, BesideKeeps

\* The steps of the Display: a whole read under one sequence is what Main holds.
LEMMA DisplayStep ==
    ASSUME FeedInv, BeginRead \/ ReadNext \/ ReadFails \/ TakeFrame \/ Clear \/ Reload
    PROVE  FeedInv'
<1>1. /\ UNCHANGED <<cUp, cRow, cBatch, cPublished, mailbox, frames, sent>>
      /\ cEntry' \in Freqs /\ cQueue' \in Seq(MessageFrames)
      BY DEF BeginRead, ReadNext, ReadFails, TakeFrame, Clear, Reload, cm0, ghosts,
             FeedInv, TypeInv
<1>2. /\ wrSeq' = wrSeq /\ wr' = wr /\ sent' = sent /\ cBatch' = cBatch
      /\ wrSeq \in Nat /\ wrSeq = sent.id /\ dSeq \in Nat /\ wr \in [Signals -> Frames]
      /\ dRead \in Seq(Nat \cup Frames) /\ Len(dRead) <= Words + 2
      BY <1>1 DEF mailbox, FeedInv, TypeInv, SequenceInv
<1>3. CASE BeginRead
  <2>1. dRead' = <<wrSeq>> /\ dSeq' = dSeq /\ shown' = shown
        BY <1>3 DEF BeginRead, ghosts
  <2>2. <<wrSeq>> \in Seq(Nat \cup Frames) /\ Len(<<wrSeq>>) = 1 /\ <<wrSeq>>[1] = wrSeq
        BY <1>2
  <2>3. ReadInv' /\ ShownInv'
        BY <1>2, <2>1, <2>2 DEF FeedInv, ReadInv, ShownInv
  <2> QED BY <1>1, <1>2, <2>1, <2>2, <2>3, Sizes, BesideKeeps
<1>4. CASE ReadNext
  <2> DEFINE n == Len(dRead)
             d == Append(dRead, wr[n])
  <2>1. n \in 1 .. Words + 1 /\ dRead' = d /\ dSeq' = dSeq /\ shown' = shown
        BY <1>4 DEF ReadNext, ghosts
  <2>2. n \in Signals /\ wr[n] \in Frames
        BY <1>2, <2>1, Sizes
  <2>3. /\ d \in Seq(Nat \cup Frames) /\ Len(d) = n + 1 /\ d[n + 1] = wr[n]
        /\ \A k \in 1 .. n : d[k] = dRead[k]
        BY <1>2, <2>2, AppendProperties
  <2> HIDE DEF d, n
  <2>4. n + 1 <= Words + 2 /\ dRead # <<>> /\ d[1] = dRead[1] /\ n = Len(dRead)
        BY <1>2, <2>1, <2>3, Sizes DEF n
  <2>5. ReadInv'
    <3>1. ASSUME dRead[1] = wrSeq, cBatch = <<>>, NEW k \in 2 .. n + 1
          PROVE  d[k] = wr[k - 1]
      <4>1. CASE k = n + 1
            BY <2>1, <2>3, <4>1
      <4>2. CASE k # n + 1
            BY <2>1, <2>3, <2>4, <3>1, <4>2 DEF FeedInv, ReadInv
      <4> QED BY <4>1, <4>2
    <3> QED BY <1>2, <2>1, <2>3, <2>4, <3>1 DEF FeedInv, ReadInv
  <2>6. ShownInv'
        BY <1>2, <2>1 DEF FeedInv, ShownInv
  <2> QED BY <1>1, <1>2, <2>1, <2>3, <2>4, <2>5, <2>6, BesideKeeps
<1>5. CASE ReadFails \/ Clear \/ Reload
  <2>1. dRead' = <<>> /\ dSeq' \in {0, dSeq} /\ shown' = shown
        BY <1>5 DEF ReadFails, Clear, Reload
  <2>2. <<>> \in Seq(Nat \cup Frames) /\ Len(<<>>) = 0
        OBVIOUS
  <2>3. ReadInv' /\ ShownInv'
        BY <1>2, <2>1 DEF FeedInv, ReadInv, ShownInv
  <2> QED BY <1>1, <1>2, <2>1, <2>2, <2>3, Sizes, BesideKeeps
<1>6. CASE TakeFrame
  <2> DEFINE values == [g \in Signals |-> IF g < Words + 2 THEN dRead[g + 1] ELSE wr[g]]
  <2>1. /\ shown' = values /\ dSeq' = dRead[1] /\ dRead' = <<>> /\ Len(dRead) = Words + 2
        BY <1>6 DEF TakeFrame
  <2>2. dRead # <<>> /\ dRead[1] \in Nat /\ dRead[1] <= wrSeq
        BY <1>2, <2>1, Sizes DEF FeedInv, ReadInv
  <2>3. ASSUME dRead[1] = wrSeq, cBatch = <<>>, sent.id # 0 PROVE shown' = Whole(sent)
    <3>1. \A k \in 2 .. Words + 2 : dRead[k] = wr[k - 1]
          BY <2>1, <2>2, <2>3 DEF FeedInv, ReadInv
    <3>2. ASSUME NEW g \in Signals, g < Words + 2 PROVE dRead[g + 1] = wr[g]
      <4>1. g + 1 \in 2 .. Words + 2 /\ (g + 1) - 1 = g
            BY <3>2, Sizes
      <4> QED BY <3>1, <4>1
    <3>3. values = [g \in Signals |-> wr[g]]
          BY <3>2
    <3>4. values = wr
          BY <1>2, <3>3
    <3> QED BY <2>1, <2>3, <3>4 DEF FeedInv, StillInv
  <2>4. <<>> \in Seq(Nat \cup Frames) /\ Len(<<>>) = 0
        OBVIOUS
  <2>5. ReadInv' /\ ShownInv'
    <3> HIDE DEF values
    <3> QED BY <1>2, <2>1, <2>2, <2>3 DEF ReadInv, ShownInv, Whole, ValueOf
  <2> QED BY <1>1, <1>2, <2>1, <2>2, <2>4, <2>5, Sizes, BesideKeeps
<1> QED BY <1>3, <1>4, <1>5, <1>6

\* Until the adapter is replaced the invariant holds: the one step that
\* replaces it says so, and no step takes that back.
THEOREM InvAlways == Spec => []IInv
<1>1. ASSUME IInv, [Next]_vars PROVE IInv'
  <2> SUFFICES ASSUME "restarted" \notin marks' PROVE FeedInv'
      BY DEF IInv
  <2>1. CASE UNCHANGED vars
    <3>1. UNCHANGED <<cm0, mailbox, device, ghosts>>
          BY <2>1 DEF vars
    <3>2. FeedInv
          BY <1>1, <3>1 DEF IInv, ghosts
    <3>3. /\ UNCHANGED <<cUp, cRow, cBatch, cPublished, mailbox, frames, sent>>
          /\ UNCHANGED <<cEntry, cQueue, dSeq, dRead, shown>>
          BY <3>1 DEF cm0, device, ghosts
    <3>4. ReadInv' /\ ShownInv'
          BY <3>2, <3>3 DEF FeedInv, ReadInv, ShownInv, mailbox
    <3>5. /\ cEntry' \in Freqs /\ cQueue' \in Seq(MessageFrames) /\ dSeq' \in Nat
          /\ dRead' \in Seq(Nat \cup Frames) /\ Len(dRead') <= Words + 2
          BY <3>2, <3>3 DEF FeedInv, TypeInv
    <3> QED BY <3>2, <3>3, <3>4, <3>5, BesideKeeps
  <2>2. CASE Drop
        BY <2>2 DEF Drop
  <2>3. CASE Next /\ ~Drop
    <3>1. marks \subseteq marks'
          BY <2>3 DEF Next, Retune, PushChunk, PushRow, Push, Lands, Verify, Doubt, ClearStore,
                Connect, BeginRead, ReadNext, ReadFails, TakeFrame, Clear, Reload, ghosts
    <3>2. FeedInv
          BY <1>1, <3>1 DEF IInv
    <3>3. ~Connect
          BY <3>2 DEF Connect, FeedInv, SequenceInv
    <3>4. CASE PushChunk \/ PushRow
          BY <3>2, <3>4, PushStep
    <3>5. CASE Lands
          BY <3>2, <3>5, LandsStep
    <3>6. CASE \/ \E f \in Freqs : Retune(f)
               \/ \E m \in Messages : Verify(m)
               \/ Doubt \/ ClearStore
          BY <3>2, <3>6, CM0Step
    <3>7. CASE BeginRead \/ ReadNext \/ ReadFails \/ TakeFrame \/ Clear \/ Reload
          BY <3>2, <3>7, DisplayStep
    <3> QED BY <2>3, <3>3, <3>4, <3>5, <3>6, <3>7 DEF Next
  <2> QED BY <1>1, <2>1, <2>2, <2>3
<1> QED BY <1>1, InitInv, PTL DEF Spec

\* A Display that has nothing new to read shows the frame committed last, all
\* of it: whatever was preempted, read too late, read twice or timed out.
THEOREM CaughtUpAlways == Spec => []CaughtUp
<1>1. IInv => CaughtUp
      BY DEF IInv, FeedInv, ShownInv, CaughtUp
<1> QED BY <1>1, InvAlways, PTL

-----------------------------------------------------------------------------
(* Types, in every life of the adapter *)

TopWord == Words + 2
Latest == shown[TopWord]

ChunkFrames == {c \in MessageFrames : /\ c.what \in Messages
                                      /\ c.index \in 0 .. Length[c.what.text] - 1}
Known == {x \in Frames : IsChunk(x) => x \in ChunkFrames}
KnownSets == [signal : 0 .. Words + 2, frame : Known]
RowNumbers == 0 .. RowMod - 1
NoTwice(s) == \A j, k \in DOMAIN s : s[j] = s[k] => j = k

ScalarTypes ==
    /\ cUp \in BOOLEAN /\ cRow \in RowNumbers
    /\ cPublished \in Freqs \cup {"none"} /\ cEntry \in Freqs
    /\ cAnnounced \in Texts \cup {"none"}
    /\ wrSeq \in RowNumbers /\ dSeq \in RowNumbers
    /\ clearing \in BOOLEAN
    /\ frames \in 0 .. MaxFrames /\ events \in 0 .. MaxEvents /\ marks \subseteq Mark

ReadTypes ==
    /\ dRead \in Seq(RowNumbers \cup Known) /\ Len(dRead) <= Words + 2
    /\ \A k \in DOMAIN dRead : IF k = 1 THEN dRead[k] \in RowNumbers ELSE dRead[k] \in Known

FrameTypesInv ==
    /\ cQueue \in Seq(ChunkFrames) /\ cBatch \in Seq(KnownSets)
    /\ wr \in [Signals -> Known] /\ shown \in [Signals -> Known]
    /\ sent \in Known /\ awaited \subseteq Known

StoreTypes ==
    /\ stored \in Seq(Messages) /\ NoTwice(stored)
    /\ fate \in [Messages -> Fate]
    /\ \A k \in DOMAIN stored : fate[stored[k]] \in {"due", "excused"}

StagingTypes ==
    /\ staging.length \in Nat
    /\ \A i \in DOMAIN staging.got : i \in Nat /\ i < staging.length
    /\ \E S : history \in Seq(S)
    /\ Len(history) <= HistoryMax

Types == ScalarTypes /\ ReadTypes /\ FrameTypesInv /\ StoreTypes /\ StagingTypes

\* What the assumption says of the constants, and of the signals in their order.
LEMMA Constants ==
    /\ Words \in Nat /\ Words > 0 /\ MaxFrames \in Nat /\ RowMod \in Nat /\ MaxFrames < RowMod
    /\ MaxEvents \in Nat /\ HistoryMax \in Nat /\ HistoryMax > 0 /\ "none" \notin Freqs
    /\ Signals = 1 .. TopWord /\ FreqSignal = 1 /\ SpanSignal = 2 /\ RowSignals = 3 .. TopWord
    /\ TopWord \in RowSignals /\ TopWord \in Signals /\ TopWord \in Nat
    /\ \A m \in Messages : /\ Length[m.text] \in Nat /\ Length[m.text] >= 2
                           /\ m.freq \in Freqs /\ m.text \in Texts
<1>1. /\ Words \in Nat /\ Words > 0 /\ MaxFrames \in Nat /\ RowMod \in Nat /\ MaxFrames < RowMod
      /\ MaxEvents \in Nat /\ HistoryMax \in Nat /\ HistoryMax > 0 /\ "none" \notin Freqs
      BY FeedAssumption
<1>2. Signals = 1 .. TopWord /\ FreqSignal = 1 /\ SpanSignal = 2 /\ RowSignals = 3 .. TopWord
      BY <1>1, Sizes DEF TopWord, RowSignals
<1>3. TopWord \in RowSignals /\ TopWord \in Signals /\ TopWord \in Nat
      BY <1>1, <1>2 DEF TopWord
<1>4. ASSUME NEW m \in Messages
      PROVE  /\ Length[m.text] \in Nat /\ Length[m.text] >= 2
             /\ m.freq \in Freqs /\ m.text \in Texts
  <2>1. m \in [freq : Freqs, text : Texts] /\ Length \in [Texts -> Nat \ {0, 1}]
        BY FeedAssumption
  <2> QED BY <2>1
<1> QED BY <1>1, <1>2, <1>3, <1>4

\* The frames there are.
LEMMA KnownFrames ==
    /\ \A f \in Freqs : Tuning(f) \in Known
    /\ \A f \in Freqs, n \in Nat : Row(f, n) \in Known /\ ~IsChunk(Row(f, n))
    /\ \A c \in ChunkFrames, n \in Nat :
            /\ Chunk(c.kind, c.what, c.index, n) \in ChunkFrames
            /\ IsChunk(Chunk(c.kind, c.what, c.index, n))
    /\ Nothing \in Known /\ ChunkFrames \subseteq Known /\ Known \subseteq Frames
    /\ \A x \in Known : x.id \in Nat
    /\ \A c \in ChunkFrames : /\ IsChunk(c) /\ c.what \in Messages
                              /\ c.index \in 0 .. Length[c.what.text] - 1
<1>1. \A c \in ChunkFrames, n \in Nat :
            /\ Chunk(c.kind, c.what, c.index, n) \in ChunkFrames
            /\ IsChunk(Chunk(c.kind, c.what, c.index, n))
  <2>1. \A c \in ChunkFrames, n \in Nat : Chunk(c.kind, c.what, c.index, n) \in MessageFrames
        BY FrameTypes DEF ChunkFrames
  <2> QED BY <2>1 DEF ChunkFrames, Chunk, MessageFrames
<1>2. /\ \A f \in Freqs : Tuning(f) \in Known
      /\ \A f \in Freqs, n \in Nat : Row(f, n) \in Known /\ ~IsChunk(Row(f, n))
      /\ Nothing \in Known
      BY FrameTypes DEF Known, IsChunk, Tuning, Row, Nothing
<1>3. /\ ChunkFrames \subseteq Known /\ Known \subseteq Frames
      /\ \A x \in Known : x.id \in Nat
      BY DEF Known, ChunkFrames, MessageFrames, Frames
<1>4. \A c \in ChunkFrames : /\ IsChunk(c) /\ c.what \in Messages
                             /\ c.index \in 0 .. Length[c.what.text] - 1
      BY DEF ChunkFrames, MessageFrames
<1> QED BY <1>1, <1>2, <1>3, <1>4

\* The chunks of a message.
LEMMA ChunksFacts ==
    ASSUME NEW m \in Messages, NEW kind \in {"live", "replay"}
    PROVE  /\ Chunks(m, kind) \in Seq(ChunkFrames) /\ Len(Chunks(m, kind)) = Length[m.text]
           /\ \A i \in 1 .. Length[m.text] :
                 Chunks(m, kind)[i] = Chunk(kind, m, i - 1, 0)
<1>1. Length[m.text] \in Nat
      BY Constants
<1>2. ASSUME NEW i \in 1 .. Length[m.text] PROVE Chunk(kind, m, i - 1, 0) \in ChunkFrames
  <2>1. i - 1 \in 0 .. Length[m.text] - 1 /\ i - 1 \in Nat
        BY <1>1
  <2> QED BY <2>1 DEF Chunk, ChunkFrames, MessageFrames, Frames, Kinds, IsChunk
<1> QED BY <1>1, <1>2 DEF Chunks

\* The queue of a replay: chunks of stored messages, each message's from its first
\* to its last.
LEMMA ReplayFacts ==
    ASSUME Types
    PROVE  /\ Replay \in Seq(ChunkFrames)
           /\ \A p \in DOMAIN Replay : Replay[p].what \in ToSet(stored)
           /\ \A p \in DOMAIN Replay : Replay[p].index > 0 =>
                 p - 1 \in DOMAIN Replay /\ Replay[p - 1].what = Replay[p].what
           /\ Len(stored) <= HistoryMax => \A m \in ToSet(stored) : \E o \in Nat :
                 \A i \in 1 .. Length[m.text] :
                    o + i \in DOMAIN Replay /\ Replay[o + i] = Chunk("replay", m, i - 1, 0)
<1> DEFINE lo == IF Len(stored) > HistoryMax THEN Len(stored) - HistoryMax + 1 ELSE 1
           latest == SubSeq(stored, lo, Len(stored))
           ss == [k \in DOMAIN latest |-> Chunks(latest[k], "replay")]
<1>1. stored \in Seq(Messages) /\ Len(stored) \in Nat /\ DOMAIN stored = 1 .. Len(stored)
      BY DEF Types, StoreTypes
<1>2. lo \in Int /\ lo >= 1 /\ (Len(stored) <= HistoryMax => lo = 1)
      BY <1>1, Constants
<1> HIDE DEF lo
<1>3. /\ latest \in Seq(Messages) /\ Len(latest) \in Nat /\ DOMAIN latest = 1 .. Len(latest)
      /\ \A k \in 1 .. Len(latest) : latest[k] \in Messages /\ latest[k] \in ToSet(stored)
      /\ Len(stored) <= HistoryMax => latest = stored
  <2>1. \A i \in lo .. Len(stored) : stored[i] \in Messages
        BY <1>1, <1>2
  <2>2. /\ latest \in Seq(Messages)
        /\ Len(latest) = IF lo <= Len(stored) THEN Len(stored) - lo + 1 ELSE 0
        /\ \A k \in 1 .. Len(stored) - lo + 1 : latest[k] = stored[lo + k - 1]
        BY <1>1, <1>2, <2>1, SubSeqProperties
  <2>3. Len(stored) <= HistoryMax => latest = stored
        BY <1>1, <1>2, SubSeqFull
  <2> HIDE DEF latest
  <2>4. Len(latest) \in Nat /\ DOMAIN latest = 1 .. Len(latest)
        BY <2>2
  <2>5. ASSUME NEW k \in 1 .. Len(latest)
        PROVE  latest[k] \in Messages /\ latest[k] \in ToSet(stored)
    <3>1. k \in 1 .. Len(stored) - lo + 1 /\ lo + k - 1 \in 1 .. Len(stored)
          BY <1>1, <1>2, <2>2, <2>4
    <3>2. latest[k] = stored[lo + k - 1] /\ lo + k - 1 \in DOMAIN stored
          BY <1>1, <2>2, <3>1
    <3>3. stored[lo + k - 1] \in Messages
          BY <1>1, <3>2
    <3> QED BY <3>2, <3>3 DEF ToSet
  <2> QED BY <2>2, <2>3, <2>4, <2>5
<1>4. Replay = Concatenated(ss)
      BY DEF Replay, lo
<1> HIDE DEF latest
<1>5. /\ ss \in Seq(Seq(ChunkFrames)) /\ Len(ss) = Len(latest)
      /\ \A k \in 1 .. Len(latest) : /\ Len(ss[k]) = Length[latest[k].text]
                                     /\ \A i \in 1 .. Length[latest[k].text] :
                                           ss[k][i] = Chunk("replay", latest[k], i - 1, 0)
  <2>1. \A k \in 1 .. Len(latest) :
            /\ Chunks(latest[k], "replay") \in Seq(ChunkFrames)
            /\ Len(Chunks(latest[k], "replay")) = Length[latest[k].text]
            /\ \A i \in 1 .. Length[latest[k].text] :
                  Chunks(latest[k], "replay")[i] = Chunk("replay", latest[k], i - 1, 0)
        BY <1>3, ChunksFacts
  <2>2. ss = [k \in 1 .. Len(latest) |-> Chunks(latest[k], "replay")]
        BY <1>3
  <2>3. \A k \in 1 .. Len(latest) : ss[k] = Chunks(latest[k], "replay")
        BY <2>2
  <2>4. ss \in Seq(Seq(ChunkFrames)) /\ Len(ss) = Len(latest)
        BY <1>3, <2>1, <2>2
  <2> HIDE DEF ss
  <2> QED BY <2>1, <2>3, <2>4
<1> HIDE DEF ss
<1> DEFINE c == Concatenated(ss)
           n == Len(latest)
<1>6. /\ c \in Seq(ChunkFrames)
      /\ \A k \in 1 .. n : \A i \in 1 .. Length[latest[k].text] :
            /\ Offset(ss, k - 1) + i \in DOMAIN c
            /\ c[Offset(ss, k - 1) + i] = Chunk("replay", latest[k], i - 1, 0)
      /\ \A p \in DOMAIN c : \E k \in 1 .. n : \E i \in 1 .. Length[latest[k].text] :
            p = Offset(ss, k - 1) + i
  <2>1. /\ c \in Seq(ChunkFrames)
        /\ \A k \in 1 .. Len(ss) : \A i \in 1 .. Len(ss[k]) :
              Offset(ss, k - 1) + i \in DOMAIN c /\ c[Offset(ss, k - 1) + i] = ss[k][i]
        /\ \A p \in DOMAIN c :
              \E k \in 1 .. Len(ss) : \E i \in 1 .. Len(ss[k]) : p = Offset(ss, k - 1) + i
        BY <1>5, ConcatenatedFacts
  <2> HIDE DEF c
  <2>2. \A p \in DOMAIN c : \E k \in 1 .. n : \E i \in 1 .. Length[latest[k].text] :
            p = Offset(ss, k - 1) + i
    <3> SUFFICES ASSUME NEW p \in DOMAIN c
                 PROVE  \E k \in 1 .. n : \E i \in 1 .. Length[latest[k].text] :
                            p = Offset(ss, k - 1) + i
        OBVIOUS
    <3>1. PICK k \in 1 .. Len(ss) : \E i \in 1 .. Len(ss[k]) : p = Offset(ss, k - 1) + i
          BY <2>1
    <3>2. k \in 1 .. n /\ Len(ss[k]) = Length[latest[k].text]
          BY <1>5
    <3> QED BY <3>1, <3>2
  <2>3. ASSUME NEW k \in 1 .. n, NEW i \in 1 .. Length[latest[k].text]
        PROVE  /\ Offset(ss, k - 1) + i \in DOMAIN c
               /\ c[Offset(ss, k - 1) + i] = Chunk("replay", latest[k], i - 1, 0)
    <3>1. k \in 1 .. Len(ss) /\ i \in 1 .. Len(ss[k])
          /\ ss[k][i] = Chunk("replay", latest[k], i - 1, 0)
          BY <1>5
    <3> QED BY <2>1, <3>1
  <2> QED BY <2>1, <2>2, <2>3
<1>7. \A k \in 1 .. n : Offset(ss, k - 1) \in Nat
  <2>1. \A k \in 1 .. n : k - 1 \in 0 .. Len(ss)
        BY <1>3, <1>5
  <2> QED BY <1>5, <2>1, OffsetFacts
<1> HIDE DEF c, n
<1>8. ASSUME NEW p \in DOMAIN c
      PROVE  /\ c[p].what \in ToSet(stored)
             /\ c[p].index > 0 => p - 1 \in DOMAIN c /\ c[p - 1].what = c[p].what
  <2>1. PICK k \in 1 .. n : \E i \in 1 .. Length[latest[k].text] : p = Offset(ss, k - 1) + i
        BY <1>6
  <2>2. PICK i \in 1 .. Length[latest[k].text] : p = Offset(ss, k - 1) + i
        BY <2>1
  <2>3. latest[k] \in Messages /\ latest[k] \in ToSet(stored) /\ Length[latest[k].text] \in Nat
        BY <1>3, Constants DEF n
  <2>a. c[p] = Chunk("replay", latest[k], i - 1, 0)
        BY <1>6, <2>2
  <2>4. c[p].what = latest[k] /\ c[p].index = i - 1
        BY <2>a DEF Chunk
  <2>5. ASSUME i - 1 > 0 PROVE p - 1 \in DOMAIN c /\ c[p - 1].what = latest[k]
    <3>1. i - 1 \in 1 .. Length[latest[k].text] /\ p - 1 = Offset(ss, k - 1) + (i - 1)
          BY <1>7, <2>2, <2>3, <2>5
    <3>2. p - 1 \in DOMAIN c /\ c[p - 1] = Chunk("replay", latest[k], (i - 1) - 1, 0)
          BY <1>6, <3>1
    <3> QED BY <3>2 DEF Chunk
  <2> QED BY <2>3, <2>4, <2>5
<1>9. ASSUME Len(stored) <= HistoryMax, NEW m \in ToSet(stored)
      PROVE  \E o \in Nat : \A i \in 1 .. Length[m.text] :
                o + i \in DOMAIN c /\ c[o + i] = Chunk("replay", m, i - 1, 0)
  <2>1. PICK k \in 1 .. n : m = latest[k]
        BY <1>1, <1>3, <1>9 DEF ToSet, n
  <2> QED BY <1>6, <1>7, <2>1
<1> QED BY <1>4, <1>6, <1>8, <1>9 DEF c

\* A sequence without repetitions has as many elements as entries.
LEMMA Counted ==
    ASSUME NEW S, NEW s \in Seq(S), NoTwice(s)
    PROVE  IsFiniteSet(ToSet(s)) /\ Cardinality(ToSet(s)) = Len(s) /\ Len(s) \in Nat
<1> DEFINE n == Len(s)
           T == ToSet(s)
<1>1. n \in Nat /\ s = [k \in 1 .. n |-> s[k]] /\ DOMAIN s = 1 .. n
      OBVIOUS
<1>2. T = {s[k] : k \in 1 .. n}
      BY <1>1 DEF ToSet
<1>3. \A j, k \in 1 .. n : s[j] = s[k] => j = k
      BY <1>1 DEF NoTwice
<1> HIDE DEF n, T
<1>4. s \in Bijection(1 .. n, T)
  <2>1. s \in [1 .. n -> T]
        BY <1>1, <1>2
  <2>2. \A t \in T : \E k \in 1 .. n : s[k] = t
        BY <1>2
  <2> QED BY <1>3, <2>1, <2>2 DEF Bijection, Injection, Surjection, IsInjective
<1>5. ExistsBijection(1 .. n, T)
      BY <1>4 DEF ExistsBijection
<1>6. Cardinality(T) = n
      BY <1>1, <1>5, FS_CountingElements
<1>7. IsFiniteSet(1 .. n)
  <2>1. 1 \in Int /\ n \in Int
        BY <1>1
  <2> QED BY <2>1, FS_Interval
<1>8. IsFiniteSet(T)
      BY <1>4, <1>7, FS_Surjection DEF Bijection
<1> QED BY <1>1, <1>6, <1>8 DEF n, T

\* These types are at least those the proof of CaughtUp works with.
LEMMA TypesInclude == ASSUME Types PROVE TypeInv
<1>1. ChunkFrames \subseteq MessageFrames /\ KnownSets \subseteq Sets /\ Known \subseteq Frames
      BY DEF ChunkFrames, KnownSets, Sets, Known
<1>2. /\ RowNumbers \subseteq Nat /\ RowNumbers \cup Known \subseteq Nat \cup Frames
      BY <1>1, Constants DEF RowNumbers
<1>3. /\ cQueue \in Seq(MessageFrames) /\ cBatch \in Seq(Sets)
      /\ dRead \in Seq(Nat \cup Frames)
      BY <1>1, <1>2, SeqMonotonic DEF Types, FrameTypesInv, ReadTypes
<1>4. wr \in [Signals -> Frames] /\ sent \in Frames
      BY <1>1 DEF Types, FrameTypesInv
<1> QED BY <1>2, <1>3, <1>4 DEF Types, ScalarTypes, ReadTypes, TypeInv

\* The sets of a frame: the words and the commit are the frame's.
Marked(b, frame) ==
    /\ b \in Seq(KnownSets)
    /\ \A k \in DOMAIN b : b[k].signal \in {Commit, TopWord} => b[k].frame = frame

\* The batch of a row or of a chunk is one of those.
LEMMA PushedBatch ==
    ASSUME Types, NEW frame \in Known, NEW r,
           \/ r = SetAll(RowOrder, frame)
           \/ r = SetAll(<<FreqSignal, SpanSignal>> \o RowOrder, frame)
    PROVE  Marked(Committing(TuningSets \o r, frame), frame)
<1> DEFINE b == Committing(TuningSets \o r, frame)
           t == TuningSets
<1>0. frame \in Frames /\ TypeInv
      BY KnownFrames, TypesInclude
<1>1. /\ r \in Seq(Sets) /\ Len(r) \in Nat
      /\ \A k \in 1 .. Len(r) : r[k].frame = frame
  <2>1. CASE r = SetAll(RowOrder, frame)
    <3>1. /\ r \in Seq(Sets) /\ Len(r) = Words
          /\ \A k \in 1 .. Words : r[k] = [signal |-> k + 2, frame |-> frame]
          BY <1>0, <2>1, SetOrders
    <3> QED BY <3>1, Constants
  <2>2. CASE r = SetAll(<<FreqSignal, SpanSignal>> \o RowOrder, frame)
    <3>1. /\ r \in Seq(Sets) /\ Len(r) = Words + 2
          /\ \A k \in 1 .. Words + 2 : r[k] = [signal |-> k, frame |-> frame]
          BY <1>0, <2>2, SetOrders
    <3> QED BY <3>1, Constants
  <2> QED BY <2>1, <2>2
<1>2. /\ t \in Seq(Sets) /\ Len(t) \in {0, 2}
      /\ \A k \in 1 .. Len(t) : t[k] = [signal |-> k, frame |-> Tuning(cEntry)]
      BY <1>0, TuningFacts
<1> HIDE DEF t
<1>3. /\ b \in Seq(Sets) /\ b # <<>> /\ Len(b) = Len(t) + Len(r) + 1
      /\ \A k \in 1 .. Len(t) : b[k] = t[k]
      /\ \A k \in 1 .. Len(r) : b[Len(t) + k] = r[k]
      /\ b[Len(b)] = [signal |-> Commit, frame |-> frame]
      BY <1>0, <1>1, <1>2, BatchFacts DEF Joined, t
<1>4. Tuning(cEntry) \in Known
      BY KnownFrames DEF Types, ScalarTypes
<1> HIDE DEF b
<1>5. ASSUME NEW k \in DOMAIN b
      PROVE  /\ b[k].frame \in Known /\ b[k] \in Sets
             /\ b[k].signal \in {Commit, TopWord} => b[k].frame = frame
  <2>1. k \in 1 .. Len(b) /\ Len(b) \in Nat /\ Len(t) \in Nat /\ b[k] \in Sets
        BY <1>2, <1>3
  <2> DEFINE n == Len(t)
             l == Len(r)
  <2>a. n \in {0, 2} /\ l \in Nat /\ k \in 1 .. n + l + 1 /\ Len(b) = n + l + 1
        BY <1>1, <1>2, <1>3, <2>1
  <2>b. n = Len(t) /\ l = Len(r)
        OBVIOUS
  <2> HIDE DEF n, l
  <2>2. CASE k <= Len(t)
    <3>a. k \in 1 .. n /\ k \in 1 .. 2
          BY ONLY <2>a, <2>b, <2>2
    <3>1. k \in 1 .. Len(t) /\ k \in 1 .. 2 /\ b[k] = [signal |-> k, frame |-> Tuning(cEntry)]
          BY <1>2, <1>3, <2>b, <3>a
    <3>2. k # TopWord /\ k # Commit
          BY <3>1, Constants DEF TopWord, Commit
    <3> QED BY <1>4, <2>1, <3>1, <3>2
  <2>3. CASE k > Len(t) /\ k # Len(b)
    <3>a. k - n \in 1 .. l /\ n + (k - n) = k
          BY ONLY <2>a, <2>b, <2>3
    <3>1. k - Len(t) \in 1 .. Len(r) /\ Len(t) + (k - Len(t)) = k
          BY <2>b, <3>a
    <3>2. b[k] = r[k - Len(t)]
          BY <1>3, <3>1
    <3> QED BY <1>1, <2>1, <3>1, <3>2
  <2>4. CASE k = Len(b)
        BY <1>3, <2>1, <2>4
  <2> QED BY <2>1, <2>2, <2>3, <2>4, <2>a, <2>b
<1>6. \A k \in DOMAIN b : b[k] \in KnownSets
      BY <1>5 DEF Sets, KnownSets
<1>7. b \in Seq(KnownSets)
  <2>1. DOMAIN b = 1 .. Len(b) /\ Len(b) \in Nat /\ b = [k \in 1 .. Len(b) |-> b[k]]
        BY <1>3
  <2> QED BY <1>6, <2>1
<1> QED BY <1>5, <1>7 DEF Marked, b

\* The records that stay, and the one verified.
LEMMA KeptRecords ==
    ASSUME stored \in Seq(Messages), NoTwice(stored), NEW I, I \subseteq DOMAIN stored
    PROVE  /\ Picked(stored, I) \in Seq(Messages) /\ NoTwice(Picked(stored, I))
           /\ \A k \in DOMAIN Picked(stored, I) : \E i \in I : Picked(stored, I)[k] = stored[i]
<1> DEFINE p == Picked(stored, I)
<1>1. /\ p \in Seq(Messages)
      /\ \A k \in DOMAIN p : Nth(I, k) \in I /\ p[k] = stored[Nth(I, k)]
      /\ \A j, k \in DOMAIN p : j < k => Nth(I, j) < Nth(I, k)
      BY PickedFacts
<1> HIDE DEF p
<1>2. ASSUME NEW j \in DOMAIN p, NEW k \in DOMAIN p, p[j] = p[k] PROVE j = k
  <2>1. Nth(I, j) \in DOMAIN stored /\ Nth(I, k) \in DOMAIN stored
        BY <1>1
  <2>2. stored[Nth(I, j)] = stored[Nth(I, k)]
        BY <1>1, <1>2
  <2>3. Nth(I, j) = Nth(I, k) /\ Nth(I, j) \in Nat
        BY <2>1, <2>2 DEF NoTwice
  <2>4. j \in Nat /\ k \in Nat
        BY <1>1
  <2>5. ~(Nth(I, j) < Nth(I, k)) /\ ~(Nth(I, k) < Nth(I, j))
        BY <2>3
  <2>6. ~(j < k) /\ ~(k < j)
        BY <1>1, <2>5
  <2> QED BY <2>4, <2>6
<1> QED BY <1>1, <1>2 DEF NoTwice, p

\* The records after a verification: those that stay and the new one, each once.
LEMMA VerifiedRecords ==
    ASSUME stored \in Seq(Messages), NoTwice(stored), NEW m \in Messages, NEW merged
    PROVE  /\ RecordsAfter(m, merged) \in Seq(Messages) /\ NoTwice(RecordsAfter(m, merged))
           /\ ToSet(RecordsAfter(m, merged)) \subseteq ToSet(stored) \cup {m}
           /\ m \in ToSet(RecordsAfter(m, merged))
<1> DEFINE I == {k \in DOMAIN stored : stored[k] \notin merged \cup {m}}
           p == Picked(stored, I)
           r == RecordsAfter(m, merged)
<1>1. /\ p \in Seq(Messages) /\ NoTwice(p)
      /\ \A k \in DOMAIN p : \E i \in I : p[k] = stored[i]
      BY KeptRecords
<1>2. r = Append(p, m)
      BY DEF RecordsAfter
<1>3. \A k \in DOMAIN p : p[k] \in ToSet(stored) /\ p[k] # m
      BY <1>1 DEF ToSet
<1> HIDE DEF p, r
<1>4. /\ r \in Seq(Messages) /\ DOMAIN r = 1 .. Len(p) + 1 /\ Len(p) \in Nat
      /\ \A k \in 1 .. Len(p) : r[k] = p[k] /\ k \in DOMAIN p
      /\ r[Len(p) + 1] = m
      BY <1>1, <1>2, AppendProperties
<1>5. ASSUME NEW j \in DOMAIN r, NEW k \in DOMAIN r, r[j] = r[k] PROVE j = k
  <2>1. CASE j = Len(p) + 1
        BY <1>3, <1>4, <1>5, <2>1
  <2>2. CASE k = Len(p) + 1
        BY <1>3, <1>4, <1>5, <2>2
  <2>3. CASE j \in 1 .. Len(p) /\ k \in 1 .. Len(p)
        BY <1>1, <1>4, <1>5, <2>3 DEF NoTwice
  <2> QED BY <1>4, <2>1, <2>2, <2>3
<1>6. ASSUME NEW k \in DOMAIN r PROVE r[k] \in ToSet(stored) \cup {m}
  <2>1. CASE k = Len(p) + 1
        BY <1>4, <2>1
  <2>2. CASE k \in 1 .. Len(p)
        BY <1>3, <1>4, <2>2
  <2> QED BY <1>4, <2>1, <2>2
<1>7. Len(p) + 1 \in DOMAIN r
      BY <1>4
<1> QED BY <1>4, <1>5, <1>6, <1>7 DEF NoTwice, ToSet, r

\* A chunk is staged beside the ones before it, or alone.
LEMMA StagedFacts ==
    ASSUME StagingTypes, NEW u \in ChunkFrames, NEW ws
    PROVE  LET s == Staged(u, ws)
           IN  /\ s.length = Length[u.what.text] /\ s.length \in Nat
               /\ u.index \in DOMAIN s.got /\ s.got[u.index] = ws
               /\ Restarts(u) => DOMAIN s.got = {u.index}
               /\ ~Restarts(u) => /\ DOMAIN s.got = DOMAIN staging.got \cup {u.index}
                                  /\ s.length = staging.length
               /\ \A i \in DOMAIN s.got : i # u.index =>
                     i \in DOMAIN staging.got /\ s.got[i] = staging.got[i]
               /\ \A i \in DOMAIN s.got : i \in Nat /\ i < s.length
               /\ s.got = [i \in DOMAIN s.got |-> s.got[i]]
<1> DEFINE s == Staged(u, ws)
           before == IF Restarts(u) THEN {} ELSE DOMAIN staging.got
<1>1. /\ s.length = Length[u.what.text]
      /\ s.got = [i \in before \cup {u.index} |-> IF i = u.index THEN ws ELSE staging.got[i]]
      BY DEF Staged
<1> HIDE DEF s
<1>2. /\ Length[u.what.text] \in Nat /\ u.index \in Nat /\ u.index < Length[u.what.text]
  <2>1. u.what \in Messages /\ u.index \in 0 .. Length[u.what.text] - 1
        BY KnownFrames
  <2>2. Length[u.what.text] \in Nat
        BY <2>1, Constants
  <2> QED BY <2>1, <2>2
<1>3. ~Restarts(u) => Length[u.what.text] = staging.length
      BY DEF Restarts
<1>4. /\ DOMAIN s.got = before \cup {u.index} /\ s.got[u.index] = ws
      /\ \A i \in DOMAIN s.got : i # u.index => i \in before /\ s.got[i] = staging.got[i]
      BY <1>1
<1>5. \A i \in before : i \in DOMAIN staging.got /\ i \in Nat /\ i < Length[u.what.text]
      BY <1>3 DEF StagingTypes
<1>6. /\ Restarts(u) => before = {}
      /\ ~Restarts(u) => before = DOMAIN staging.got
      OBVIOUS
<1> HIDE DEF before
<1>7. /\ Restarts(u) => DOMAIN s.got = {u.index}
      /\ ~Restarts(u) => DOMAIN s.got = DOMAIN staging.got \cup {u.index}
      BY <1>4, <1>6
<1>8. \A i \in DOMAIN s.got : i \in Nat /\ i < Length[u.what.text]
      BY <1>2, <1>4, <1>5
<1>9. s.got = [i \in DOMAIN s.got |-> s.got[i]]
      BY <1>1
<1> QED BY <1>1, <1>2, <1>3, <1>4, <1>5, <1>7, <1>8, <1>9 DEF s

\* A complete message is in the history after it, beside the ones before it unless
\* the history is full.
LEMMA RememberedFacts ==
    ASSUME StagingTypes, NEW text
    PROVE  LET r == Remembered(text)
           IN  /\ \E S : r \in Seq(S)
               /\ Len(r) <= HistoryMax
               /\ ToSet(r) \subseteq ToSet(history) \cup {text}
               /\ text \in ToSet(r)
               /\ NoTwice(history) => NoTwice(r)
               /\ Len(history) < HistoryMax => ToSet(history) \subseteq ToSet(r)
<1> DEFINE r == Remembered(text)
           rest == IF Len(history) < HistoryMax THEN history ELSE Tail(history)
<1>1. PICK S : history \in Seq(S)
      BY DEF StagingTypes
<1>2. CASE text \in ToSet(history)
  <2>1. r = history
        BY <1>2 DEF Remembered
  <2> QED BY <1>1, <1>2, <2>1 DEF StagingTypes
<1>3. CASE text \notin ToSet(history)
  <2> DEFINE T == S \cup {text}
             n == Len(rest)
  <2>1. r = Append(rest, text)
        BY <1>3 DEF Remembered
  <2>2. history \in Seq(T) /\ Len(history) \in Nat /\ Len(history) <= HistoryMax
        /\ DOMAIN history = 1 .. Len(history)
        BY <1>1, SeqMonotonic DEF StagingTypes
  <2>3. CASE Len(history) < HistoryMax
    <3>1. rest = history
          BY <2>3
    <3> HIDE DEF rest
    <3>2. /\ r \in Seq(T) /\ Len(r) = Len(history) + 1 /\ DOMAIN r = 1 .. Len(history) + 1
          /\ \A k \in 1 .. Len(history) : r[k] = history[k]
          /\ r[Len(history) + 1] = text
          BY <2>1, <2>2, <3>1, AppendProperties
    <3> HIDE DEF r, T
    <3>3. /\ ToSet(r) \subseteq ToSet(history) \cup {text}
          /\ ToSet(history) \subseteq ToSet(r) /\ text \in ToSet(r)
      <4>1. \A k \in DOMAIN r : k \in DOMAIN history \/ k = Len(history) + 1
            BY <2>2, <3>2
      <4>2. Len(history) + 1 \in DOMAIN r /\ \A k \in DOMAIN history : k \in DOMAIN r
            BY <2>2, <3>2
      <4> QED BY <2>2, <3>2, <4>1, <4>2 DEF ToSet
    <3>4. ASSUME NoTwice(history) PROVE NoTwice(r)
      <4>1. \A k \in DOMAIN history : history[k] # text
            BY <1>3 DEF ToSet
      <4>2. \A k \in DOMAIN r : k \in DOMAIN history \/ k = Len(history) + 1
            BY <2>2, <3>2
      <4> QED BY <2>2, <3>2, <3>4, <4>1, <4>2 DEF NoTwice
    <3>5. Len(r) <= HistoryMax
          BY <2>2, <2>3, <3>2, Constants
    <3> QED BY <3>2, <3>3, <3>4, <3>5 DEF r
  <2>4. CASE ~(Len(history) < HistoryMax)
    <3>1. rest = Tail(history) /\ Len(history) = HistoryMax /\ history # <<>>
      <4>1. rest = Tail(history)
            BY <2>4
      <4> DEFINE h == Len(history)
      <4>a. h \in Nat /\ h <= HistoryMax /\ ~(h < HistoryMax)
            BY <2>2, <2>4
      <4> HIDE DEF h
      <4>b. h = HistoryMax /\ HistoryMax > 0
            BY <4>a, Constants
      <4>2. Len(history) = HistoryMax /\ HistoryMax > 0
            BY <4>b DEF h
      <4>3. history # <<>>
            BY <4>2
      <4> QED BY <4>1, <4>2, <4>3
    <3> HIDE DEF rest
    <3> DEFINE m == Len(history) - 1
    <3>2. /\ rest \in Seq(T) /\ Len(rest) = m
          /\ \A k \in 1 .. m : rest[k] = history[k + 1]
          BY <2>2, <3>1, HeadTailProperties
    <3>a. m \in Nat /\ m + 1 = Len(history)
          BY <2>2, <3>1, Constants
    <3> HIDE DEF m
    <3>3. /\ r \in Seq(T) /\ Len(r) = m + 1 /\ DOMAIN r = 1 .. m + 1
          /\ \A k \in 1 .. m : r[k] = rest[k]
          /\ r[m + 1] = text
          BY <2>1, <3>2, <3>a, AppendProperties
    <3> HIDE DEF r, T
    <3>4. \A k \in 1 .. m : k + 1 \in DOMAIN history /\ r[k] = history[k + 1]
          BY <2>2, <3>2, <3>3, <3>a
    <3>5. \A k \in DOMAIN r : k \in 1 .. m \/ k = m + 1
          BY <3>3, <3>a
    <3>6. ToSet(r) \subseteq ToSet(history) \cup {text} /\ text \in ToSet(r)
      <4>1. m + 1 \in DOMAIN r
            BY <3>3, <3>a
      <4> QED BY <3>3, <3>4, <3>5, <4>1 DEF ToSet
    <3>7. ASSUME NoTwice(history), NEW j \in DOMAIN r, NEW k \in DOMAIN r, r[j] = r[k]
          PROVE  j = k
      <4>1. \A h \in DOMAIN history : history[h] # text
            BY <1>3 DEF ToSet
      <4>2. CASE j \in 1 .. m /\ k \in 1 .. m
        <5>1. j + 1 = k + 1
              BY <3>4, <3>7, <4>2 DEF NoTwice
        <5> QED BY <4>2, <5>1
      <4>3. CASE j = m + 1 /\ k \in 1 .. m
            BY <3>3, <3>4, <3>7, <4>1, <4>3
      <4>4. CASE k = m + 1 /\ j \in 1 .. m
            BY <3>3, <3>4, <3>7, <4>1, <4>4
      <4> QED BY <3>5, <4>2, <4>3, <4>4
    <3>8. Len(r) <= HistoryMax
          BY <3>1, <3>3, <3>a
    <3> QED BY <2>4, <3>3, <3>6, <3>7, <3>8 DEF r, NoTwice
  <2> QED BY <2>3, <2>4
<1> QED BY <1>2, <1>3

\* What the Display takes.
Values == [g \in Signals |-> IF g < Words + 2 THEN dRead[g + 1] ELSE wr[g]]

\* The Display takes frames that there are; the last word is the one in the mailbox.
LEMMA TakenTypes ==
    ASSUME Types, TakeFrame
    PROVE  /\ Values \in [Signals -> Known] /\ shown' = Values
           /\ Take(Values)
           /\ Values[TopWord] = wr[TopWord]
<1>1. /\ dRead \in Seq(RowNumbers \cup Known) /\ Len(dRead) = Words + 2
      /\ \A k \in DOMAIN dRead : IF k = 1 THEN dRead[k] \in RowNumbers ELSE dRead[k] \in Known
      /\ wr \in [Signals -> Known]
      BY DEF Types, ReadTypes, FrameTypesInv, TakeFrame
<1>2. DOMAIN dRead = 1 .. Words + 2
      BY <1>1
<1>3. ASSUME NEW g \in Signals
      PROVE  (IF g < Words + 2 THEN dRead[g + 1] ELSE wr[g]) \in Known
  <2>1. CASE g < Words + 2
    <3>1. g + 1 \in DOMAIN dRead /\ g + 1 # 1
          BY <1>2, <2>1, Constants DEF TopWord
    <3> QED BY <1>1, <2>1, <3>1
  <2>2. CASE ~(g < Words + 2)
        BY <1>1, <2>2
  <2> QED BY <2>1, <2>2
<1>4. Values \in [Signals -> Known]
      BY <1>3 DEF Values
<1>5. shown' = Values /\ Take(Values)
      BY DEF TakeFrame, Values
<1>6. Values[TopWord] = wr[TopWord]
      BY Constants DEF Values, TopWord
<1> QED BY <1>4, <1>5, <1>6

\* Row numbers wrap, events and frames stay below their bounds.
LEMMA ScalarStep == ASSUME Types, [Next]_vars PROVE ScalarTypes'
<1>0. ScalarTypes /\ ReadTypes /\ FrameTypesInv
      BY DEF Types
<1>1. CASE UNCHANGED vars
      BY <1>0, <1>1 DEF vars, cm0, mailbox, device, ghosts, ScalarTypes
<1>2. CASE \E f \in Freqs : Retune(f)
      BY <1>0, <1>2, Constants DEF Retune, Event, mailbox, device, ScalarTypes
<1>3. CASE PushChunk \/ PushRow
  <2>1. /\ cRow' = (cRow + 1) % RowMod /\ frames' = frames + 1 /\ frames < MaxFrames
        /\ UNCHANGED <<cUp, cEntry, cAnnounced, mailbox, device, events, marks>>
        BY <1>3 DEF PushChunk, PushRow, Push, Chunk, Row
  <2>2. cPublished' \in Freqs \cup {"none"}
        BY <1>0, <1>3 DEF PushChunk, PushRow, PublishedAfterChunk, ScalarTypes
  <2>3. (cRow + 1) % RowMod \in RowNumbers
        BY <1>0, Constants DEF ScalarTypes, RowNumbers
  <2> QED BY <1>0, <2>1, <2>2, <2>3, Constants DEF mailbox, device, ScalarTypes
<1>4. CASE Lands
      BY <1>0, <1>4 DEF Lands, device, ScalarTypes
<1>5. CASE \E m \in Messages : Verify(m)
      BY <1>0, <1>5, Constants DEF Verify, Event, mailbox, device, ScalarTypes
<1>6. CASE Doubt \/ ClearStore
  <2>1. /\ UNCHANGED <<cUp, cRow, cPublished, cEntry, wrSeq, dSeq, frames, marks>>
        /\ cAnnounced' = cAnnounced \/ cAnnounced' = "none"
        /\ clearing' = clearing \/ clearing' = FALSE
        /\ events' = events \/ (events < MaxEvents /\ events' = events + 1)
        BY <1>6 DEF Doubt, ClearStore, Event, mailbox, device
  <2>2. events' \in 0 .. MaxEvents
        BY <1>0, <2>1, Constants DEF ScalarTypes
  <2>3. cAnnounced' \in Texts \cup {"none"} /\ clearing' \in BOOLEAN
        BY <1>0, <2>1 DEF ScalarTypes
  <2> QED BY <1>0, <2>1, <2>2, <2>3 DEF ScalarTypes
<1>7. CASE Drop
  <2>1. 0 \in RowNumbers
        BY Constants DEF RowNumbers
  <2>2. /\ UNCHANGED <<cEntry, wrSeq, dSeq, frames, clearing>>
        /\ cUp' = FALSE /\ cRow' = 0 /\ cPublished' = "none"
        /\ cAnnounced' = cAnnounced \/ cAnnounced' = "none"
        /\ marks' = marks \cup {"restarted"}
        /\ events < MaxEvents /\ events' = events + 1
        BY <1>7 DEF Drop, Event, mailbox, device
  <2>3. events' \in 0 .. MaxEvents
        BY <1>0, <2>2, Constants DEF ScalarTypes
  <2>4. cAnnounced' \in Texts \cup {"none"} /\ marks' \subseteq Mark
        BY <1>0, <2>2 DEF ScalarTypes, Mark
  <2> QED BY <1>0, <2>1, <2>2, <2>3, <2>4 DEF ScalarTypes
<1>8. CASE Connect
      BY <1>0, <1>8 DEF Connect, mailbox, device, ScalarTypes
<1>9. CASE BeginRead \/ ReadNext \/ ReadFails \/ Clear \/ Reload
  <2>1. 0 \in RowNumbers
        BY Constants DEF RowNumbers
  <2>2. /\ UNCHANGED <<cUp, cRow, cPublished, cEntry, cAnnounced, wrSeq, frames, marks>>
        /\ clearing' = clearing \/ clearing' = TRUE
        /\ dSeq' = dSeq \/ dSeq' = 0
        /\ events' = events \/ (events < MaxEvents /\ events' = events + 1)
        BY <1>9 DEF BeginRead, ReadNext, ReadFails, Clear, Reload, Event, cm0, mailbox, ghosts
  <2>3. events' \in 0 .. MaxEvents
        BY <1>0, <2>2, Constants DEF ScalarTypes
  <2>4. clearing' \in BOOLEAN /\ dSeq' \in RowNumbers
        BY <1>0, <2>1, <2>2 DEF ScalarTypes
  <2> QED BY <1>0, <2>2, <2>3, <2>4 DEF ScalarTypes
<1>10. CASE TakeFrame
  <2>1. dRead[1] \in RowNumbers
        BY <1>0, <1>10, Constants DEF TakeFrame, ReadTypes
  <2>2. /\ dSeq' = dRead[1] /\ marks' \subseteq marks \cup {"torn", "early", "headless"}
        /\ UNCHANGED <<cm0, mailbox, clearing, frames, events>>
        BY <1>10 DEF TakeFrame
  <2> QED BY <1>0, <2>1, <2>2 DEF cm0, mailbox, ScalarTypes, Mark
<1> QED BY <1>1, <1>2, <1>3, <1>4, <1>5, <1>6, <1>7, <1>8, <1>9, <1>10 DEF Next

\* A read is a row number and then frames, no more than there are signals.
LEMMA ReadStep == ASSUME Types, [Next]_vars PROVE ReadTypes'
<1>0. ReadTypes /\ wrSeq \in RowNumbers /\ wr \in [Signals -> Known]
      BY DEF Types, ScalarTypes, FrameTypesInv
<1>1. CASE dRead' = dRead
      BY <1>0, <1>1 DEF ReadTypes
<1>2. CASE BeginRead
  <2> DEFINE T == RowNumbers \cup Known
  <2>1. dRead' = <<wrSeq>> /\ wrSeq \in T
        BY <1>0, <1>2 DEF BeginRead
  <2> HIDE DEF T
  <2>2. <<wrSeq>> \in Seq(T) /\ Len(<<wrSeq>>) = 1 /\ DOMAIN <<wrSeq>> = {1} /\ <<wrSeq>>[1] = wrSeq
        BY <2>1
  <2> QED BY <1>0, <2>1, <2>2, Constants DEF ReadTypes, T
<1>3. CASE ReadNext
  <2> DEFINE n == Len(dRead)
             T == RowNumbers \cup Known
             d == Append(dRead, wr[n])
  <2>1. n \in 1 .. Words + 1 /\ dRead' = d
        BY <1>3 DEF ReadNext
  <2>2. wr[n] \in Known /\ n \in Nat /\ n + 1 <= Words + 2
        BY <1>0, <2>1, Constants DEF TopWord
  <2>a. dRead \in Seq(T) /\ wr[n] \in T
        BY <1>0, <2>2 DEF ReadTypes
  <2> HIDE DEF T
  <2>3. /\ d \in Seq(T) /\ Len(d) = n + 1 /\ d[n + 1] = wr[n]
        /\ \A k \in 1 .. n : d[k] = dRead[k]
        BY <2>a, AppendProperties
  <2>4. DOMAIN d = 1 .. n + 1 /\ DOMAIN dRead = 1 .. n
        BY <2>3, <2>a
  <2> HIDE DEF d, n
  <2>5. ASSUME NEW k \in DOMAIN d
        PROVE  IF k = 1 THEN d[k] \in RowNumbers ELSE d[k] \in Known
    <3>1. CASE k = n + 1
          BY <2>1, <2>2, <2>3, <3>1, Constants
    <3>2. CASE k \in 1 .. n
          BY <1>0, <2>3, <2>4, <3>2 DEF ReadTypes
    <3> QED BY <2>2, <2>4, <3>1, <3>2
  <2> QED BY <2>1, <2>2, <2>3, <2>5 DEF ReadTypes, T
<1>4. CASE dRead' = <<>>
      BY <1>4, Constants DEF ReadTypes
<1>5. CASE UNCHANGED vars
      BY <1>1, <1>5 DEF vars, device
<1>6. CASE Next /\ ~BeginRead /\ ~ReadNext
  <2>1. dRead' = dRead \/ dRead' = <<>>
        BY <1>6 DEF Next, Retune, PushChunk, PushRow, Push, Lands, Verify, Doubt, ClearStore, Drop,
              Connect, ReadFails, TakeFrame, Clear, Reload, device
  <2> QED BY <1>1, <1>4, <2>1
<1> QED BY <1>2, <1>3, <1>5, <1>6

\* What is queued, published, held and shown stays frames.
LEMMA FrameStep == ASSUME Types, [Next]_vars PROVE FrameTypesInv'
<1>0. ScalarTypes /\ FrameTypesInv /\ stored \in Seq(Messages)
      BY DEF Types, StoreTypes
<1>1. CASE UNCHANGED vars
      BY <1>0, <1>1 DEF vars, cm0, mailbox, ghosts, FrameTypesInv
<1>2. CASE \/ \E f \in Freqs : Retune(f)
           \/ Doubt \/ ClearStore
           \/ BeginRead \/ ReadNext \/ ReadFails \/ Clear \/ Reload
      BY <1>0, <1>2 DEF Retune, Doubt, ClearStore, BeginRead, ReadNext, ReadFails, Clear, Reload,
            cm0, mailbox, ghosts, FrameTypesInv
<1>3. CASE PushRow
  <2> DEFINE frame == Row(cEntry, frames + 1)
  <2>1. /\ cBatch' = Committing(TuningSets \o SetAll(RowOrder, frame), frame)
        /\ awaited' = awaited \cup {frame}
        /\ UNCHANGED <<cQueue, mailbox, sent, shown>>
        BY <1>3 DEF PushRow, Push
  <2>2. frame \in Known
        BY <1>0, KnownFrames, Constants DEF ScalarTypes
  <2> HIDE DEF frame
  <2>3. cBatch' \in Seq(KnownSets)
        BY <2>1, <2>2, PushedBatch DEF Marked
  <2> QED BY <1>0, <2>1, <2>2, <2>3 DEF mailbox, FrameTypesInv
<1>4. CASE PushChunk
  <2> DEFINE c == Head(cQueue)
             frame == Chunk(c.kind, c.what, c.index, frames + 1)
  <2>1. /\ cBatch' = Committing(TuningSets \o SetAll(<<FreqSignal, SpanSignal>> \o RowOrder, frame),
                                frame)
        /\ awaited' = awaited \cup {frame}
        /\ cQueue' = Tail(cQueue) /\ cQueue # <<>>
        /\ UNCHANGED <<mailbox, sent, shown>>
        BY <1>4 DEF PushChunk, Push
  <2>2. c \in ChunkFrames /\ Tail(cQueue) \in Seq(ChunkFrames)
        BY <1>0, <2>1, HeadTailProperties DEF FrameTypesInv
  <2>3. frame \in Known
    <3>1. frames + 1 \in Nat
          BY <1>0, Constants DEF ScalarTypes
    <3> QED BY <2>2, <3>1, KnownFrames
  <2> HIDE DEF frame, c
  <2>4. cBatch' \in Seq(KnownSets)
        BY <2>1, <2>3, PushedBatch DEF Marked
  <2> QED BY <1>0, <2>1, <2>2, <2>3, <2>4 DEF mailbox, FrameTypesInv
<1>5. CASE Lands
  <2>1. cBatch \in Seq(KnownSets) /\ cBatch # <<>>
        BY <1>0, <1>5 DEF Lands, FrameTypesInv
  <2>2. Head(cBatch) \in KnownSets /\ Tail(cBatch) \in Seq(KnownSets)
        BY <2>1, HeadTailProperties
  <2>3. Head(cBatch).frame \in Known /\ Head(cBatch).signal \in 0 .. Words + 2
        BY <2>2 DEF KnownSets
  <2>4. Head(cBatch).signal # Commit => Head(cBatch).signal \in Signals
        BY <2>3, Constants DEF Commit, TopWord
  <2>5. /\ cBatch' = Tail(cBatch) /\ UNCHANGED <<cQueue, shown, awaited>>
        /\ \/ wr' = wr /\ sent' = Head(cBatch).frame
           \/ /\ wr' = [wr EXCEPT ![Head(cBatch).signal] = Head(cBatch).frame] /\ sent' = sent
              /\ Head(cBatch).signal # Commit
        BY <1>5 DEF Lands
  <2>6. wr' \in [Signals -> Known] /\ sent' \in Known
        BY <1>0, <2>3, <2>4, <2>5 DEF FrameTypesInv
  <2> QED BY <1>0, <2>2, <2>5, <2>6 DEF FrameTypesInv
<1>6. CASE \E m \in Messages : Verify(m)
  <2>1. PICK m \in Messages : Verify(m)
        BY <1>6
  <2>2. QueueAfterShow(m) \in Seq(ChunkFrames)
        BY ChunksFacts DEF QueueAfterShow
  <2> QED BY <1>0, <2>1, <2>2 DEF Verify, mailbox, FrameTypesInv
<1>7. CASE Drop
      BY <1>0, <1>7 DEF Drop, mailbox, FrameTypesInv
<1>8. CASE Connect
  <2>1. Replay \in Seq(ChunkFrames)
        BY ReplayFacts
  <2>2. SetTuning(cEntry) \in Seq(KnownSets)
    <3>1. /\ SetTuning(cEntry) \in Seq(Sets) /\ Len(SetTuning(cEntry)) = 2
          /\ \A k \in 1 .. 2 : SetTuning(cEntry)[k] = [signal |-> k, frame |-> Tuning(cEntry)]
          BY <1>0, SetOrders DEF ScalarTypes
    <3>2. \A k \in 1 .. 2 : [signal |-> k, frame |-> Tuning(cEntry)] \in KnownSets
          BY <1>0, KnownFrames, Constants DEF ScalarTypes, KnownSets
    <3> DEFINE b == SetTuning(cEntry)
    <3> HIDE DEF b
    <3>3. b = [k \in 1 .. 2 |-> b[k]] /\ \A k \in 1 .. 2 : b[k] \in KnownSets
          BY <3>1, <3>2 DEF b
    <3>4. b \in Seq(KnownSets)
          BY <3>3
    <3> QED BY <3>4 DEF b
  <2> QED BY <1>0, <1>8, <2>1, <2>2 DEF Connect, mailbox, FrameTypesInv
<1>9. CASE TakeFrame
  <2>1. shown' \in [Signals -> Known]
        BY <1>9, TakenTypes
  <2>2. UNCHANGED <<cm0, mailbox, sent>> /\ awaited' \subseteq awaited
        BY <1>9 DEF TakeFrame
  <2> QED BY <1>0, <2>1, <2>2 DEF cm0, mailbox, FrameTypesInv
<1> QED BY <1>1, <1>2, <1>3, <1>4, <1>5, <1>6, <1>7, <1>8, <1>9 DEF Next

\* Excusing leaves what is not due, and what is not among the messages.
LEMMA ExcuseFacts ==
    ASSUME fate \in [Messages -> Fate], NEW ms
    PROVE  /\ Excuse(ms) \in [Messages -> Fate]
           /\ \A m \in Messages : \/ Excuse(ms)[m] = fate[m]
                                  \/ fate[m] = "due" /\ Excuse(ms)[m] = "excused"
           /\ \A m \in Messages : Excuse(ms)[m] = "due" => m \notin ms /\ fate[m] = "due"
<1> DEFINE e == Excuse(ms)
<1>1. e = [m \in Messages |-> IF m \in ms /\ fate[m] = "due" THEN "excused" ELSE fate[m]]
      BY DEF Excuse
<1>2. \A m \in Messages : fate[m] \in Fate
      OBVIOUS
<1> HIDE DEF e
<1>3. \A m \in Messages : e[m] = IF m \in ms /\ fate[m] = "due" THEN "excused" ELSE fate[m]
      BY <1>1
<1>4. \A m \in Messages : e[m] \in Fate
      BY <1>2, <1>3 DEF Fate
<1> QED BY <1>1, <1>3, <1>4 DEF e

\* What a step makes of the stored messages and their fates: it excuses some, or
\* it verifies, doubts, clears or replays.
Excusing == stored' = stored /\ (fate' = fate \/ \E ms : fate' = Excuse(ms))

\* Every step excuses some messages, or is one of four.
LEMMA StoreSteps ==
    ASSUME [Next]_vars
    PROVE  \/ Excusing \/ (\E m \in Messages : Verify(m)) \/ Doubt \/ ClearStore \/ Connect
<1>1. CASE UNCHANGED vars
      BY <1>1 DEF vars, cm0, ghosts, Excusing
<1>2. CASE \/ \E f \in Freqs : Retune(f)
           \/ PushChunk \/ PushRow \/ Lands \/ Drop
           \/ BeginRead \/ ReadNext \/ ReadFails
      BY <1>2 DEF Retune, PushChunk, PushRow, Push, Lands, Drop, BeginRead, ReadNext, ReadFails,
            cm0, ghosts, Excusing
<1>3. CASE TakeFrame \/ Clear \/ Reload
  <2>1. stored' = stored
        BY <1>3 DEF TakeFrame, Clear, Reload, cm0
  <2>2. \E ms : fate' = Excuse(ms)
    <3>1. CASE TakeFrame
          BY <3>1 DEF TakeFrame
    <3>2. CASE Clear \/ Reload
          BY <3>2 DEF Clear, Reload
    <3> QED BY <1>3, <3>1, <3>2
  <2> QED BY <2>1, <2>2 DEF Excusing
<1> QED BY <1>1, <1>2, <1>3 DEF Next

\* A verification: the records after it, and who is due or excused.
LEMMA VerifyFacts ==
    ASSUME StoreTypes, NEW m \in Messages, Verify(m)
    PROVE  /\ StoreTypes'
           /\ m \in ToSet(stored') /\ ToSet(stored') \subseteq ToSet(stored) \cup {m}
           /\ \A x \in Messages : x # m /\ fate'[x] = "due" =>
                 fate[x] = "due" /\ (cQueue' = cQueue \/ x \notin Unsent)
           /\ fate'[m] = "due" => \/ cQueue' = QueueAfterShow(m) /\ cUp
                                  \/ cQueue' = cQueue /\ fate[m] = "due" /\ m \in ToSet(stored)
           /\ fate'[m] # "unheard"
           /\ \A x \in Messages : x # m => (fate'[x] = "unheard" <=> fate[x] = "unheard")
<1>0. /\ stored \in Seq(Messages) /\ NoTwice(stored) /\ fate \in [Messages -> Fate]
      /\ \A x \in ToSet(stored) : x \in Messages /\ fate[x] \in {"due", "excused"}
      BY DEF StoreTypes, ToSet
<1>1. PICK merged : stored' = RecordsAfter(m, merged)
      BY DEF Verify
<1>2. /\ stored' \in Seq(Messages) /\ NoTwice(stored')
      /\ ToSet(stored') \subseteq ToSet(stored) \cup {m} /\ m \in ToSet(stored')
      BY <1>0, <1>1, VerifiedRecords
<1>3. /\ fate' \in [Messages -> Fate]
      /\ fate'[m] \in {"due", "excused"}
      /\ \A x \in Messages : x # m =>
            \/ fate'[x] = fate[x]
            \/ fate[x] = "due" /\ fate'[x] = "excused"
      /\ \A x \in Messages : x # m /\ fate'[x] = "due" =>
                 fate[x] = "due" /\ (cQueue' = cQueue \/ x \notin Unsent)
      /\ fate'[m] = "due" => \/ cQueue' = QueueAfterShow(m) /\ cUp
                             \/ cQueue' = cQueue /\ fate[m] = "due" /\ m \in ToSet(stored)
  <2>1. CASE cUp /\ cQueue' = QueueAfterShow(m) /\ fate' = [Excuse(Unsent) EXCEPT ![m] = "due"]
    <3> DEFINE e == Excuse(Unsent)
    <3>1. /\ e \in [Messages -> Fate]
          /\ \A x \in Messages : \/ e[x] = fate[x]
                                 \/ fate[x] = "due" /\ e[x] = "excused"
          /\ \A x \in Messages : e[x] = "due" => x \notin Unsent /\ fate[x] = "due"
          BY <1>0, ExcuseFacts
    <3> HIDE DEF e
    <3>2. fate' = [e EXCEPT ![m] = "due"]
          BY <2>1 DEF e
    <3>3. /\ fate' \in [Messages -> Fate] /\ fate'[m] = "due"
          /\ \A x \in Messages : x # m => fate'[x] = e[x]
          BY <3>1, <3>2 DEF Fate
    <3> QED BY <2>1, <3>1, <3>3
  <2>2. CASE /\ cQueue' = cQueue
             /\ fate' = [fate EXCEPT ![m] = IF m \in ToSet(stored) THEN @ ELSE "excused"]
    <3>1. /\ fate' \in [Messages -> Fate]
          /\ fate'[m] = IF m \in ToSet(stored) THEN fate[m] ELSE "excused"
          /\ \A x \in Messages : x # m => fate'[x] = fate[x]
          BY <1>0, <2>2 DEF Fate
    <3> QED BY <1>0, <2>2, <3>1
  <2>3. \/ cUp /\ cQueue' = QueueAfterShow(m) /\ fate' = [Excuse(Unsent) EXCEPT ![m] = "due"]
        \/ /\ cQueue' = cQueue
           /\ fate' = [fate EXCEPT ![m] = IF m \in ToSet(stored) THEN @ ELSE "excused"]
        BY DEF Verify
  <2> QED BY <2>1, <2>2, <2>3
<1>4. ASSUME NEW x \in ToSet(stored') PROVE fate'[x] \in {"due", "excused"}
  <2>1. CASE x = m
        BY <1>3, <2>1
  <2>2. CASE x # m
        BY <1>0, <1>2, <1>3, <2>2
  <2> QED BY <2>1, <2>2
<1>5. StoreTypes'
      BY <1>2, <1>3, <1>4 DEF StoreTypes, NoTwice, ToSet
<1> QED BY <1>2, <1>3, <1>5

\* No record is stored twice, and all that are stored are due or excused.
LEMMA StoreStep == ASSUME Types, [Next]_vars PROVE StoreTypes'
<1>0. /\ stored \in Seq(Messages) /\ NoTwice(stored) /\ fate \in [Messages -> Fate]
      /\ \A k \in DOMAIN stored : stored[k] \in Messages /\ fate[stored[k]] \in {"due", "excused"}
      BY DEF Types, StoreTypes
<1>1. CASE Excusing
  <2>1. /\ fate' \in [Messages -> Fate]
        /\ \A m \in Messages : fate'[m] = fate[m] \/ (fate[m] = "due" /\ fate'[m] = "excused")
    <3>1. CASE fate' = fate
          BY <1>0, <3>1
    <3>2. CASE \E ms : fate' = Excuse(ms)
          BY <1>0, <3>2, ExcuseFacts
    <3> QED BY <1>1, <3>1, <3>2 DEF Excusing
  <2> QED BY <1>0, <1>1, <2>1 DEF Excusing, StoreTypes, NoTwice
<1>2. CASE \E m \in Messages : Verify(m)
      BY <1>2, VerifyFacts DEF Types
<1>3. CASE Doubt
  <2>1. PICK m : /\ stored' = Picked(stored, {k \in DOMAIN stored : stored[k] # m})
                 /\ fate' = Excuse({m})
        BY <1>3 DEF Doubt
  <2>2. /\ fate' \in [Messages -> Fate]
        /\ \A x \in Messages : fate'[x] = fate[x] \/ (fate[x] = "due" /\ fate'[x] = "excused")
        BY <1>0, <2>1, ExcuseFacts
  <2> DEFINE I == {k \in DOMAIN stored : stored[k] # m}
  <2>3. I \subseteq DOMAIN stored
        OBVIOUS
  <2> HIDE DEF I
  <2>4. /\ stored' \in Seq(Messages) /\ NoTwice(stored')
        /\ \A k \in DOMAIN stored' : \E i \in I : stored'[k] = stored[i]
        BY <1>0, <2>1, <2>3, KeptRecords DEF I
  <2>5. \A k \in DOMAIN stored' : fate'[stored'[k]] \in {"due", "excused"}
        BY <1>0, <2>2, <2>3, <2>4
  <2> QED BY <2>2, <2>4, <2>5 DEF StoreTypes, NoTwice
<1>4. CASE ClearStore
  <2>1. /\ stored' = <<>>
        /\ fate' = [m \in Messages |-> IF m \in ToSet(stored) THEN "cleared" ELSE fate[m]]
        BY <1>4 DEF ClearStore
  <2>2. fate' \in [Messages -> Fate]
        BY <1>0, <2>1 DEF Fate
  <2> QED BY <2>1, <2>2 DEF StoreTypes, NoTwice
<1>5. CASE Connect
  <2>1. /\ stored' = stored
        /\ fate' = [m \in Messages |-> IF m \in ToSet(stored) THEN "due" ELSE fate[m]]
        BY <1>5 DEF Connect
  <2>2. fate' \in [Messages -> Fate] /\ \A k \in DOMAIN stored : fate'[stored[k]] = "due"
        BY <1>0, <2>1 DEF Fate, ToSet
  <2> QED BY <1>0, <2>1, <2>2 DEF StoreTypes, NoTwice
<1> QED BY <1>1, <1>2, <1>3, <1>4, <1>5, StoreSteps

-----------------------------------------------------------------------------

\* The words of the frame read.
WordsRead(values) == [w \in 1 .. Words |-> Content(values[w + 2])]

\* A frame taken as a chunk is one of a message; it is staged with the words read, and
\* remembered when it completes one.
LEMMA TakenChunk ==
    ASSUME Types, TakeFrame
    PROVE  \/ /\ ~(IsChunk(Values[SpanSignal]) /\ IsChunk(Values[FreqSignal]))
              /\ UNCHANGED <<staging, history>>
           \/ /\ IsChunk(Values[SpanSignal]) /\ Values[FreqSignal] \in ChunkFrames
              /\ staging' = Staged(Values[FreqSignal], WordsRead(Values))
              /\ \/ Complete(staging') /\ history' = Remembered(staging'.got)
                 \/ history' = history /\ ~(Complete(staging') /\ InBand(staging'.got))
<1> DEFINE V == Values
<1>1. V \in [Signals -> Known] /\ Take(V)
      BY TakenTypes
<1>2. V[FreqSignal] \in Known
      BY <1>1, Constants
<1> HIDE DEF V
<1>3. IsChunk(V[FreqSignal]) => V[FreqSignal] \in ChunkFrames
      BY <1>2 DEF Known
<1>4. \/ /\ ~(IsChunk(V[SpanSignal]) /\ IsChunk(V[FreqSignal]))
         /\ UNCHANGED <<staging, history>>
      \/ /\ IsChunk(V[SpanSignal]) /\ IsChunk(V[FreqSignal])
         /\ staging' = Staged(V[FreqSignal], WordsRead(V))
         /\ \/ history' = IF Complete(staging') THEN Remembered(staging'.got) ELSE history
            \/ Complete(staging') /\ ~InBand(staging'.got) /\ history' = history
      BY <1>1 DEF Take, WordsRead
<1> QED BY <1>3, <1>4 DEF V

\* The staging buffer and the history stay within their lengths.
LEMMA StagingStep == ASSUME Types, [Next]_vars PROVE StagingTypes'
<1>0. StagingTypes
      BY DEF Types
<1>1. CASE TakeFrame
  <2>1. CASE UNCHANGED <<staging, history>>
        BY <1>0, <2>1 DEF StagingTypes
  <2>2. CASE /\ Values[FreqSignal] \in ChunkFrames
             /\ staging' = Staged(Values[FreqSignal], WordsRead(Values))
             /\ history' = history \/ history' = Remembered(staging'.got)
    <3>1. staging'.length \in Nat /\ \A i \in DOMAIN staging'.got : i \in Nat /\ i < staging'.length
          BY <1>0, <2>2, StagedFacts
    <3>2. (\E S : history' \in Seq(S)) /\ Len(history') <= HistoryMax
      <4>1. CASE history' = history
            BY <1>0, <4>1 DEF StagingTypes
      <4>2. CASE history' = Remembered(staging'.got)
            BY <1>0, <4>2, RememberedFacts
      <4> QED BY <2>2, <4>1, <4>2
    <3> QED BY <3>1, <3>2 DEF StagingTypes
  <2> QED BY <1>1, <2>1, <2>2, TakenChunk
<1>2. CASE Clear \/ Reload
  <2>1. history' = <<>> /\ (staging' = staging \/ staging' = EmptyStaging)
        BY <1>2 DEF Clear, Reload
  <2>2. (\E S : history' \in Seq(S)) /\ Len(history') <= HistoryMax
        BY <2>1, Constants
  <2>3. staging'.length \in Nat /\ \A i \in DOMAIN staging'.got : i \in Nat /\ i < staging'.length
        BY <1>0, <2>1 DEF StagingTypes, EmptyStaging
  <2> QED BY <2>2, <2>3 DEF StagingTypes
<1>3. CASE UNCHANGED <<staging, history>>
      BY <1>0, <1>3 DEF StagingTypes
<1>4. TakeFrame \/ Clear \/ Reload \/ UNCHANGED <<staging, history>>
      BY DEF Next, vars, Retune, PushChunk, PushRow, Push, Lands, Verify, Doubt, ClearStore,
             Drop, Connect, BeginRead, ReadNext, ReadFails, device
<1> QED BY <1>1, <1>2, <1>3, <1>4

\* Initially there is no frame and no message.
LEMMA TypesInit == Init => Types
<1> SUFFICES ASSUME Init PROVE Types
    OBVIOUS
<1>1. ScalarTypes
  <2>1. /\ cUp = TRUE /\ cRow = 0 /\ cEntry \in Freqs /\ cPublished = cEntry /\ cAnnounced = "none"
        /\ wrSeq = 0 /\ dSeq = 0 /\ clearing = FALSE /\ frames = 0 /\ events = 0 /\ marks = {}
        BY DEF Init
  <2>2. 0 \in RowNumbers /\ 0 \in 0 .. MaxFrames /\ 0 \in 0 .. MaxEvents
        BY Constants DEF RowNumbers
  <2> QED BY <2>1, <2>2 DEF ScalarTypes
<1>2. ReadTypes
  <2>1. dRead = <<>>
        BY DEF Init
  <2> QED BY <2>1, Constants DEF ReadTypes
<1>3. FrameTypesInv
  <2>1. cQueue = <<>> /\ cBatch = <<>> /\ sent = Nothing /\ awaited = {} /\ shown = wr
        BY DEF Init
  <2>2. wr \in [Signals -> Known]
    <3>1. /\ cEntry \in Freqs
          /\ wr = [g \in Signals |-> IF g \in RowSignals THEN Nothing ELSE Tuning(cEntry)]
          BY DEF Init
    <3>2. Nothing \in Known /\ Tuning(cEntry) \in Known
          BY <3>1, KnownFrames
    <3> QED BY <3>1, <3>2
  <2>3. sent \in Known
        BY <2>1, KnownFrames
  <2> QED BY <2>1, <2>2, <2>3 DEF FrameTypesInv
<1>4. StoreTypes
      BY DEF Init, StoreTypes, NoTwice, Fate
<1>5. StagingTypes
  <2>1. staging = EmptyStaging /\ history = <<>>
        BY DEF Init
  <2> QED BY <2>1, Constants DEF StagingTypes, EmptyStaging
<1> QED BY <1>1, <1>2, <1>3, <1>4, <1>5 DEF Types

\* Every state has these types, also after the adapter was replaced.
LEMMA TypesAlways == Spec => []Types
<1>1. Types /\ [Next]_vars => Types'
      BY ScalarStep, ReadStep, FrameStep, StoreStep, StagingStep DEF Types
<1> QED BY <1>1, TypesInit, PTL DEF Spec

\* The types are at least those of TypeOK.
LEMMA TypesSay == ASSUME Types PROVE TypeOK
<1>1. Signals = 1 .. Words + 2 /\ Commit = 0
      BY Constants DEF TopWord, Commit
<1>2. \A k \in DOMAIN cQueue : IsChunk(cQueue[k]) /\ cQueue[k].what \in Messages
  <2>1. \A k \in DOMAIN cQueue : cQueue[k] \in ChunkFrames
        BY DEF Types, FrameTypesInv
  <2> QED BY <2>1, KnownFrames
<1>3. \A k \in DOMAIN cBatch : cBatch[k].signal \in Signals \cup {Commit}
  <2>1. \A k \in DOMAIN cBatch : cBatch[k] \in KnownSets
        BY DEF Types, FrameTypesInv
  <2>2. \A k \in DOMAIN cBatch : cBatch[k].signal \in 0 .. Words + 2
        BY <2>1 DEF KnownSets
  <2> QED BY <1>1, <2>2, Constants
<1>4. Cardinality(ToSet(stored)) = Len(stored)
      BY Counted DEF Types, StoreTypes
<1>5. \A m \in ToSet(stored) : fate[m] \in {"due", "excused"}
      BY DEF Types, StoreTypes, ToSet
<1>6. DOMAIN wr = Signals
      BY DEF Types, FrameTypesInv
<1> QED BY <1>2, <1>3, <1>4, <1>5, <1>6 DEF Types, ScalarTypes, ReadTypes, StoreTypes, StagingTypes,
         RowNumbers, TypeOK

\* Every state has the types of TypeOK: no row number, queue, batch, record or
\* history outgrows what the code provides for it.
THEOREM TypeCorrect == Spec => []TypeOK
<1>1. Types => TypeOK
      BY TypesSay
<1> QED BY <1>1, TypesAlways, PTL

-----------------------------------------------------------------------------
(* Frames are told apart by their numbers *)

\* The frames that exist: awaited, in the mailbox, shown, or being published.
BatchFrames ==
    {cBatch[k].frame : k \in {k \in DOMAIN cBatch : cBatch[k].signal \in {Commit, TopWord}}}
Published == awaited \cup {sent, Latest, wr[TopWord]} \cup BatchFrames

NumberInv ==
    /\ \A x \in Published : x.id <= frames
    /\ \A x, y \in Published : x.id = y.id => x = y
    /\ \A x \in awaited : x.id > Latest.id
    /\ Latest.id <= wr[TopWord].id
    /\ sent.id > Latest.id => sent \in awaited
    /\ \A x \in BatchFrames : x.id = frames /\ (frames > Latest.id => x \in awaited)

\* Frames and messages are numbered by naturals.
LEMMA PublishedTypes ==
    ASSUME Types
    PROVE  /\ Published \subseteq Known /\ BatchFrames \subseteq Known
           /\ Latest \in Known /\ wr[TopWord] \in Known /\ sent \in Known /\ awaited \subseteq Known
           /\ \A x \in Published : x.id \in Nat
           /\ frames \in Nat
           /\ cQueue \in Seq(ChunkFrames) /\ cBatch \in Seq(KnownSets)
<1>1. /\ wr \in [Signals -> Known] /\ shown \in [Signals -> Known]
      /\ sent \in Known /\ awaited \subseteq Known /\ cBatch \in Seq(KnownSets)
      /\ cQueue \in Seq(ChunkFrames)
      BY DEF Types, FrameTypesInv
<1>2. Latest \in Known /\ wr[TopWord] \in Known
      BY <1>1, Constants DEF Latest
<1>3. ASSUME NEW x \in BatchFrames PROVE x \in Known
  <2>1. PICK k \in DOMAIN cBatch : x = cBatch[k].frame
        BY DEF BatchFrames
  <2>2. cBatch[k] \in KnownSets
        BY <1>1
  <2> QED BY <2>1, <2>2 DEF KnownSets
<1>4. Published \subseteq Known
      BY <1>1, <1>2, <1>3 DEF Published
<1>5. frames \in Nat
      BY Constants DEF Types, ScalarTypes
<1> QED BY <1>1, <1>2, <1>3, <1>4, <1>5, KnownFrames

\* Which steps move frames.
LEMMA FeedSteps ==
    ASSUME [Next]_vars
    PROVE  \/ PushChunk \/ PushRow \/ Lands \/ Drop \/ Connect \/ TakeFrame
           \/ UNCHANGED <<cBatch, wr, frames, awaited, sent, shown>>
BY DEF Next, vars, Retune, Verify, Doubt, ClearStore, BeginRead, ReadNext, ReadFails, Clear, Reload,
       cm0, mailbox, ghosts

\* A push publishes one frame, with the next number; a queued chunk keeps its kind,
\* message and index.
LEMMA PushFacts ==
    ASSUME Types, PushChunk \/ PushRow
    PROVE  \E frame \in Known :
              /\ frame.id = frames + 1 /\ frames' = frames + 1
              /\ awaited' = awaited \cup {frame}
              /\ cBatch = <<>> /\ BatchFrames = {} /\ BatchFrames' \subseteq {frame}
              /\ UNCHANGED <<wr, sent, shown, staging, history, stored, fate, marks, cUp>>
              /\ \/ /\ cQueue = <<>> /\ cQueue' = <<>> /\ ~IsChunk(frame)
                 \/ /\ cQueue # <<>> /\ cQueue' = Tail(cQueue)
                    /\ IsChunk(frame) /\ frame.what = cQueue[1].what
                    /\ frame.index = cQueue[1].index
<1>0. frames + 1 \in Nat /\ cEntry \in Freqs /\ cQueue \in Seq(ChunkFrames)
      BY Constants DEF Types, ScalarTypes, FrameTypesInv
<1>1. cBatch = <<>> /\ BatchFrames = {}
      BY DEF PushChunk, PushRow, Between, BatchFrames
<1>2. ASSUME NEW frame \in Known, NEW r,
             cBatch' = Committing(TuningSets \o r, frame),
             \/ r = SetAll(RowOrder, frame)
             \/ r = SetAll(<<FreqSignal, SpanSignal>> \o RowOrder, frame)
      PROVE  BatchFrames' \subseteq {frame}
  <2>1. Marked(cBatch', frame)
        BY <1>2, PushedBatch
  <2> QED BY <2>1 DEF Marked, BatchFrames
<1>3. CASE PushRow
  <2> DEFINE frame == Row(cEntry, frames + 1)
  <2>1. /\ cBatch' = Committing(TuningSets \o SetAll(RowOrder, frame), frame)
        /\ awaited' = awaited \cup {frame} /\ frames' = frame.id
        /\ UNCHANGED <<wr, sent, shown, staging, history, stored, fate, marks, cUp>>
        /\ cQueue = <<>> /\ cQueue' = <<>>
        BY <1>3 DEF PushRow, Push, mailbox, device
  <2>2. frame \in Known /\ ~IsChunk(frame) /\ frame.id = frames + 1
        BY <1>0, KnownFrames DEF Row
  <2> HIDE DEF frame
  <2>3. BatchFrames' \subseteq {frame}
        BY <1>2, <2>1, <2>2
  <2> QED BY <1>1, <2>1, <2>2, <2>3
<1>4. CASE PushChunk
  <2> DEFINE c == Head(cQueue)
             frame == Chunk(c.kind, c.what, c.index, frames + 1)
  <2>1. /\ cBatch' = Committing(TuningSets \o SetAll(<<FreqSignal, SpanSignal>> \o RowOrder, frame),
                                frame)
        /\ awaited' = awaited \cup {frame} /\ frames' = frame.id
        /\ UNCHANGED <<wr, sent, shown, staging, history, stored, fate, marks, cUp>>
        /\ cQueue # <<>> /\ cQueue' = Tail(cQueue)
        BY <1>4 DEF PushChunk, Push, mailbox, device
  <2>2. c \in ChunkFrames /\ c = cQueue[1]
        BY <1>0, <2>1, HeadTailProperties
  <2>3. /\ frame \in Known /\ IsChunk(frame)
        /\ frame.id = frames + 1 /\ frame.what = c.what /\ frame.index = c.index
        BY <1>0, <2>2, KnownFrames DEF Chunk
  <2> HIDE DEF frame, c
  <2>4. BatchFrames' \subseteq {frame}
        BY <1>2, <2>1, <2>3
  <2> QED BY <1>1, <2>1, <2>2, <2>3, <2>4
<1> QED BY <1>3, <1>4

\* The frame taken is the one whose last word is in the mailbox.
LEMMA TakeFacts ==
    ASSUME Types, TakeFrame
    PROVE  LET f == wr[TopWord]
           IN  /\ Latest' = f /\ wr' = wr
               /\ awaited' = {x \in awaited : x.id > f.id}
               /\ UNCHANGED <<cm0, sent, frames>>
               /\ marks \subseteq marks'
               /\ "torn" \in marks' \/ \E x \in awaited \cup {sent} : Values = Whole(x)
               /\ "headless" \in marks' \/
                     \A x \in awaited : x.id < f.id /\ IsChunk(x) => x.index # 0
               /\ fate' = Excuse({x.what : x \in {x \in Skipped(f.id) : IsChunk(x)}})
<1> DEFINE V == Values
           n == V[Words + 2].id
<1>1. shown' = V /\ V[TopWord] = wr[TopWord]
      BY TakenTypes
<1>2. V[Words + 2] = wr[TopWord]
      BY <1>1 DEF TopWord
<1>3. /\ awaited' = {x \in awaited : x.id > n}
      /\ fate' = Excuse({x.what : x \in {x \in Skipped(n) : IsChunk(x)}})
      /\ marks' = marks \cup (IF \A x \in awaited \cup {sent} : V # Whole(x) THEN {"torn"} ELSE {})
                        \cup (IF n # dRead[1] THEN {"early"} ELSE {})
                        \cup (IF \E x \in Skipped(n) : IsChunk(x) /\ x.index = 0
                              THEN {"headless"} ELSE {})
      /\ UNCHANGED <<cm0, mailbox, sent, frames>>
      BY DEF TakeFrame, Values
<1> HIDE DEF V
<1>4. "torn" \in marks' \/ \E x \in awaited \cup {sent} : V = Whole(x)
      BY <1>3
<1>5. "headless" \in marks' \/ \A x \in awaited : x.id < n /\ IsChunk(x) => x.index # 0
      BY <1>3 DEF Skipped
<1>6. marks \subseteq marks'
      BY <1>3
<1>7. wr' = wr
      BY <1>3 DEF mailbox
<1> QED BY <1>1, <1>2, <1>3, <1>4, <1>5, <1>6, <1>7 DEF V, Latest

\* Initially the only frame is that of an earlier life.
LEMMA NumbersInit == Init => NumberInv
<1> SUFFICES ASSUME Init PROVE NumberInv
    OBVIOUS
<1>1. wr[TopWord] = Nothing /\ Latest = Nothing /\ sent = Nothing /\ awaited = {} /\ frames = 0
  <2>1. wr[TopWord] = Nothing
        BY Constants DEF Init
  <2> QED BY <2>1 DEF Init, Latest
<1>2. BatchFrames = {}
      BY DEF Init, BatchFrames
<1> QED BY <1>1, <1>2 DEF NumberInv, Published, Nothing

\* A set that lands is of a frame being published.
LEMMA LandsFacts ==
    ASSUME Types, Lands
    PROVE  /\ sent' = sent \/ sent' \in BatchFrames
           /\ wr[TopWord]' = wr[TopWord] \/ wr[TopWord]' \in BatchFrames
<1>1. cBatch \in Seq(KnownSets) /\ cBatch # <<>>
      BY PublishedTypes DEF Lands
<1>2. Head(cBatch) = cBatch[1] /\ 1 \in DOMAIN cBatch
      BY <1>1, HeadTailProperties
<1>3. Head(cBatch).signal \in {Commit, TopWord} => Head(cBatch).frame \in BatchFrames
      BY <1>2 DEF BatchFrames
<1>4. sent' = sent \/ sent' \in BatchFrames
      BY <1>3 DEF Lands
<1>5. wr[TopWord]' = wr[TopWord] \/ wr[TopWord]' \in BatchFrames
  <2>1. wr \in [Signals -> Known] /\ TopWord \in Signals
        BY Constants DEF Types, FrameTypesInv
  <2>2. wr' = wr \/ wr' = [wr EXCEPT ![Head(cBatch).signal] = Head(cBatch).frame]
        BY DEF Lands
  <2>3. TopWord' = TopWord
        BY DEF TopWord
  <2> QED BY <1>3, <2>1, <2>2, <2>3
<1> QED BY <1>4, <1>5

\* Only a push publishes a frame.
LEMMA FewerFrames ==
    ASSUME Types,
           Lands \/ Drop \/ Connect \/ TakeFrame
             \/ UNCHANGED <<cBatch, wr, frames, awaited, sent, shown>>
    PROVE  /\ Published' \subseteq Published /\ frames' = frames
           /\ BatchFrames' \subseteq BatchFrames
<1>2. CASE Lands
  <2>1. cBatch \in Seq(KnownSets) /\ cBatch # <<>> /\ cBatch' = Tail(cBatch)
        BY <1>2, PublishedTypes DEF Lands
  <2>2. Head(cBatch) = cBatch[1] /\ 1 \in DOMAIN cBatch
        BY <2>1, HeadTailProperties
  <2>3. \A k \in DOMAIN cBatch' : k + 1 \in DOMAIN cBatch /\ cBatch'[k] = cBatch[k + 1]
        BY <2>1, HeadTailProperties
  <2>4. BatchFrames' \subseteq BatchFrames
        BY <2>3 DEF BatchFrames, TopWord
  <2>6. UNCHANGED <<frames, awaited, shown>>
        BY <1>2 DEF Lands
  <2>7. /\ sent' = sent \/ sent' \in BatchFrames
        /\ wr[TopWord]' = wr[TopWord] \/ wr[TopWord]' \in BatchFrames
        BY <1>2, LandsFacts
  <2>8. Latest' = Latest
        BY <2>6 DEF Latest, TopWord
  <2> QED BY <2>4, <2>6, <2>7, <2>8 DEF Published
<1>3. CASE Drop
  <2>1. /\ cBatch' = <<>> /\ awaited' \subseteq awaited
        /\ UNCHANGED <<wr, frames, sent, shown>>
        BY <1>3 DEF Drop, mailbox
  <2>2. BatchFrames' = {} /\ Latest' = Latest /\ wr[TopWord]' = wr[TopWord]
        BY <2>1 DEF BatchFrames, Latest, TopWord
  <2> QED BY <2>1, <2>2 DEF Published
<1>4. CASE Connect
  <2>1. /\ cBatch' = SetTuning(cEntry) /\ cEntry \in Freqs
        /\ UNCHANGED <<wr, frames, sent, shown, awaited>>
        BY <1>4 DEF Connect, mailbox, Types, ScalarTypes
  <2>2. BatchFrames' = {}
    <3>1. /\ cBatch' \in Seq(Sets) /\ Len(cBatch') = 2
          /\ \A k \in 1 .. 2 : cBatch'[k].signal = k
      <4> DEFINE b == SetTuning(cEntry)
      <4>1. /\ b \in Seq(Sets) /\ Len(b) = 2
            /\ \A k \in 1 .. 2 : b[k] = [signal |-> k, frame |-> Tuning(cEntry)]
            BY <2>1, SetOrders
      <4> HIDE DEF b
      <4>2. \A k \in 1 .. 2 : b[k].signal = k
            BY <4>1
      <4> QED BY <2>1, <4>1, <4>2 DEF b
    <3>2. \A k \in DOMAIN cBatch' : cBatch'[k].signal \in {1, 2}
          BY <3>1
    <3>3. Commit \notin {1, 2} /\ TopWord \notin {1, 2}
          BY Constants DEF Commit, TopWord
    <3> QED BY <3>2, <3>3 DEF BatchFrames, TopWord
  <2>3. Latest' = Latest /\ wr[TopWord]' = wr[TopWord]
        BY <2>1 DEF Latest, TopWord
  <2> QED BY <2>1, <2>2, <2>3 DEF Published
<1>5. CASE TakeFrame
  <2>1. /\ Latest' = wr[TopWord] /\ wr' = wr /\ awaited' \subseteq awaited
        /\ UNCHANGED <<cm0, sent, frames>>
        BY <1>5, TakeFacts
  <2>2. BatchFrames' = BatchFrames /\ wr[TopWord]' = wr[TopWord]
        BY <2>1 DEF cm0, BatchFrames, TopWord
  <2> QED BY <2>1, <2>2 DEF Published
<1>6. CASE UNCHANGED <<cBatch, wr, frames, awaited, sent, shown>>
  <2>1. /\ BatchFrames' = BatchFrames /\ Latest' = Latest /\ wr[TopWord]' = wr[TopWord]
        /\ Published' = Published
        BY <1>6 DEF BatchFrames, Latest, TopWord, Published
  <2> QED BY <1>6, <2>1
<1> QED BY <1>2, <1>3, <1>4, <1>5, <1>6

\* Numbers tell frames apart, and those to be taken have the numbers above the last.
LEMMA NumberStep == ASSUME Types, NumberInv, [Next]_vars PROVE NumberInv'
<1>0. /\ \A x \in Published : x.id \in Nat
      /\ frames \in Nat
      BY PublishedTypes
<1>a. /\ awaited \subseteq Published /\ sent \in Published /\ Latest \in Published
      /\ wr[TopWord] \in Published /\ BatchFrames \subseteq Published
      BY DEF Published
<1>1. CASE PushChunk \/ PushRow
  <2>1. PICK frame \in Known :
              /\ frame.id = frames + 1 /\ frames' = frames + 1
              /\ awaited' = awaited \cup {frame}
              /\ BatchFrames' \subseteq {frame}
              /\ UNCHANGED <<wr, sent, shown>>
        BY <1>1, PushFacts
  <2>2. wr'[TopWord] = wr[TopWord] /\ Latest' = Latest
        BY <2>1 DEF Latest, TopWord
  <2>3. Published' \subseteq Published \cup {frame}
        BY <2>1, <2>2 DEF Published, TopWord
  <2>4. \A x \in Published : x.id < frame.id
        BY <1>0, <2>1 DEF NumberInv
  <2>5. \A x \in Published' : x.id <= frames'
        BY <1>0, <2>1, <2>3 DEF NumberInv
  <2>6. ASSUME NEW x \in Published', NEW y \in Published', x.id = y.id PROVE x = y
        BY <1>0, <2>1, <2>3, <2>4, <2>6 DEF NumberInv
  <2>7. \A x \in awaited' : x.id > Latest'.id
        BY <1>a, <1>0, <2>1, <2>2, <2>4 DEF NumberInv
  <2>8. \A x \in BatchFrames' : x.id = frames' /\ x \in awaited'
        BY <2>1
  <2> QED BY <2>1, <2>2, <2>5, <2>6, <2>7, <2>8 DEF NumberInv, TopWord
<1>2. CASE Lands
  <2>1. UNCHANGED <<frames, awaited, shown>> /\ Latest' = Latest
        BY <1>2 DEF Lands, Latest, TopWord
  <2>2. Published' \subseteq Published /\ BatchFrames' \subseteq BatchFrames
        BY <1>2, FewerFrames
  <2>3. sent'.id > Latest'.id => sent' \in awaited'
        BY <1>2, <2>1, LandsFacts DEF NumberInv
  <2>4. Latest'.id <= wr[TopWord]'.id
        BY <1>2, <1>a, <2>1, LandsFacts DEF NumberInv
  <2> QED BY <2>1, <2>2, <2>3, <2>4 DEF NumberInv
<1>3. CASE Drop
  <2>1. /\ awaited' = {x \in awaited : x.id <= sent.id} /\ cBatch' = <<>>
        /\ UNCHANGED <<wr, frames, sent, shown>>
        BY <1>3 DEF Drop, mailbox
  <2>2. BatchFrames' = {} /\ Latest' = Latest /\ wr[TopWord]' = wr[TopWord]
        BY <2>1 DEF BatchFrames, Latest, TopWord
  <2>3. Published' \subseteq Published
        BY <1>3, FewerFrames
  <2>4. sent'.id > Latest'.id => sent' \in awaited'
        BY <1>0, <1>a, <2>1, <2>2 DEF NumberInv
  <2> QED BY <2>1, <2>2, <2>3, <2>4 DEF NumberInv
<1>4. CASE Connect
  <2>1. /\ UNCHANGED <<wr, frames, sent, shown, awaited>>
        /\ Latest' = Latest /\ wr[TopWord]' = wr[TopWord]
        BY <1>4 DEF Connect, mailbox, Latest, TopWord
  <2>2. Published' \subseteq Published /\ BatchFrames' \subseteq BatchFrames
        BY <1>4, FewerFrames
  <2> QED BY <2>1, <2>2 DEF NumberInv
<1>5. CASE TakeFrame
  <2> DEFINE f == wr[TopWord]
  <2>1. /\ Latest' = f /\ wr' = wr /\ awaited' = {x \in awaited : x.id > f.id}
        /\ UNCHANGED <<cm0, sent, frames>>
        BY <1>5, TakeFacts
  <2>2. BatchFrames' = BatchFrames /\ wr[TopWord]' = f
        BY <2>1 DEF cm0, BatchFrames, TopWord
  <2>3. Published' \subseteq Published
        BY <1>5, FewerFrames
  <2>4. f.id >= Latest.id /\ f.id \in Nat /\ Latest.id \in Nat /\ sent.id \in Nat
        BY <1>0, <1>a DEF NumberInv
  <2> HIDE DEF f
  <2>5. sent'.id > Latest'.id => sent' \in awaited'
        BY <2>1, <2>4 DEF NumberInv
  <2>6. \A x \in BatchFrames' : x.id = frames' /\ (frames' > Latest'.id => x \in awaited')
        BY <1>0, <2>1, <2>2, <2>4 DEF NumberInv
  <2>7. Latest'.id <= wr[TopWord]'.id
        BY <2>1, <2>2, <2>4
  <2> QED BY <2>1, <2>3, <2>5, <2>6, <2>7 DEF NumberInv
<1>6. CASE UNCHANGED <<cBatch, wr, frames, awaited, sent, shown>>
  <2>1. /\ BatchFrames' = BatchFrames /\ Latest' = Latest /\ wr[TopWord]' = wr[TopWord]
        /\ Published' = Published
        BY <1>6 DEF BatchFrames, Latest, TopWord, Published
  <2> QED BY <1>6, <2>1 DEF NumberInv
<1> QED BY <1>1, <1>2, <1>3, <1>4, <1>5, <1>6, FeedSteps

-----------------------------------------------------------------------------
(* Chunks are of messages that were heard *)

HeardInv ==
    /\ IsFiniteSet(Heard)
    /\ \A x \in Published : IsChunk(x) => x.what \in Heard
    /\ \A k \in DOMAIN cQueue : cQueue[k].what \in Heard
    /\ ToSet(stored) \subseteq Heard

\* What was heard stays heard; a step hears at most one more message.
LEMMA HeardGrows ==
    ASSUME Types, [Next]_vars
    PROVE  Heard \subseteq Heard' /\ \E m : Heard' \subseteq Heard \cup {m}
<1>0. fate \in [Messages -> Fate] /\ StoreTypes
      BY DEF Types, StoreTypes
<1>1. CASE Excusing
  <2>1. \A m \in Messages : fate'[m] = fate[m] \/ (fate[m] = "due" /\ fate'[m] = "excused")
    <3>1. CASE fate' = fate
          BY <3>1
    <3>2. CASE \E ms : fate' = Excuse(ms)
          BY <1>0, <3>2, ExcuseFacts
    <3> QED BY <1>1, <3>1, <3>2 DEF Excusing
  <2>2. Heard' = Heard
        BY <2>1 DEF Heard
  <2> QED BY <2>2
<1>2. ASSUME NEW m \in Messages, Verify(m)
      PROVE  Heard \subseteq Heard' /\ Heard' \subseteq Heard \cup {m}
      BY <1>0, <1>2, VerifyFacts DEF Heard
<1>3. CASE Doubt
  <2>1. \E ms : fate' = Excuse(ms)
        BY <1>3 DEF Doubt
  <2>2. \A m \in Messages : fate'[m] = fate[m] \/ (fate[m] = "due" /\ fate'[m] = "excused")
        BY <1>0, <2>1, ExcuseFacts
  <2>3. Heard' = Heard
        BY <2>2 DEF Heard
  <2> QED BY <2>3
<1>4. CASE ClearStore \/ Connect
  <2>1. \A m \in ToSet(stored) : fate[m] # "unheard"
        BY <1>0 DEF StoreTypes, ToSet
  <2>2. \A m \in Messages : fate'[m] = fate[m] \/ (m \in ToSet(stored) /\ fate'[m] # "unheard")
        BY <1>4 DEF ClearStore, Connect
  <2>3. Heard' = Heard
        BY <2>1, <2>2 DEF Heard
  <2> QED BY <2>3
<1> QED BY <1>1, <1>2, <1>3, <1>4, StoreSteps

\* Which steps move chunks in the queue.
LEMMA QueueSteps ==
    ASSUME [Next]_vars
    PROVE  \/ PushChunk \/ PushRow \/ (\E m \in Messages : Verify(m)) \/ Drop \/ Connect
           \/ UNCHANGED cQueue
BY DEF Next, vars, Retune, Lands, Doubt, ClearStore, BeginRead, ReadNext, ReadFails, TakeFrame,
       Clear, Reload, cm0

\* Initially nothing was heard.
LEMMA HeardInit == Init => HeardInv
<1> SUFFICES ASSUME Init PROVE HeardInv
    OBVIOUS
<1>1. wr[TopWord] = Nothing /\ Latest = Nothing /\ sent = Nothing /\ awaited = {}
  <2>1. wr[TopWord] = Nothing
        BY Constants DEF Init
  <2> QED BY <2>1 DEF Init, Latest
<1>2. BatchFrames = {} /\ cQueue = <<>> /\ stored = <<>> /\ Heard = {}
      BY DEF Init, BatchFrames, Heard
<1>3. IsFiniteSet(Heard)
      BY <1>2, FS_EmptySet
<1> QED BY <1>1, <1>2, <1>3 DEF HeardInv, Published, Nothing, IsChunk, ToSet

\* A chunk is queued for a message when it is heard, or when it is stored.
LEMMA HeardStep == ASSUME Types, HeardInv, [Next]_vars PROVE HeardInv'
<1>0. Heard \subseteq Heard' /\ \E m : Heard' \subseteq Heard \cup {m}
      BY HeardGrows
<1>1. IsFiniteSet(Heard')
  <2>1. PICK m : Heard' \subseteq Heard \cup {m}
        BY <1>0
  <2>2. IsFiniteSet(Heard \cup {m})
        BY FS_AddElement DEF HeardInv
  <2> QED BY <2>1, <2>2, FS_Subset
<1>2. \A x \in Published' : IsChunk(x) => x.what \in Heard'
  <2>1. CASE PushChunk \/ PushRow
    <3>1. PICK frame \in Known :
              /\ awaited' = awaited \cup {frame}
              /\ BatchFrames' \subseteq {frame}
              /\ UNCHANGED <<wr, sent, shown>>
              /\ \/ ~IsChunk(frame)
                 \/ cQueue # <<>> /\ frame.what = cQueue[1].what
          BY <2>1, PushFacts
    <3>2. Published' \subseteq Published \cup {frame}
          BY <3>1 DEF Published, TopWord, Latest
    <3>3. IsChunk(frame) => frame.what \in Heard
      <4>1. cQueue # <<>> => 1 \in DOMAIN cQueue
            BY PublishedTypes
      <4> QED BY <3>1, <4>1 DEF HeardInv
    <3> QED BY <1>0, <3>2, <3>3 DEF HeardInv
  <2>2. CASE \/ Lands \/ Drop \/ Connect \/ TakeFrame
             \/ UNCHANGED <<cBatch, wr, frames, awaited, sent, shown>>
    <3>1. Published' \subseteq Published
          BY <2>2, FewerFrames
    <3> QED BY <1>0, <3>1 DEF HeardInv
  <2> QED BY <2>1, <2>2, FeedSteps
<1>3. \A k \in DOMAIN cQueue' : cQueue'[k].what \in Heard'
  <2>1. CASE PushChunk \/ PushRow
    <3>1. cQueue' = cQueue \/ (cQueue # <<>> /\ cQueue' = Tail(cQueue))
          BY <2>1 DEF PushChunk, PushRow
    <3>2. ASSUME cQueue # <<>>, cQueue' = Tail(cQueue)
          PROVE  \A k \in DOMAIN cQueue' : cQueue'[k].what \in Heard
      <4>1. \A k \in DOMAIN cQueue' : k + 1 \in DOMAIN cQueue /\ cQueue'[k] = cQueue[k + 1]
            BY <3>2, PublishedTypes, HeadTailProperties
      <4> QED BY <4>1 DEF HeardInv
    <3> QED BY <1>0, <3>1, <3>2 DEF HeardInv
  <2>2. CASE \E m \in Messages : Verify(m)
    <3>1. PICK m \in Messages : Verify(m)
          BY <2>2
    <3>2. m \in Heard'
          BY <3>1, VerifyFacts DEF Heard, Types
    <3>3. cQueue' = cQueue \/ cQueue' = QueueAfterShow(m)
          BY <3>1 DEF Verify
    <3>4. \A k \in DOMAIN QueueAfterShow(m) : QueueAfterShow(m)[k].what = m
          BY DEF QueueAfterShow, Chunks, Chunk
    <3> QED BY <1>0, <3>2, <3>3, <3>4 DEF HeardInv
  <2>3. CASE Drop
        BY <2>3 DEF Drop
  <2>4. CASE Connect
    <3>1. cQueue' = Replay
          BY <2>4 DEF Connect
    <3>2. \A p \in DOMAIN Replay : Replay[p].what \in ToSet(stored)
          BY ReplayFacts
    <3> QED BY <1>0, <3>1, <3>2 DEF HeardInv
  <2>5. CASE UNCHANGED cQueue
        BY <1>0, <2>5 DEF HeardInv
  <2> QED BY <2>1, <2>2, <2>3, <2>4, <2>5, QueueSteps
<1>4. ToSet(stored') \subseteq Heard'
  <2>1. StoreTypes'
        BY StoreStep
  <2>2. \A k \in DOMAIN stored' : stored'[k] \in Messages /\ fate'[stored'[k]] # "unheard"
        BY <2>1 DEF StoreTypes
  <2> QED BY <2>2 DEF Heard, ToSet
<1> QED BY <1>1, <1>2, <1>3, <1>4 DEF HeardInv

-----------------------------------------------------------------------------
(* Chunks follow the first chunk of their message *)

Untorn == marks \cap {"torn", "headless"} = {}

\* A chunk of m with number n follows a chunk of m, which was shown last or is the
\* first of m, and only chunks of m wait between the two.
LedBy(h, m, n) ==
    /\ h.id < n /\ IsChunk(h) /\ h.what = m /\ (h = Latest \/ h.index = 0)
    /\ \A x \in awaited : h.id < x.id /\ x.id < n => IsChunk(x) /\ x.what = m
Led(m, n) == \E h \in awaited \cup {Latest} : LedBy(h, m, n)

OrderInv ==
    /\ \A c \in awaited : IsChunk(c) /\ c.index > 0 => Led(c.what, c.id)
    /\ \A k \in DOMAIN cQueue : cQueue[k].index > 0 =>
            IF k = 1 THEN Led(cQueue[1].what, frames + 1)
            ELSE k - 1 \in DOMAIN cQueue /\ cQueue[k - 1].what = cQueue[k].what

\* What was marked stays marked.
LEMMA MarksStay == ASSUME [Next]_vars PROVE Untorn' => Untorn
<1>1. marks \subseteq marks'
  <2>1. CASE TakeFrame
        BY <2>1 DEF TakeFrame
  <2>2. CASE ~TakeFrame
        BY <2>2 DEF Next, vars, Retune, PushChunk, PushRow, Push, Lands, Verify, Doubt, ClearStore,
             Drop, Connect, BeginRead, ReadNext, ReadFails, Clear, Reload, ghosts
  <2> QED BY <2>1, <2>2
<1> QED BY <1>1 DEF Untorn

\* The frame taken, when it is whole: it was awaited, or it is the last one again.
LEMMA WholeTaken ==
    ASSUME Types, NumberInv, TakeFrame, Untorn'
    PROVE  LET f == wr[TopWord]
           IN  /\ Values = Whole(f) /\ f \in Published /\ f \in Known /\ f.id \in Nat
               /\ Latest.id \in Nat /\ Latest.id <= f.id
               /\ f \in awaited \/ f = Latest
               /\ Latest.id < f.id => f \in awaited
               /\ Latest' = f /\ awaited' = {x \in awaited : x.id > f.id}
               /\ \A x \in awaited : x.id < f.id /\ IsChunk(x) => x.index # 0
               /\ UNCHANGED <<cm0, sent, frames>>
<1> DEFINE f == wr[TopWord]
<1>1. /\ Latest' = f /\ awaited' = {x \in awaited : x.id > f.id}
      /\ UNCHANGED <<cm0, sent, frames>>
      /\ "torn" \in marks' \/ \E x \in awaited \cup {sent} : Values = Whole(x)
      /\ "headless" \in marks' \/ \A x \in awaited : x.id < f.id /\ IsChunk(x) => x.index # 0
      BY TakeFacts
<1>2. "torn" \notin marks' /\ "headless" \notin marks'
      BY DEF Untorn
<1>3. PICK x \in awaited \cup {sent} : Values = Whole(x)
      BY <1>1, <1>2
<1>4. x = f
  <2>1. Values[TopWord] = f
        BY TakenTypes
  <2>2. Whole(x)[TopWord] = x
        BY Constants DEF Whole, ValueOf
  <2> QED BY <1>3, <2>1, <2>2
<1>5. f \in Published /\ Latest \in Published /\ f \in Known /\ f.id \in Nat /\ Latest.id \in Nat
      BY PublishedTypes DEF Published
<1>6. Latest.id <= f.id
      BY DEF NumberInv
<1>7. f \notin awaited => f = sent
      BY <1>3, <1>4
<1>8. f \notin awaited => f = Latest
  <2> SUFFICES ASSUME f \notin awaited PROVE f = Latest
      OBVIOUS
  <2>1. ~(f.id > Latest.id)
        BY <1>7 DEF NumberInv
  <2>2. f.id = Latest.id
        BY <1>5, <1>6, <2>1
  <2> QED BY <1>5, <2>2 DEF NumberInv
<1>9. Latest.id < f.id => f \in awaited
  <2>1. f = Latest => ~(Latest.id < f.id)
        BY <1>5
  <2> QED BY <1>8, <2>1
<1> QED BY <1>1, <1>2, <1>3, <1>4, <1>5, <1>6, <1>8, <1>9

\* A chunk not yet taken is led by one that is not yet taken, or by the one taken.
LEMMA LedAfterTake ==
    ASSUME Types, NumberInv, TakeFrame, Untorn', NEW m, NEW n \in Nat, n > wr[TopWord].id, Led(m, n)
    PROVE  Led(m, n)'
<1> DEFINE f == wr[TopWord]
<1>1. /\ f \in Published /\ f.id \in Nat /\ Latest.id \in Nat /\ Latest.id <= f.id
      /\ Latest.id < f.id => f \in awaited
      /\ Latest' = f /\ awaited' = {x \in awaited : x.id > f.id}
      BY WholeTaken
<1>2. PICK h \in awaited \cup {Latest} : LedBy(h, m, n)
      BY DEF Led
<1>3. h \in Published /\ h.id \in Nat /\ \A x \in awaited : x.id \in Nat
      BY PublishedTypes DEF Published
<1>4. h.id >= Latest.id
      BY <1>1, <1>3 DEF NumberInv
<1> HIDE DEF f
<1>5. \E g \in awaited' \cup {Latest'} :
            /\ g.id < n /\ IsChunk(g) /\ g.what = m /\ (g = Latest' \/ g.index = 0)
            /\ \A x \in awaited' : g.id < x.id /\ x.id < n => IsChunk(x) /\ x.what = m
  <2>1. CASE h.id > f.id
    <3>1. h \in awaited /\ h # Latest
          BY <1>1, <1>2, <2>1
    <3>2. h \in awaited' /\ h.index = 0
          BY <1>1, <1>2, <2>1, <3>1 DEF LedBy
    <3> QED BY <1>1, <1>2, <3>2 DEF LedBy
  <2>2. CASE h.id = f.id
    <3>1. h = f
          BY <1>1, <1>3, <2>2 DEF NumberInv
    <3> QED BY <1>1, <1>2, <3>1 DEF LedBy
  <2>3. CASE h.id < f.id
    <3>1. f \in awaited
          BY <1>1, <1>4, <1>3, <2>3
    <3>2. f.id < n
          BY DEF f
    <3>3. IsChunk(f) /\ f.what = m
          BY <1>2, <2>3, <3>1, <3>2 DEF LedBy
    <3>4. \A x \in awaited' : f.id < x.id /\ x.id < n => IsChunk(x) /\ x.what = m
      <4> SUFFICES ASSUME NEW x \in awaited', f.id < x.id, x.id < n PROVE IsChunk(x) /\ x.what = m
          OBVIOUS
      <4>1. x \in awaited /\ x.id \in Nat
            BY <1>1, <1>3
      <4>2. h.id < x.id
            BY <1>1, <1>3, <2>3, <4>1
      <4> QED BY <1>2, <4>1, <4>2 DEF LedBy
    <3> QED BY <1>1, <3>2, <3>3, <3>4
  <2> QED BY <1>1, <1>3, <2>1, <2>2, <2>3
<1> QED BY <1>5 DEF Led, LedBy, IsChunk, Latest, TopWord

\* Initially nothing is queued or awaited.
LEMMA OrderInit == Init => OrderInv
BY DEF Init, OrderInv

\* Chunks are pushed in the order they are queued in, and taken in the order they are
\* pushed in.
LEMMA OrderStep ==
    ASSUME Types, NumberInv, OrderInv, [Next]_vars, Untorn'
    PROVE  OrderInv'
<1>0. /\ \A x \in Published : x.id \in Nat /\ x.id <= frames
      /\ frames \in Nat /\ awaited \subseteq Published /\ Latest \in Published
      /\ cQueue \in Seq(ChunkFrames)
      BY PublishedTypes DEF NumberInv, Published
<1>1. CASE PushChunk \/ PushRow
  <2>1. PICK frame \in Known :
              /\ frame.id = frames + 1 /\ frames' = frames + 1
              /\ awaited' = awaited \cup {frame}
              /\ UNCHANGED <<wr, sent, shown>>
              /\ \/ /\ cQueue = <<>> /\ cQueue' = <<>> /\ ~IsChunk(frame)
                 \/ /\ cQueue # <<>> /\ cQueue' = Tail(cQueue)
                    /\ IsChunk(frame) /\ frame.what = cQueue[1].what
                    /\ frame.index = cQueue[1].index
        BY <1>1, PushFacts
  <2>2. Latest' = Latest
        BY <2>1 DEF Latest, TopWord
  <2>3. \A x \in awaited \cup {Latest} : x.id \in Nat /\ x.id < frame.id
        BY <1>0, <2>1
  <2>4. ASSUME NEW m, NEW n \in Nat, n <= frames + 1, Led(m, n) PROVE Led(m, n)'
    <3>1. PICK h \in awaited \cup {Latest} : LedBy(h, m, n)
          BY <2>4 DEF Led
    <3>2. \A x \in awaited' : x.id < n => x \in awaited
          BY <1>0, <2>1, <2>4
    <3>3. h \in awaited' \cup {Latest'}
          BY <2>1, <2>2
    <3>4. LedBy(h, m, n)'
          BY <2>2, <3>1, <3>2 DEF LedBy, IsChunk
    <3> QED BY <3>3, <3>4 DEF Led
  <2>5. CASE ~IsChunk(frame) /\ cQueue' = <<>>
    <3>1. ASSUME NEW c \in awaited', IsChunk(c), c.index > 0 PROVE Led(c.what, c.id)'
      <4>1. c \in awaited
            BY <2>1, <2>5, <3>1
      <4>2. Led(c.what, c.id) /\ c.id \in Nat /\ c.id <= frames + 1
            BY <1>0, <3>1, <4>1 DEF OrderInv
      <4> QED BY <2>4, <4>2
    <3> QED BY <2>5, <3>1 DEF OrderInv, IsChunk
  <2>6. CASE /\ cQueue # <<>> /\ cQueue' = Tail(cQueue)
             /\ IsChunk(frame) /\ frame.what = cQueue[1].what /\ frame.index = cQueue[1].index
    <3> DEFINE m == frame.what
    <3>0. 1 \in DOMAIN cQueue /\ frames + 1 \in Nat /\ frames + 2 \in Nat
          BY <1>0, <2>6
    <3>a. /\ \A k \in DOMAIN cQueue' : /\ k \in Nat /\ k >= 1 /\ k + 1 \in DOMAIN cQueue
                                       /\ cQueue'[k] = cQueue[k + 1]
          /\ \A k \in DOMAIN cQueue' : k # 1 => k - 1 \in DOMAIN cQueue'
          BY <1>0, <2>6, HeadTailProperties
    <3>b. frame.index \in Nat
      <4>1. cQueue[1] \in ChunkFrames
            BY <1>0, <3>0
      <4> QED BY <2>6, <4>1 DEF ChunkFrames, MessageFrames, Frames
    <3>1. frame.index > 0 => Led(m, frames + 1)
          BY <2>6, <3>0 DEF OrderInv
    <3>2. ASSUME NEW c \in awaited', IsChunk(c), c.index > 0 PROVE Led(c.what, c.id)'
      <4>1. CASE c = frame
            BY <2>1, <2>4, <3>0, <3>1, <3>2, <4>1
      <4>2. CASE c # frame
        <5>1. c \in awaited
              BY <2>1, <4>2
        <5>2. Led(c.what, c.id) /\ c.id \in Nat /\ c.id <= frames + 1
              BY <1>0, <3>2, <5>1 DEF OrderInv
        <5> QED BY <2>4, <5>2
      <4> QED BY <4>1, <4>2
    <3>3. Led(m, frame.id + 1)'
      <4>1. CASE frame.index = 0
        <5>1. \A x \in awaited' : ~(frame.id < x.id)
              BY <1>0, <2>1, <2>3
        <5>2. frame.id < frame.id + 1
              BY <1>0, <2>1
        <5>3. frame \in awaited'
              BY <2>1
        <5> HIDE DEF m
        <5>4. frame.id < frame.id + 1 /\ IsChunk(frame) /\ frame.what = m
              BY <2>6, <5>2 DEF m
        <5> QED BY ONLY <4>1, <5>1, <5>3, <5>4 DEF Led, LedBy
      <4>2. CASE frame.index > 0
        <5>1. PICK h \in awaited \cup {Latest} : LedBy(h, m, frames + 1)
              BY <3>1, <4>2 DEF Led
        <5>2. h.id \in Nat /\ h.id < frame.id + 1
          <6>1. h.id \in Nat /\ h.id < frame.id /\ frame.id \in Nat
                BY <2>3, <1>0, <2>1
          <6> QED BY <6>1
        <5>3. ASSUME NEW x \in awaited', h.id < x.id PROVE IsChunk(x) /\ x.what = m
          <6>1. CASE x = frame
                BY <2>6, <6>1
          <6>2. CASE x # frame
            <7>1. x \in awaited /\ x.id < frames + 1
                  BY <2>1, <2>3, <6>2
            <7> QED BY <5>1, <5>3, <7>1 DEF LedBy
          <6> QED BY <6>1, <6>2
        <5>4. IsChunk(h) /\ h.what = m /\ (h = Latest \/ h.index = 0)
              BY <5>1 DEF LedBy
        <5>5. h \in awaited' \cup {Latest'}
              BY <2>1, <2>2
        <5>6. h = Latest' \/ h.index = 0
              BY <2>2, <5>4
        <5> HIDE DEF m
        <5> QED BY ONLY <5>2, <5>3, <5>4, <5>5, <5>6 DEF Led, LedBy, IsChunk
      <4> QED BY <3>b, <4>1, <4>2
    <3>4. ASSUME NEW k \in DOMAIN cQueue', cQueue'[k].index > 0
          PROVE  IF k = 1 THEN cQueue'[1].what = m
                 ELSE k - 1 \in DOMAIN cQueue' /\ cQueue'[k - 1].what = cQueue'[k].what
      <4>1. /\ k + 1 \in DOMAIN cQueue /\ k + 1 # 1 /\ (k + 1) - 1 = k /\ cQueue'[k] = cQueue[k + 1]
            BY <3>a
      <4>2. cQueue[k].what = cQueue[k + 1].what
            BY <3>4, <4>1 DEF OrderInv
      <4>3. CASE k = 1
        <5>1. cQueue'[1].what = m
              BY <2>6, <4>1, <4>2, <4>3
        <5> QED BY <4>3, <5>1
      <4>4. CASE k # 1
        <5>1. k - 1 \in DOMAIN cQueue' /\ (k - 1) + 1 = k
              BY <3>a, <4>4
        <5>2. cQueue'[k - 1] = cQueue[k]
              BY <3>a, <5>1
        <5> QED BY <4>1, <4>2, <4>4, <5>1, <5>2
      <4> QED BY <4>3, <4>4
    <3>5. frames' + 1 = frame.id + 1
          BY <1>0, <2>1
    <3>6. ASSUME cQueue'[1].what = m PROVE Led(cQueue[1].what, frames + 1)'
          BY <3>3, <3>5, <3>6 DEF Led, LedBy
    <3> QED BY <3>2, <3>4, <3>6 DEF OrderInv, IsChunk
  <2> QED BY <2>1, <2>5, <2>6
<1>2. ASSUME UNCHANGED <<shown, awaited, frames>>,
             \A k \in DOMAIN cQueue' : cQueue'[k].index > 0 =>
                k # 1 /\ k - 1 \in DOMAIN cQueue' /\ cQueue'[k - 1].what = cQueue'[k].what
      PROVE  OrderInv'
  <2>1. \A m, n : Led(m, n) => Led(m, n)'
        BY <1>2 DEF Led, LedBy, Latest, TopWord, IsChunk
  <2> QED BY <1>2, <2>1 DEF OrderInv, IsChunk
<1>3. CASE \E m \in Messages : Verify(m) /\ cQueue' # cQueue
  <2>1. PICK m \in Messages : Verify(m) /\ cQueue' # cQueue
        BY <1>3
  <2>2. cQueue' = QueueAfterShow(m) /\ UNCHANGED <<shown, awaited, frames>>
        BY <2>1 DEF Verify
  <2>3. /\ DOMAIN QueueAfterShow(m) = 1 .. Length[m.text]
        /\ \A k \in 1 .. Length[m.text] : QueueAfterShow(m)[k] = Chunk("live", m, k - 1, 0)
        BY DEF QueueAfterShow, Chunks
  <2>4. \A k \in 1 .. Length[m.text] :
            QueueAfterShow(m)[k].what = m /\ QueueAfterShow(m)[k].index = k - 1
    <3> DEFINE q == QueueAfterShow(m)
    <3>1. \A k \in 1 .. Length[m.text] : q[k] = Chunk("live", m, k - 1, 0)
          BY <2>3
    <3> HIDE DEF q
    <3>2. ASSUME NEW k \in 1 .. Length[m.text] PROVE q[k].what = m /\ q[k].index = k - 1
      <4>1. q[k] = Chunk("live", m, k - 1, 0)
            BY <3>1
      <4> QED BY <4>1 DEF Chunk
    <3> QED BY <3>2 DEF q
  <2>5. Length[m.text] \in Nat
        BY Constants
  <2>6. ASSUME NEW k \in DOMAIN cQueue', cQueue'[k].index > 0
        PROVE  k # 1 /\ k - 1 \in DOMAIN cQueue' /\ cQueue'[k - 1].what = cQueue'[k].what
    <3>1. k \in 1 .. Length[m.text] /\ k - 1 > 0 /\ k - 1 \in 1 .. Length[m.text]
          BY <2>2, <2>3, <2>4, <2>5, <2>6
    <3> QED BY <2>2, <2>3, <2>4, <3>1
  <2> QED BY <1>2, <2>2, <2>6
<1>4. CASE Drop
  <2>1. /\ cQueue' = <<>> /\ awaited' = {x \in awaited : x.id <= sent.id}
        /\ UNCHANGED <<shown, sent, frames>>
        BY <1>4 DEF Drop
  <2>2. Latest' = Latest /\ sent \in Published
        BY <2>1 DEF Latest, TopWord, Published
  <2>3. ASSUME NEW c \in awaited', IsChunk(c), c.index > 0 PROVE Led(c.what, c.id)'
    <3>1. c \in awaited /\ c.id <= sent.id /\ c.id \in Nat /\ sent.id \in Nat
          BY <1>0, <2>1, <2>2
    <3>2. PICK h \in awaited \cup {Latest} : LedBy(h, c.what, c.id)
          BY <2>3, <3>1 DEF OrderInv, Led
    <3>3. h.id \in Nat /\ h.id < c.id
          BY <1>0, <3>2 DEF LedBy
    <3>4. h \in awaited' \cup {Latest'}
          BY <2>1, <2>2, <3>1, <3>3
    <3>5. LedBy(h, c.what, c.id)'
          BY <2>1, <2>2, <3>2 DEF LedBy, IsChunk
    <3> QED BY <3>4, <3>5 DEF Led
  <2> QED BY <2>1, <2>3 DEF OrderInv, IsChunk
<1>5. CASE Connect
  <2>1. cQueue' = Replay /\ UNCHANGED <<shown, awaited, frames>>
        BY <1>5 DEF Connect
  <2>2. \A p \in DOMAIN Replay : Replay[p].index > 0 =>
                 p - 1 \in DOMAIN Replay /\ Replay[p - 1].what = Replay[p].what
        BY ReplayFacts
  <2>3. 0 \notin DOMAIN Replay
        BY ReplayFacts
  <2>4. \A p \in DOMAIN Replay : Replay[p].index > 0 => p # 1
        BY <2>2, <2>3
  <2> QED BY <1>2, <2>1, <2>2, <2>4
<1>6. CASE TakeFrame
  <2>1. /\ awaited' = {x \in awaited : x.id > wr[TopWord].id}
        /\ UNCHANGED <<cQueue, frames>>
        BY <1>6, WholeTaken DEF cm0
  <2>2. wr[TopWord].id \in Nat /\ wr[TopWord].id <= frames
        BY <1>0 DEF Published
  <2>3. ASSUME NEW c \in awaited', IsChunk(c), c.index > 0 PROVE Led(c.what, c.id)'
    <3>1. c \in awaited /\ c.id > wr[TopWord].id /\ c.id \in Nat
          BY <1>0, <2>1
    <3>2. Led(c.what, c.id)
          BY <2>3, <3>1 DEF OrderInv
    <3> QED BY <1>6, <3>1, <3>2, LedAfterTake
  <2>4. ASSUME Led(cQueue[1].what, frames + 1) PROVE Led(cQueue[1].what, frames + 1)'
    <3>1. PICK m, n : m = cQueue[1].what /\ n = frames + 1
          OBVIOUS
    <3>2. n \in Nat /\ n > wr[TopWord].id /\ Led(m, n)
          BY <1>0, <2>2, <2>4, <3>1
    <3>3. Led(m, n)'
          BY <1>6, <3>2, LedAfterTake
    <3> QED BY <2>1, <3>1, <3>3 DEF Led, LedBy
  <2> QED BY <2>1, <2>3, <2>4 DEF OrderInv, IsChunk
<1>7. CASE UNCHANGED <<cQueue, shown, awaited, frames>>
  <2>1. \A m, n : Led(m, n) => Led(m, n)'
        BY <1>7 DEF Led, LedBy, Latest, TopWord, IsChunk
  <2> QED BY <1>7, <2>1 DEF OrderInv, IsChunk
<1>8. \/ PushChunk \/ PushRow \/ Drop \/ Connect \/ TakeFrame
      \/ \E m \in Messages : Verify(m) /\ cQueue' # cQueue
      \/ UNCHANGED <<cQueue, shown, awaited, frames>>
      BY DEF Next, vars, Retune, Lands, Verify, Doubt, ClearStore, BeginRead, ReadNext, ReadFails,
             Clear, Reload, cm0, ghosts
<1> QED BY <1>1, <1>3, <1>4, <1>5, <1>6, <1>7, <1>8

-----------------------------------------------------------------------------
(* The staging buffer and the history hold genuine messages *)

StagedOf(m) ==
    /\ staging.length = Length[m.text]
    /\ DOMAIN staging.got \subseteq 0 .. Length[m.text] - 1
    /\ \A i \in DOMAIN staging.got : staging.got[i] = Assembled(m)[i]

GenuineInv ==
    /\ staging = EmptyStaging \/ \E m \in Heard : StagedOf(m)
    /\ IsChunk(Latest) => staging = EmptyStaging \/ StagedOf(Latest.what)
    /\ \A k \in DOMAIN history : \E m \in Heard : history[k] = Assembled(m)

\* A chunk read whole has the words of its message there.
LEMMA WholeWords ==
    ASSUME NEW f \in ChunkFrames
    PROVE  /\ Whole(f)[FreqSignal] = f /\ Whole(f)[SpanSignal] = f
           /\ WordsRead(Whole(f)) = Assembled(f.what)[f.index]
<1>1. /\ IsChunk(f) /\ f.what \in Messages /\ f.index \in 0 .. Length[f.what.text] - 1
      BY KnownFrames
<1>2. \A g \in Signals : Whole(f)[g] = f
      BY <1>1 DEF Whole, ValueOf
<1>3. \A w \in 1 .. Words : w + 2 \in Signals
      BY Constants DEF TopWord
<1>4. ASSUME NEW w \in 1 .. Words
      PROVE  Content(Whole(f)[w + 2]) = Content(Chunk("live", f.what, f.index, 0))
  <2>1. Whole(f)[w + 2] = f
        BY <1>2, <1>3
  <2>2. Content(f) = Content(Chunk("live", f.what, f.index, 0))
        BY <1>1 DEF Content, Chunk, IsChunk
  <2> QED BY <2>1, <2>2
<1>5. WordsRead(Whole(f)) = [w \in 1 .. Words |-> Content(Chunk("live", f.what, f.index, 0))]
      BY <1>4 DEF WordsRead
<1>6. Assembled(f.what)[f.index] = [w \in 1 .. Words |-> Content(Chunk("live", f.what, f.index, 0))]
      BY <1>1 DEF Assembled
<1>7. FreqSignal \in Signals /\ SpanSignal \in Signals
      BY Constants DEF TopWord
<1> QED BY <1>2, <1>5, <1>6, <1>7

\* A frame that is no chunk is not read as one.
LEMMA WholeRow == ASSUME NEW f, ~IsChunk(f) PROVE ~IsChunk(Whole(f)[FreqSignal])
<1>1. FreqSignal \in Signals /\ FreqSignal \notin RowSignals
      BY Constants DEF TopWord
<1>2. Whole(f)[FreqSignal] = Tuning(f.what)
      BY <1>1 DEF Whole, ValueOf
<1> QED BY <1>2 DEF Tuning, IsChunk

\* The chunk taken continues the message staged, or starts one.
LEMMA ContinuesStaged ==
    ASSUME Types, NumberInv, OrderInv, GenuineInv, TakeFrame, Untorn',
           NEW f, f = wr[TopWord], IsChunk(f)
    PROVE  /\ f \in ChunkFrames
           /\ Restarts(f) \/ StagedOf(f.what)
           /\ ~Restarts(f) => IsChunk(Latest) /\ Latest.what = f.what
<1>1. /\ f \in Published /\ f \in Known /\ f.id \in Nat
      /\ Latest.id \in Nat /\ Latest.id <= f.id
      /\ f \in awaited \/ f = Latest
      /\ Latest.id < f.id => f \in awaited
      /\ \A x \in awaited : x.id < f.id /\ IsChunk(x) => x.index # 0
      BY WholeTaken
<1>2. f \in ChunkFrames
      BY <1>1 DEF Known
<1>3. f.index \in Nat /\ Length[f.what.text] >= 2 /\ Length[f.what.text] \in Nat
  <2>1. f.what \in Messages
        BY <1>2, KnownFrames
  <2>2. f.index \in Nat
        BY <1>2 DEF ChunkFrames, MessageFrames, Frames
  <2> QED BY <2>1, <2>2, Constants
<1>4. ASSUME ~Restarts(f) PROVE IsChunk(Latest) /\ Latest.what = f.what
  <2>1. CASE f = Latest
        BY <2>1
  <2>2. CASE f \in awaited
    <3>1. f.index > 0
          BY <1>3, <1>4 DEF Restarts
    <3>2. PICK h \in awaited \cup {Latest} : LedBy(h, f.what, f.id)
          BY <2>2, <3>1 DEF OrderInv, Led
    <3>3. h.id < f.id /\ IsChunk(h) /\ h.what = f.what /\ (h = Latest \/ h.index = 0)
          BY <3>2 DEF LedBy
    <3>4. h = Latest
          BY <1>1, <3>3
    <3> QED BY <3>3, <3>4
  <2> QED BY <1>1, <2>1, <2>2
<1>5. ASSUME ~Restarts(f) PROVE StagedOf(f.what)
  <2>1. staging.length = Length[f.what.text]
        BY <1>5 DEF Restarts
  <2>2. staging # EmptyStaging
        BY <1>3, <2>1 DEF EmptyStaging
  <2>3. IsChunk(Latest) /\ Latest.what = f.what
        BY <1>4, <1>5
  <2>4. StagedOf(Latest.what)
        BY <2>2, <2>3 DEF GenuineInv
  <2> QED BY <2>3, <2>4
<1> QED BY <1>2, <1>4, <1>5

\* After it, the staging buffer holds chunks of that message, this one among them.
LEMMA StagedGenuine ==
    ASSUME Types, NumberInv, OrderInv, GenuineInv, TakeFrame, Untorn',
           NEW f, f = wr[TopWord], IsChunk(f)
    PROVE  /\ StagedOf(f.what)'
           /\ f.index \in DOMAIN staging'.got
           /\ ~Restarts(f) => DOMAIN staging.got \subseteq DOMAIN staging'.got
           /\ Complete(staging') => staging'.got = Assembled(f.what)
           /\ DOMAIN staging'.got = 0 .. Length[f.what.text] - 1 => Complete(staging')
           /\ \/ Complete(staging') /\ history' = Remembered(Assembled(f.what))
              \/ ~Complete(staging') /\ history' = history
<1> DEFINE ws == WordsRead(Values)
           s == Staged(f, ws)
           A == Assembled(f.what)
           L == Length[f.what.text]
<1>1. Values = Whole(f)
      BY WholeTaken
<1>2. f \in ChunkFrames /\ (Restarts(f) \/ StagedOf(f.what))
      BY ContinuesStaged
<1>3. Values[FreqSignal] = f /\ Values[SpanSignal] = f /\ ws = A[f.index]
      BY <1>1, <1>2, WholeWords
<1>4. /\ staging' = s
      /\ \/ Complete(s) /\ history' = Remembered(s.got)
         \/ history' = history /\ ~(Complete(s) /\ InBand(s.got))
      BY <1>3, TakenChunk
<1>5. f.what \in Messages /\ f.index \in 0 .. L - 1 /\ L \in Nat /\ L >= 2
      BY <1>2, KnownFrames, Constants
<1>6. /\ s.length = L
      /\ f.index \in DOMAIN s.got /\ s.got[f.index] = ws
      /\ Restarts(f) => DOMAIN s.got = {f.index}
      /\ ~Restarts(f) => DOMAIN s.got = DOMAIN staging.got \cup {f.index}
      /\ \A i \in DOMAIN s.got : i # f.index =>
            i \in DOMAIN staging.got /\ s.got[i] = staging.got[i]
      /\ \A i \in DOMAIN s.got : i \in Nat /\ i < s.length
      /\ s.got = [i \in DOMAIN s.got |-> s.got[i]]
      BY <1>2, StagedFacts DEF Types
<1>7. A = [i \in 0 .. L - 1 |-> A[i]]
      BY DEF Assembled
<1> HIDE DEF s, A, ws
<1>8. \A i \in DOMAIN s.got : i \in 0 .. L - 1
      BY <1>5, <1>6
<1> HIDE DEF L
<1>9. ASSUME NEW i \in DOMAIN s.got PROVE s.got[i] = A[i]
  <2>1. CASE i = f.index
        BY <1>3, <1>6, <2>1
  <2>2. CASE i # f.index
    <3>1. ~Restarts(f) /\ i \in DOMAIN staging.got /\ s.got[i] = staging.got[i]
          BY <1>6, <2>2
    <3>2. StagedOf(f.what)
          BY <1>2, <3>1
    <3> QED BY <3>1, <3>2 DEF StagedOf, A
  <2> QED BY <2>1, <2>2
<1>10. ASSUME Complete(s) PROVE s.got = A
  <2>1. DOMAIN s.got = 0 .. L - 1
        BY <1>6, <1>10 DEF Complete
  <2> QED BY <1>6, <1>7, <1>9, <2>1
<1>11. InBand(A)
      BY <1>5 DEF InBand, A
<1>12. StagedOf(f.what)'
      BY <1>4, <1>6, <1>8, <1>9 DEF StagedOf, A, L, Assembled
<1>13. DOMAIN s.got = 0 .. L - 1 => Complete(s)
      BY <1>6 DEF Complete
<1>14. \/ Complete(s) /\ history' = Remembered(A)
       \/ ~Complete(s) /\ history' = history
      BY <1>4, <1>10, <1>11
<1>15. staging' = s
      BY <1>4
<1> QED BY <1>6, <1>10, <1>12, <1>13, <1>14, <1>15 DEF A, L

\* Initially nothing is staged.
LEMMA GenuineInit == Init => GenuineInv
BY DEF Init, GenuineInv

\* A frame that is no chunk leaves the staging buffer and the history.
LEMMA RowTaken ==
    ASSUME Types, NumberInv, TakeFrame, Untorn', ~IsChunk(wr[TopWord])
    PROVE  UNCHANGED <<staging, history>>
<1>1. PICK f : f = wr[TopWord]
      OBVIOUS
<1>2. Values = Whole(f) /\ ~IsChunk(f)
      BY <1>1, WholeTaken
<1>3. ~IsChunk(Values[FreqSignal])
      BY <1>2, WholeRow
<1> QED BY <1>3, TakenChunk DEF ChunkFrames, MessageFrames

\* Only a whole chunk that continues the message staged is added to it.
LEMMA GenuineStep ==
    ASSUME Types, NumberInv, HeardInv, OrderInv, GenuineInv, [Next]_vars, Untorn'
    PROVE  GenuineInv'
<1>0. Heard \subseteq Heard'
      BY HeardGrows
<1>1. CASE TakeFrame
  <2>1. PICK f : f = wr[TopWord]
        OBVIOUS
  <2>2. Latest' = f /\ f \in Published
        BY <1>1, <2>1, WholeTaken
  <2>3. CASE IsChunk(f)
    <3>1. f.what \in Heard'
          BY <1>0, <2>2, <2>3 DEF HeardInv
    <3>2. /\ StagedOf(f.what)'
          /\ history' = history \/ history' = Remembered(Assembled(f.what))
          BY <1>1, <2>1, <2>3, StagedGenuine
    <3>3. \A k \in DOMAIN history' : \E m \in Heard' : history'[k] = Assembled(m)
      <4>1. CASE history' = history
            BY <1>0, <4>1 DEF GenuineInv
      <4>2. CASE history' = Remembered(Assembled(f.what))
        <5>1. ToSet(history') \subseteq ToSet(history) \cup {Assembled(f.what)}
              BY <4>2, RememberedFacts DEF Types
        <5>2. \A t \in ToSet(history) : \E m \in Heard' : t = Assembled(m)
              BY <1>0 DEF GenuineInv, ToSet
        <5>3. \A k \in DOMAIN history' : history'[k] \in ToSet(history')
              BY DEF ToSet
        <5> QED BY <3>1, <5>1, <5>2, <5>3
      <4> QED BY <3>2, <4>1, <4>2
    <3> QED BY <2>2, <3>1, <3>2, <3>3 DEF GenuineInv, StagedOf, Assembled, IsChunk
  <2>4. CASE ~IsChunk(f)
    <3>1. UNCHANGED <<staging, history>>
          BY <1>1, <2>1, <2>4, RowTaken
    <3>2. \A m : StagedOf(m)' <=> StagedOf(m)
          BY <3>1 DEF StagedOf, Assembled
    <3> QED BY <1>0, <2>2, <2>4, <3>1, <3>2 DEF GenuineInv, IsChunk, Assembled
  <2> QED BY <2>3, <2>4
<1>2. CASE Clear \/ Reload
  <2>1. /\ history' = <<>> /\ (staging' = staging \/ staging' = EmptyStaging)
        /\ Latest' = Latest
        BY <1>2 DEF Clear, Reload, Latest, TopWord
  <2>2. CASE staging' = staging
    <3>1. \A m : StagedOf(m)' <=> StagedOf(m)
          BY <2>2 DEF StagedOf, Assembled
    <3> QED BY <1>0, <2>1, <2>2, <3>1 DEF GenuineInv, IsChunk, Assembled, EmptyStaging
  <2>3. CASE staging' = EmptyStaging
        BY <2>1, <2>3 DEF GenuineInv, EmptyStaging
  <2> QED BY <2>1, <2>2, <2>3
<1>3. CASE UNCHANGED <<staging, history, shown>>
  <2>1. Latest' = Latest
        BY <1>3 DEF Latest, TopWord
  <2>2. \A m : StagedOf(m)' <=> StagedOf(m)
        BY <1>3 DEF StagedOf, Assembled
  <2> QED BY <1>0, <1>3, <2>1, <2>2 DEF GenuineInv, IsChunk, Assembled, EmptyStaging
<1>4. TakeFrame \/ Clear \/ Reload \/ UNCHANGED <<staging, history, shown>>
      BY DEF Next, vars, Retune, PushChunk, PushRow, Push, Lands, Verify, Doubt, ClearStore,
             Drop, Connect, BeginRead, ReadNext, ReadFails, device, ghosts
<1> QED BY <1>1, <1>2, <1>3, <1>4

-----------------------------------------------------------------------------

\* All of it, as long as no torn frame was taken and no first chunk missed.
MessageInv == Types /\ NumberInv /\ HeardInv /\ (Untorn => OrderInv /\ GenuineInv)

\* Every step keeps it.
LEMMA MessageStep == ASSUME MessageInv, [Next]_vars PROVE MessageInv'
<1>1. Types'
      BY ScalarStep, ReadStep, FrameStep, StoreStep, StagingStep DEF MessageInv, Types
<1>2. NumberInv' /\ HeardInv'
      BY NumberStep, HeardStep DEF MessageInv
<1>3. ASSUME Untorn' PROVE OrderInv' /\ GenuineInv'
      BY <1>3, MarksStay, OrderStep, GenuineStep DEF MessageInv
<1> QED BY <1>1, <1>2, <1>3 DEF MessageInv

\* It always holds.
LEMMA MessagesAlways == Spec => []MessageInv
<1>1. Init => MessageInv
      BY TypesInit, NumbersInit, HeardInit, OrderInit, GenuineInit DEF MessageInv
<1>2. MessageInv /\ [Next]_vars => MessageInv'
      BY MessageStep
<1> QED BY <1>1, <1>2, PTL DEF Spec

\* A message in the Display's history is one the CM0 decoded, for messages of any
\* number and length on any frequencies, however often they are preempted,
\* replayed, cleared and taken again.
THEOREM HistoryStaysGenuine == Spec => []HistoryGenuine
<1>1. MessageInv => HistoryGenuine
      BY DEF MessageInv, HistoryGenuine, GenuineInv, Untorn, ToSet
<1> QED BY <1>1, MessagesAlways, PTL

-----------------------------------------------------------------------------
(* A message that is due is there, or all its missing chunks are on their way *)

\* Chunk i of m is awaited as frame n, or will be pushed as frame n.
AwaitedAt(n, m, i) == \E x \in awaited : x.id = n /\ IsChunk(x) /\ x.what = m /\ x.index = i
QueuedAt(n, m, i) ==
    n > frames /\ n - frames \in DOMAIN cQueue
    /\ cQueue[n - frames].what = m /\ cQueue[n - frames].index = i
At(n, m, i) == AwaitedAt(n, m, i) \/ QueuedAt(n, m, i)

\* The chunks of m are frames h and up: those up to the last one taken are staged,
\* and the others, of which there are some, are to come.
Run(m, h) ==
    /\ h + Length[m.text] - 1 > Latest.id
    /\ \A i \in 0 .. Length[m.text] - 1 : h + i > Latest.id => At(h + i, m, i)
    /\ h <= Latest.id =>
            /\ IsChunk(Latest) /\ Latest.what = m /\ h + Latest.index = Latest.id
            /\ StagedOf(m) /\ 0 .. Latest.index \subseteq DOMAIN staging.got

Arrives(m) == Assembled(m) \in ToSet(history) \/ \E h \in Nat \ {0} : Run(m, h)
ArriveInv == \A m \in ToSet(stored) : fate[m] = "due" => Arrives(m)

Roomy == Cardinality(Heard) <= HistoryMax

\* The Display never drops a message that it has while the history has room for all
\* that were heard.
LEMMA NoneDropped ==
    ASSUME Types, HeardInv, GenuineInv, NoTwice(history), Roomy, NEW m \in Heard
    PROVE  ToSet(history) \subseteq ToSet(Remembered(Assembled(m)))
<1> DEFINE A == Assembled(m)
           n == Len(history)
<1>1. CASE A \in ToSet(history)
      BY <1>1 DEF Remembered
<1>2. CASE A \notin ToSet(history)
  <2> DEFINE G == {Assembled(x) : x \in Heard}
             g == [x \in Heard |-> Assembled(x)]
             T == ToSet(history)
  <2>1. IsFiniteSet(G) /\ Cardinality(G) <= Cardinality(Heard)
    <3>1. g \in Surjection(Heard, G)
          BY DEF Surjection
    <3> QED BY <3>1, FS_Surjection DEF HeardInv
  <2>2. T \cup {A} \subseteq G
        BY DEF GenuineInv, ToSet
  <2>3. n \in Nat /\ IsFiniteSet(T) /\ Cardinality(T) = n
    <3>1. PICK S : history \in Seq(S)
          BY DEF Types, StagingTypes
    <3> QED BY <3>1, Counted
  <2> HIDE DEF A, G, T, n
  <2>4. IsFiniteSet(T \cup {A}) /\ Cardinality(T \cup {A}) = n + 1
        BY <1>2, <2>3, FS_AddElement DEF T
  <2>5. Cardinality(T \cup {A}) <= Cardinality(G)
        BY <2>1, <2>2, FS_Subset
  <2>6. /\ Cardinality(G) \in Nat /\ Cardinality(Heard) \in Nat
        /\ Cardinality(Heard) <= HistoryMax /\ HistoryMax \in Nat
        BY <2>1, FS_CardinalityType, Constants DEF HeardInv, Roomy
  <2>7. n < HistoryMax
        BY <2>1, <2>3, <2>4, <2>5, <2>6
  <2> QED BY <2>7, RememberedFacts DEF n, A, Types
<1> QED BY <1>1, <1>2

\* A message is not in the history twice.
LEMMA NoTwiceStep == ASSUME Types, NoTwice(history), [Next]_vars PROVE NoTwice(history)'
<1>1. history' = history \/ history' = <<>> \/ \E t : history' = Remembered(t)
  <2>1. CASE TakeFrame
        BY <2>1, TakenChunk
  <2>2. CASE ~TakeFrame
        BY <2>2 DEF Next, vars, Retune, PushChunk, PushRow, Push, Lands, Verify, Doubt, ClearStore,
             Drop, Connect, BeginRead, ReadNext, ReadFails, Clear, Reload, device
  <2> QED BY <2>1, <2>2
<1>2. CASE history' = history \/ history' = <<>>
      BY <1>2 DEF NoTwice
<1>3. ASSUME NEW t, history' = Remembered(t) PROVE NoTwice(history)'
  <2>1. NoTwice(Remembered(t))
        BY RememberedFacts DEF Types
  <2> QED BY <1>3, <2>1 DEF NoTwice
<1> QED BY <1>1, <1>2, <1>3

\* Taking a chunk of m, none of which was skipped, brings m on.
LEMMA TakeArrives ==
    ASSUME Types, NumberInv, HeardInv, OrderInv, GenuineInv, NoTwice(history), Roomy,
           TakeFrame, Untorn', NEW m \in Messages, fate'[m] = "due", Arrives(m)
    PROVE  Arrives(m)'
<1>1. PICK f : f = wr[TopWord]
      OBVIOUS
<1>2. /\ Values = Whole(f) /\ f \in Published /\ f \in Known /\ f.id \in Nat
      /\ Latest.id \in Nat /\ Latest.id <= f.id
      /\ f \in awaited \/ f = Latest
      /\ Latest.id < f.id => f \in awaited
      /\ Latest' = f /\ awaited' = {x \in awaited : x.id > f.id}
      /\ cQueue' = cQueue /\ frames' = frames
      BY <1>1, WholeTaken DEF cm0
<1>3. /\ \A x \in Published : x.id \in Nat /\ x.id <= frames
      /\ frames \in Nat /\ awaited \subseteq Published /\ Latest \in Published
      BY PublishedTypes DEF NumberInv, Published
<1>4. \A x \in awaited : x.id < f.id /\ IsChunk(x) => x.what # m
  <2>1. fate' = Excuse({x.what : x \in {x \in Skipped(f.id) : IsChunk(x)}})
        BY <1>1, TakeFacts
  <2>2. m \notin {x.what : x \in {x \in Skipped(f.id) : IsChunk(x)}}
        BY <2>1, ExcuseFacts DEF Types, StoreTypes
  <2> QED BY <2>2 DEF Skipped
<1>5. CASE Assembled(m) \in ToSet(history)
  <2>1. CASE ~IsChunk(f)
    <3>1. history' = history
          BY <1>1, <2>1, RowTaken
    <3> QED BY <1>5, <3>1 DEF Arrives, Assembled
  <2>2. CASE IsChunk(f)
    <3>1. history' = history \/ history' = Remembered(Assembled(f.what))
          BY <1>1, <2>2, StagedGenuine
    <3>2. f.what \in Heard
          BY <1>2, <2>2 DEF HeardInv
    <3>3. ToSet(history) \subseteq ToSet(Remembered(Assembled(f.what)))
          BY <3>2, NoneDropped
    <3>4. Assembled(m) \in ToSet(history')
          BY <1>5, <3>1, <3>3
    <3> QED BY <3>4 DEF Arrives, Assembled
  <2> QED BY <2>1, <2>2
<1>6. ASSUME NEW h \in Nat \ {0}, Run(m, h) PROVE Arrives(m)'
  <2> DEFINE L == Length[m.text]
             n == f.id
             last == h + L - 1
  <2>1. L \in Nat /\ L >= 2 /\ h \in Nat /\ last \in Nat /\ n \in Nat
        BY <1>2, Constants
  <2>2. last > Latest.id
        BY <1>6 DEF Run
  <2>3. \A i \in 0 .. L - 1 : h + i > n => At(h + i, m, i)'
    <3> SUFFICES ASSUME NEW i \in 0 .. L - 1, h + i > n PROVE At(h + i, m, i)'
        OBVIOUS
    <3>1. h + i \in Nat /\ h + i > Latest.id
          BY <1>2, <2>1
    <3>2. At(h + i, m, i)
          BY <1>6, <3>1 DEF Run
    <3>3. AwaitedAt(h + i, m, i) => AwaitedAt(h + i, m, i)'
          BY <1>2 DEF AwaitedAt, IsChunk
    <3>4. QueuedAt(h + i, m, i) => QueuedAt(h + i, m, i)'
          BY <1>2 DEF QueuedAt
    <3> QED BY <3>2, <3>3, <3>4 DEF At
  <2>4. CASE n < h
    <3>1. last > n /\ ~(h <= n)
          BY <2>1, <2>4
    <3>2. Run(m, h)'
          BY <1>2, <2>3, <3>1 DEF Run
    <3> QED BY <3>2 DEF Arrives
  <2>5. CASE n >= h
    <3>1. ASSUME NEW j \in 0 .. L - 1, h + j > Latest.id, h + j <= n
          PROVE  \E x \in awaited : x.id = h + j /\ IsChunk(x) /\ x.what = m /\ x.index = j
      <4>1. At(h + j, m, j)
            BY <1>6, <3>1 DEF Run
      <4>2. n <= frames
            BY <1>2, <1>3
      <4>3. ~QueuedAt(h + j, m, j)
            BY <1>3, <2>1, <3>1, <4>2 DEF QueuedAt
      <4> QED BY <4>1, <4>3 DEF At, AwaitedAt
    <3>2. ASSUME NEW j \in 0 .. L - 1, h + j > Latest.id, h + j <= n
          PROVE  h + j = n
      <4>1. PICK x \in awaited : x.id = h + j /\ IsChunk(x) /\ x.what = m
            BY <3>1, <3>2
      <4>2. ~(x.id < n)
            BY <1>4, <4>1
      <4> QED BY <2>1, <3>2, <4>1, <4>2
    <3>3. ASSUME NEW j \in 0 .. L - 1, h + j > Latest.id, h + j = n
          PROVE  IsChunk(f) /\ f.what = m /\ f.index = j
      <4>1. PICK x \in awaited : x.id = h + j /\ IsChunk(x) /\ x.what = m /\ x.index = j
            BY <2>1, <3>1, <3>3
      <4>2. x = f
            BY <1>2, <1>3, <3>3, <4>1 DEF NumberInv
      <4> QED BY <4>1, <4>2
    <3>4. ASSUME h <= Latest.id
          PROVE  /\ IsChunk(Latest) /\ Latest.what = m /\ h + Latest.index = Latest.id
                 /\ StagedOf(m) /\ 0 .. Latest.index \subseteq DOMAIN staging.got
                 /\ Latest.index \in Nat
      <4>1. /\ IsChunk(Latest) /\ Latest.what = m /\ h + Latest.index = Latest.id
            /\ StagedOf(m) /\ 0 .. Latest.index \subseteq DOMAIN staging.got
            BY <1>6, <3>4 DEF Run
      <4>2. Latest.index \in Nat
            BY PublishedTypes DEF Known, Frames
      <4> QED BY <4>1, <4>2
    <3>5. /\ IsChunk(f) /\ f.what = m /\ h + f.index = n /\ f.index \in Nat
          /\ n <= last
          /\ f.index # 0 => \/ f = Latest /\ h <= Latest.id
                            \/ h <= Latest.id /\ f.index = Latest.index + 1
      <4>1. CASE n = Latest.id
        <5>1. f = Latest
              BY <1>2, <1>3, <4>1 DEF NumberInv
        <5>2. h <= Latest.id
              BY <2>5, <4>1
        <5> QED BY <2>1, <2>2, <3>4, <4>1, <5>1, <5>2
      <4>2. CASE n > Latest.id /\ h > Latest.id
        <5>1. 0 \in 0 .. L - 1 /\ h + 0 = h /\ h <= n
              BY <2>1, <2>5
        <5>2. h = n
              BY <3>2, <4>2, <5>1
        <5>3. IsChunk(f) /\ f.what = m /\ f.index = 0
              BY <3>3, <4>2, <5>1, <5>2
        <5> QED BY <2>1, <5>2, <5>3
      <4>3. CASE n > Latest.id /\ h <= Latest.id
        <5> DEFINE j == Latest.id + 1 - h
        <5>1. j \in 0 .. L - 1 /\ h + j = Latest.id + 1 /\ h + j > Latest.id /\ h + j <= n
              BY <1>2, <2>1, <2>2, <4>3
        <5>a. j \in Nat /\ j = Latest.index + 1
              BY <1>2, <2>1, <3>4, <4>3, <5>1
        <5> HIDE DEF j
        <5>2. h + j = n
              BY <3>2, <5>1
        <5>3. IsChunk(f) /\ f.what = m /\ f.index = j
              BY <3>3, <5>1, <5>2
        <5> QED BY <1>2, <2>1, <2>2, <4>3, <5>1, <5>2, <5>3, <5>a
      <4> QED BY <1>2, <2>1, <4>1, <4>2, <4>3
    <3>6. /\ StagedOf(m)' /\ f.index \in DOMAIN staging'.got
          /\ ~Restarts(f) => DOMAIN staging.got \subseteq DOMAIN staging'.got
          /\ DOMAIN staging'.got = 0 .. L - 1 => Complete(staging')
          /\ \/ Complete(staging') /\ history' = Remembered(Assembled(m))
             \/ ~Complete(staging')
          BY <1>1, <3>5, StagedGenuine
    <3>7. 0 .. f.index \subseteq DOMAIN staging'.got
      <4>1. CASE f.index = 0
            BY <3>6, <4>1
      <4>2. CASE f.index # 0
        <5>1. h <= Latest.id /\ (f = Latest \/ f.index = Latest.index + 1)
              BY <3>5, <4>2
        <5>2. /\ StagedOf(m) /\ 0 .. Latest.index \subseteq DOMAIN staging.got
              /\ Latest.index \in Nat
              BY <3>4, <5>1
        <5>3. ~Restarts(f)
              BY <3>5, <4>2, <5>2 DEF Restarts, StagedOf
        <5>4. 0 .. Latest.index \subseteq DOMAIN staging'.got
              BY <3>6, <5>2, <5>3
        <5>5. \A i \in 0 .. f.index : i \in 0 .. Latest.index \/ i = f.index
              BY <3>5, <5>1, <5>2
        <5> QED BY <3>6, <5>4, <5>5
      <4> QED BY <4>1, <4>2
    <3>8. CASE last > n
      <4>1. Run(m, h)'
            BY <1>2, <2>3, <3>5, <3>6, <3>7, <3>8 DEF Run, IsChunk
      <4> QED BY <4>1 DEF Arrives
    <3>9. CASE last = n
      <4>1. f.index = L - 1
            BY <2>1, <3>5, <3>9
      <4>2. DOMAIN staging'.got \subseteq 0 .. L - 1
            BY <3>6 DEF StagedOf
      <4>3. Complete(staging')
            BY <3>6, <3>7, <4>1, <4>2
      <4>4. history' = Remembered(Assembled(m))
            BY <3>6, <4>3
      <4>5. Assembled(m) \in ToSet(history')
            BY <4>4, RememberedFacts DEF Types
      <4> QED BY <4>5 DEF Arrives, Assembled
    <3> QED BY <2>1, <3>5, <3>8, <3>9
  <2> QED BY <2>1, <2>4, <2>5
<1> QED BY <1>5, <1>6 DEF Arrives

\* Initially no message is stored.
LEMMA ArriveInit == Init => ArriveInv
BY DEF Init, ArriveInv, ToSet

\* A message is due when its chunks are queued, and excused when one of them is lost.
LEMMA ArriveStep ==
    ASSUME Types, NumberInv, HeardInv, OrderInv, GenuineInv, NoTwice(history),
           cUp => ArriveInv, Roomy', [Next]_vars, Untorn', cUp'
    PROVE  ArriveInv'
<1> SUFFICES ASSUME NEW m \in ToSet(stored'), fate'[m] = "due" PROVE Arrives(m)'
    BY DEF ArriveInv
<1>0. /\ \A x \in Published : x.id \in Nat /\ x.id <= frames
      /\ frames \in Nat /\ Latest \in Published /\ cQueue \in Seq(ChunkFrames)
      /\ Latest.id \in Nat /\ Latest.id <= frames
  <2>1. Latest \in Published
        BY DEF Published
  <2> QED BY <2>1, PublishedTypes DEF NumberInv
<1>a. m \in Messages /\ fate \in [Messages -> Fate] /\ StoreTypes
  <2>1. StoreTypes'
        BY StoreStep
  <2> QED BY <2>1 DEF StoreTypes, ToSet, Types
<1>b. Roomy /\ IsFiniteSet(Heard') /\ IsFiniteSet(Heard)
  <2>1. HeardInv' /\ Heard \subseteq Heard'
        BY HeardStep, HeardGrows
  <2>2. IsFiniteSet(Heard') /\ Cardinality(Heard) <= Cardinality(Heard')
        BY <2>1, FS_Subset DEF HeardInv
  <2>3. Cardinality(Heard') <= HistoryMax
        BY DEF Roomy
  <2>4. Cardinality(Heard) \in Nat /\ Cardinality(Heard') \in Nat /\ HistoryMax \in Nat
        BY <2>2, FS_CardinalityType, Constants DEF HeardInv
  <2> QED BY <2>2, <2>3, <2>4 DEF Roomy, HeardInv
<1>1. ASSUME cUp, m \in ToSet(stored), fate[m] = "due" PROVE Arrives(m)
      BY <1>1 DEF ArriveInv
<1>2. ASSUME Arrives(m), UNCHANGED <<history, staging, shown>>,
             \A n \in Nat : \A i : At(n, m, i) => At(n, m, i)'
      PROVE  Arrives(m)'
  <2>1. CASE Assembled(m) \in ToSet(history)
        BY <1>2, <2>1 DEF Arrives, Assembled
  <2>2. ASSUME NEW h \in Nat \ {0}, Run(m, h) PROVE Run(m, h)'
    <3>1. Latest' = Latest
          BY <1>2 DEF Latest, TopWord
    <3>2. StagedOf(m)' <=> StagedOf(m)
          BY <1>2 DEF StagedOf, Assembled
    <3>3. Length[m.text] \in Nat
          BY <1>a, Constants
    <3>4. \A i \in 0 .. Length[m.text] - 1 : h + i \in Nat
          BY <3>3
    <3> QED BY <1>2, <2>2, <3>1, <3>2, <3>4 DEF Run, IsChunk
  <2> QED BY <1>2, <2>1, <2>2 DEF Arrives
<1>3. CASE PushChunk \/ PushRow
  <2>1. PICK frame \in Known :
              /\ frame.id = frames + 1 /\ frames' = frames + 1
              /\ awaited' = awaited \cup {frame}
              /\ UNCHANGED <<shown, staging, history, stored, fate, cUp>>
              /\ \/ /\ cQueue = <<>> /\ cQueue' = <<>> /\ ~IsChunk(frame)
                 \/ /\ cQueue # <<>> /\ cQueue' = Tail(cQueue)
                    /\ IsChunk(frame) /\ frame.what = cQueue[1].what
                    /\ frame.index = cQueue[1].index
        BY <1>3, PushFacts
  <2>2. ASSUME NEW n \in Nat, NEW i, At(n, m, i) PROVE At(n, m, i)'
    <3>1. CASE AwaitedAt(n, m, i)
          BY <2>1, <3>1 DEF At, AwaitedAt, IsChunk
    <3>2. CASE QueuedAt(n, m, i)
      <4>1. /\ n > frames /\ n - frames \in DOMAIN cQueue /\ n - frames \in Nat
            /\ cQueue[n - frames].what = m /\ cQueue[n - frames].index = i
            BY <1>0, <3>2 DEF QueuedAt
      <4>2. /\ cQueue # <<>> /\ cQueue' = Tail(cQueue)
            /\ IsChunk(frame) /\ frame.what = cQueue[1].what /\ frame.index = cQueue[1].index
            BY <2>1, <4>1
      <4>3. CASE n = frames + 1
        <5>1. n - frames = 1
              BY <1>0, <4>3
        <5> QED BY <2>1, <4>1, <4>2, <4>3, <5>1 DEF At, AwaitedAt, IsChunk
      <4>4. CASE n # frames + 1
        <5> DEFINE k == n - frames - 1
        <5>0. DOMAIN cQueue = 1 .. Len(cQueue) /\ Len(cQueue) \in Nat
              BY <1>0
        <5>1. k \in 1 .. Len(cQueue) - 1 /\ k + 1 = n - frames /\ n - frames' = k /\ n > frames'
              BY <1>0, <2>1, <4>1, <4>4, <5>0
        <5> HIDE DEF k
        <5>2. k \in DOMAIN cQueue' /\ cQueue'[k] = cQueue[k + 1]
              BY <1>0, <4>2, <5>1, HeadTailProperties
        <5> QED BY <4>1, <5>1, <5>2 DEF At, QueuedAt
      <4> QED BY <4>3, <4>4
    <3> QED BY <2>2, <3>1, <3>2 DEF At
  <2> QED BY <1>1, <1>2, <2>1, <2>2
<1>4. ASSUME NEW x \in Messages, Verify(x) PROVE Arrives(m)'
  <2>1. /\ UNCHANGED <<cUp, history, staging, shown, awaited, frames>>
        /\ cQueue' = cQueue \/ cQueue' = QueueAfterShow(x)
        BY <1>4 DEF Verify, device
  <2>2. /\ ToSet(stored') \subseteq ToSet(stored) \cup {x}
        /\ \A y \in Messages : y # x /\ fate'[y] = "due" =>
                 fate[y] = "due" /\ (cQueue' = cQueue \/ y \notin Unsent)
        /\ fate'[x] = "due" => \/ cQueue' = QueueAfterShow(x) /\ cUp
                               \/ cQueue' = cQueue /\ fate[x] = "due" /\ x \in ToSet(stored)
        BY <1>4, <1>a, VerifyFacts
  <2>3. CASE /\ m \in ToSet(stored) /\ fate[m] = "due"
             /\ cQueue' = cQueue \/ m \notin Unsent
    <3>1. Arrives(m)
          BY <1>1, <2>1, <2>3
    <3>2. ASSUME NEW n \in Nat, NEW i, At(n, m, i) PROVE At(n, m, i)'
      <4>1. CASE AwaitedAt(n, m, i)
            BY <2>1, <4>1 DEF At, AwaitedAt, IsChunk
      <4>2. CASE QueuedAt(n, m, i)
        <5>1. m \in Unsent
              BY <4>2 DEF QueuedAt, Unsent
        <5>2. cQueue' = cQueue
              BY <2>3, <5>1
        <5> QED BY <2>1, <4>2, <5>2 DEF At, QueuedAt
      <4> QED BY <3>2, <4>1, <4>2 DEF At
    <3> QED BY <1>2, <2>1, <3>1, <3>2
  <2>4. CASE m = x /\ cQueue' = QueueAfterShow(m)
    <3>0. PICK h \in Nat \ {0} : h = frames + 1
          BY <1>0
    <3> DEFINE L == Length[m.text]
               q == QueueAfterShow(m)
    <3>1. L \in Nat /\ L >= 2 /\ h \in Nat /\ Latest' = Latest /\ frames' = frames /\ cQueue' = q
          BY <1>0, <1>a, <2>1, <2>4, Constants DEF Latest, TopWord
    <3>2. DOMAIN q = 1 .. L /\ \A k \in 1 .. L : q[k] = Chunk("live", m, k - 1, 0)
          BY DEF QueueAfterShow, Chunks
    <3> HIDE DEF q
    <3>3. ASSUME NEW i \in 0 .. L - 1 PROVE At(h + i, m, i)'
      <4>1. /\ h + i > frames /\ (h + i) - frames = i + 1 /\ i + 1 \in 1 .. L /\ (i + 1) - 1 = i
            BY <1>0, <3>0, <3>1
      <4>2. q[i + 1] = Chunk("live", m, i, 0)
            BY <3>2, <4>1
      <4>3. q[i + 1].what = m /\ q[i + 1].index = i
            BY <4>2 DEF Chunk
      <4> QED BY <3>1, <3>2, <4>1, <4>3 DEF At, QueuedAt
    <3>4. h + L - 1 > Latest'.id /\ ~(h <= Latest'.id)
          BY <1>0, <3>0, <3>1
    <3>5. Run(m, h)'
          BY <3>3, <3>4 DEF Run
    <3> QED BY <3>5 DEF Arrives
  <2>5. m = x \/ m # x
        OBVIOUS
  <2> QED BY <1>a, <2>2, <2>3, <2>4
<1>5. CASE Doubt
  <2>1. /\ UNCHANGED <<cUp, cQueue, history, staging, shown, awaited, frames>>
        /\ \E ms : fate' = Excuse(ms)
        /\ \E y : stored' = Picked(stored, {k \in DOMAIN stored : stored[k] # y})
        BY <1>5 DEF Doubt, device
  <2>2. fate[m] = "due"
        BY <1>a, <2>1, ExcuseFacts
  <2>3. m \in ToSet(stored)
    <3>1. PICK y : stored' = Picked(stored, {k \in DOMAIN stored : stored[k] # y})
          BY <2>1
    <3> DEFINE I == {k \in DOMAIN stored : stored[k] # y}
    <3>2. I \subseteq DOMAIN stored
          OBVIOUS
    <3> HIDE DEF I
    <3>3. \A k \in DOMAIN stored' : \E i \in I : stored'[k] = stored[i]
          BY <1>a, <3>1, <3>2, KeptRecords DEF I, StoreTypes
    <3> QED BY <3>2, <3>3 DEF ToSet
  <2>4. \A n \in Nat : \A i : At(n, m, i) => At(n, m, i)'
        BY <2>1 DEF At, AwaitedAt, QueuedAt, IsChunk
  <2> QED BY <1>1, <1>2, <2>1, <2>2, <2>3, <2>4
<1>6. CASE ClearStore
  <2>1. stored' = <<>>
        BY <1>6 DEF ClearStore
  <2> QED BY <2>1 DEF ToSet
<1>7. CASE Connect
  <2>1. /\ UNCHANGED <<history, staging, shown, awaited, frames, stored>> /\ cQueue' = Replay
        BY <1>7 DEF Connect, device
  <2>2. Len(stored) <= HistoryMax
    <3>1. /\ IsFiniteSet(ToSet(stored)) /\ Cardinality(ToSet(stored)) = Len(stored)
          /\ Len(stored) \in Nat
          BY <1>a, Counted DEF StoreTypes
    <3>2. Cardinality(ToSet(stored)) <= Cardinality(Heard)
          BY <1>b, FS_Subset DEF HeardInv
    <3>3. Cardinality(Heard) \in Nat /\ Cardinality(Heard) <= HistoryMax /\ HistoryMax \in Nat
          BY <1>b, FS_CardinalityType, Constants DEF Roomy
    <3> QED BY <3>1, <3>2, <3>3
  <2>3. PICK o \in Nat : \A i \in 1 .. Length[m.text] :
                    o + i \in DOMAIN Replay /\ Replay[o + i] = Chunk("replay", m, i - 1, 0)
        BY <2>1, <2>2, ReplayFacts
  <2>a. PICK h \in Nat \ {0} : h = frames + o + 1
        BY <1>0
  <2> DEFINE L == Length[m.text]
             q == Replay
  <2>4. L \in Nat /\ L >= 2 /\ h \in Nat /\ Latest' = Latest /\ frames' = frames /\ cQueue' = q
        BY <1>0, <1>a, <2>1, Constants DEF Latest, TopWord
  <2>5. \A k \in 1 .. L : o + k \in DOMAIN q /\ q[o + k] = Chunk("replay", m, k - 1, 0)
        BY <2>3
  <2> HIDE DEF q
  <2>6. ASSUME NEW i \in 0 .. L - 1 PROVE At(h + i, m, i)'
    <3>1. h + i > frames /\ (h + i) - frames = o + (i + 1) /\ i + 1 \in 1 .. L /\ (i + 1) - 1 = i
      <4>1. frames \in Nat /\ o \in Nat /\ i \in Nat /\ L \in Nat
            BY <1>0, <2>4
      <4> QED BY <2>a, <4>1
    <3>2. o + (i + 1) \in DOMAIN q /\ q[o + (i + 1)] = Chunk("replay", m, i, 0)
          BY <2>5, <3>1
    <3>3. q[o + (i + 1)].what = m /\ q[o + (i + 1)].index = i
          BY <3>2 DEF Chunk
    <3> QED BY <2>4, <3>1, <3>2, <3>3 DEF At, QueuedAt
  <2>7. h + L - 1 > Latest'.id /\ ~(h <= Latest'.id)
        BY <1>0, <2>a, <2>4
  <2>8. Run(m, h)'
        BY <2>6, <2>7 DEF Run
  <2> QED BY <2>8 DEF Arrives
<1>8. CASE Clear \/ Reload
  <2>1. fate' = Excuse(ToSet(stored)) /\ stored' = stored
        BY <1>8 DEF Clear, Reload, cm0
  <2>2. m \notin ToSet(stored)
        BY <1>a, <2>1, ExcuseFacts
  <2> QED BY <2>1, <2>2
<1>9. CASE TakeFrame
  <2>1. /\ UNCHANGED <<cUp, stored>> /\ \E ms : fate' = Excuse(ms)
        BY <1>9, TakeFacts DEF cm0
  <2>2. fate[m] = "due" /\ cUp /\ m \in ToSet(stored)
        BY <1>a, <2>1, ExcuseFacts
  <2>3. Arrives(m)
        BY <1>1, <2>2
  <2> QED BY <1>9, <1>a, <1>b, <2>3, TakeArrives
<1>10. CASE UNCHANGED <<cUp, cQueue, stored, history, staging, shown, awaited, frames, fate>>
  <2>1. \A n \in Nat : \A i : At(n, m, i) => At(n, m, i)'
        BY <1>10 DEF At, AwaitedAt, QueuedAt, IsChunk
  <2> QED BY <1>1, <1>2, <1>10, <2>1
<1>11. ~Drop
       BY DEF Drop
<1>12. \/ PushChunk \/ PushRow \/ (\E x \in Messages : Verify(x)) \/ Doubt \/ ClearStore \/ Connect
       \/ Clear \/ Reload \/ TakeFrame
       \/ UNCHANGED <<cUp, cQueue, stored, history, staging, shown, awaited, frames, fate>>
       BY <1>11 DEF Next, vars, Retune, Lands, BeginRead, ReadNext, ReadFails, cm0, device, ghosts
<1> QED BY <1>3, <1>4, <1>5, <1>6, <1>7, <1>8, <1>9, <1>10, <1>12

-----------------------------------------------------------------------------

DeliveryInv == MessageInv /\ NoTwice(history) /\ (Untorn /\ cUp /\ Roomy => ArriveInv)

\* Heard only grows, so there was room before if there is room after.
LEMMA RoomBefore == ASSUME MessageInv, [Next]_vars, Roomy' PROVE Roomy
<1>1. HeardInv' /\ Heard \subseteq Heard'
      BY HeardStep, HeardGrows DEF MessageInv
<1>2. IsFiniteSet(Heard') /\ IsFiniteSet(Heard) /\ Cardinality(Heard) <= Cardinality(Heard')
      BY <1>1, FS_Subset DEF HeardInv
<1>3. Cardinality(Heard') <= HistoryMax
      BY DEF Roomy
<1>4. Cardinality(Heard) \in Nat /\ Cardinality(Heard') \in Nat /\ HistoryMax \in Nat
      BY <1>2, FS_CardinalityType, Constants
<1> QED BY <1>2, <1>3, <1>4 DEF Roomy

\* When all was sent and read, the Display has every stored message of which no
\* chunk was skipped, preempted or cleared, also after a reconnect: for frames,
\* messages and histories of any length.
THEOREM AllArriveAlways == Spec => []AllArrive
<1>1. Init => DeliveryInv
      BY TypesInit, NumbersInit, HeardInit, OrderInit, GenuineInit, ArriveInit
      DEF DeliveryInv, MessageInv, Init, NoTwice
<1>2. DeliveryInv /\ [Next]_vars => DeliveryInv'
  <2> SUFFICES ASSUME DeliveryInv, [Next]_vars PROVE DeliveryInv'
      OBVIOUS
  <2>1. MessageInv'
        BY MessageStep DEF DeliveryInv
  <2>2. NoTwice(history)'
        BY NoTwiceStep DEF DeliveryInv, MessageInv
  <2>3. ASSUME Untorn', cUp', Roomy' PROVE ArriveInv'
        BY <2>3, MarksStay, RoomBefore, ArriveStep DEF DeliveryInv, MessageInv
  <2> QED BY <2>1, <2>2, <2>3 DEF DeliveryInv
<1>3. DeliveryInv => AllArrive
  <2> SUFFICES ASSUME DeliveryInv, Untorn, Roomy, Between, cQueue = <<>>, awaited = {},
                      NEW m \in ToSet(stored), fate[m] = "due"
               PROVE  Assembled(m) \in ToSet(history)
      BY DEF AllArrive, Untorn, Roomy
  <2>1. Arrives(m)
        BY DEF DeliveryInv, Between, ArriveInv
  <2>2. ASSUME NEW h \in Nat \ {0}, Run(m, h) PROVE FALSE
    <3>1. m \in Messages
          BY DEF DeliveryInv, MessageInv, Types, StoreTypes, ToSet
    <3> DEFINE i == Length[m.text] - 1
    <3>2. i \in 0 .. Length[m.text] - 1 /\ h + i = h + Length[m.text] - 1
          BY <3>1, Constants
    <3>3. h + i > Latest.id => At(h + i, m, i)
          BY <2>2, <3>2 DEF Run
    <3>4. At(h + i, m, i)
          BY <2>2, <3>2, <3>3 DEF Run
    <3> QED BY <3>4 DEF At, AwaitedAt, QueuedAt
  <2> QED BY <2>1, <2>2 DEF Arrives
<1> QED BY <1>1, <1>2, <1>3, PTL DEF Spec

=============================================================================
