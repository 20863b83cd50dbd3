---------------------------- MODULE MorseDecoder ----------------------------
(***************************************************************************)
(* The Morse decoder of the IQ path: blocks of samples are cut into 20 ms  *)
(* windows, windows with and without tone are debounced into marks and     *)
(* gaps, and a long silence turns those into text, or into a rejected      *)
(* attempt.  A sender, which is not part of the program, keys a text.      *)
(*                                                                         *)
(* Times are tenths of a millisecond, ratios and confidences are parts of  *)
(* One.  A character is the sequence of its dots and dashes, 1 and 3 units *)
(* long.  The tone search is abstracted to its verdict, with full evidence *)
(* for every window.                                                       *)
(*                                                                         *)
(* The decoder runs in the processor thread of IqStream, and one module of *)
(* proofs speaks of both: hence the names MorseInit, MorseNext, MorseSpec. *)
(***************************************************************************)
EXTENDS Integers, Sequences, SequencesExt, FiniteSetsExt

CONSTANTS
    Sendings,   \* [text, windows, noise]: a text, how it is heard, and how many
                \* of its windows may be heard wrongly
    Rates       \* sample rates the receiver may run at

AudioRate == 16000

\* A text is keyed in some windows, and every rate is a whole multiple of the
\* audio rate, as those of sample_rate_for are (240000, 1024000, 2400000).
ASSUME MorseAssumption ==
    /\ \A s \in Sendings : /\ s.text # <<>> /\ s.noise \in Nat
                            /\ s.windows \in Seq(BOOLEAN)
    /\ \A r \in Rates : r \in Nat /\ r > 0 /\ r % AudioRate = 0

VARIABLES
    rate,       \* sample_rate_hz
    sent,       \* history: the text being keyed, <<>> once tuned away
    script,     \* the windows still to come, silence after them
    noise,      \* windows that may still be heard wrongly
    held,       \* history: nothing was misheard, the carrier was never lost
    carrier,    \* carrier_active
    release,    \* _carrier_release_blocks
    pick,       \* _pick_offset
    previous,   \* _previous is not None
    audio,      \* len(_audio)
    morse,      \* the debouncer and the MorseTimingDecoder
    published,  \* history: the texts published
    fed,        \* history: samples since the reset
    windows     \* history: windows since the reset

sender == <<rate, sent, script, noise, held>>
framing == <<pick, previous, audio, fed, windows>>
morseVars == <<sender, carrier, release, framing, morse, published>>

-----------------------------------------------------------------------------
(* Fitting the speed *)

One == 10000
Unit == [min |-> 400, max |-> 1500, initial |-> 923]
Dot == 1
Dash == 3

AtMost(x, y) == IF x < y THEN x ELSE y
AtLeast(x, y) == IF x > y THEN x ELSE y
Abs(x) == AtLeast(x, -x)
Total(s) == FoldLeft(LAMBDA a, b : a + b, 0, s)
Ratio(duration, unit) == (duration * One) \div unit
Off(duration, unit, ideals) ==
    Min({Abs(Ratio(duration, unit) - k * One) : k \in ideals})

\* Op(x), with x evaluated once
With(x, Op(_)) == CHOOSE y \in {Op(v) : v \in {x}} : TRUE

\* _trimmed_mean
TrimmedMean(values) ==
    LET n == Len(values)
        trim == IF n >= 8 THEN AtLeast(1, n \div 10) ELSE 0
        kept == SubSeq(SortSeq(values, <), trim + 1, n - trim)
    IN  Total(kept) \div AtLeast(1, Len(kept))

Score(unit, taught, marks, gaps) ==
    TrimmedMean([i \in DOMAIN marks |-> Off(marks[i], unit, {1, 3})] \o
                [i \in DOMAIN gaps |-> Off(gaps[i], unit, {1, 3, 7})])
    + (15 * Ratio(Abs(unit - taught), taught)) \div 100

\* _estimate_unit: the first of the best candidates, and how well it fits
EstimateUnit(taught, marks, gaps) ==
    LET all == <<taught, Unit.initial>>
                \o FlattenSeq([i \in DOMAIN marks |-> <<marks[i], marks[i] \div 3>>])
                \o FlattenSeq([i \in DOMAIN gaps |->
                        <<gaps[i], gaps[i] \div 3, gaps[i] \div 7>>])
        plausible == SelectSeq(all, LAMBDA u : Unit.min <= u /\ u <= Unit.max)
        Fit(u) == [unit |-> u, score |-> Score(u, taught, marks, gaps)]
        best == FoldLeft(LAMBDA b, u : LET f == Fit(u) IN IF f.score < b.score THEN f ELSE b,
                         Fit(Head(plausible)), Tail(plausible))
    IN  [unit |-> best.unit, fit |-> AtLeast(0, One - (best.score * 100) \div 85)]

\* at most 40 % from the speed taught
Clamp(unit, taught) ==
    LET near == AtLeast((taught * 60) \div 100, AtMost((taught * 140) \div 100, unit))
    IN  AtLeast(Unit.min, AtMost(Unit.max, near))

-----------------------------------------------------------------------------
(* Clicks and dropouts *)

Runs(marks, gaps) ==
    FlattenSeq([i \in DOMAIN marks |->
        <<[tone |-> TRUE, length |-> marks[i]]>> \o
        (IF i \in DOMAIN gaps THEN <<[tone |-> FALSE, length |-> gaps[i]]>> ELSE <<>>)])

Short(run, unit) == run.length * 100 < unit * (IF run.tone THEN 55 ELSE 60)

\* The first short run between two of the other kind becomes one with them.
MergeFirst(runs, unit) ==
    LET short == {i \in 2 .. Len(runs) - 1 :
            /\ Short(runs[i], unit)
            /\ \A j \in {i - 1, i + 1} : runs[j].tone # runs[i].tone}
        i == Min(short)
    IN  IF short = {} THEN runs
        ELSE SubSeq(runs, 1, i - 2)
             \o <<[tone |-> ~runs[i].tone,
                   length |-> Total([k \in 1 .. 3 |-> runs[i - 2 + k].length])]>>
             \o SubSeq(runs, i + 2, Len(runs))

\* A short mark at the front goes, with the gap behind it.
TrimFront(runs, unit) ==
    IF runs = <<>> \/ ~runs[1].tone \/ ~Short(runs[1], unit) THEN runs
    ELSE SubSeq(runs, IF Len(runs) > 1 /\ ~runs[2].tone THEN 3 ELSE 2, Len(runs))

\* _clean_runs: until nothing changes, which takes fewer turns than runs
Repeat(Op(_), runs) == FoldLeft(LAMBDA r, run : With(r, Op), runs, runs)
Lengths(kind, runs) ==
    FoldLeft(LAMBDA s, r : IF r.tone = kind THEN Append(s, r.length) ELSE s, <<>>, runs)

CleanRuns(marks, gaps, unit) ==
    With(Runs(marks, gaps), LAMBDA raw :
    With(Repeat(LAMBDA r : MergeFirst(r, unit), raw), LAMBDA merged :
    With(Reverse(Repeat(LAMBDA r : TrimFront(r, unit), merged)), LAMBDA front :
    With(Reverse(Repeat(LAMBDA r : TrimFront(r, unit), front)), LAMBDA clean :
        [marks |-> Lengths(TRUE, clean), gaps |-> Lengths(FALSE, clean)]))))

-----------------------------------------------------------------------------
(* From runs to text *)

Patterns(n) == [1 .. n -> {Dot, Dash}]
Letters == UNION {Patterns(n) : n \in 1 .. 4} \
    {<<Dot, Dot, Dash, Dash>>, <<Dot, Dash, Dot, Dash>>,
     <<Dash, Dash, Dash, Dot>>, <<Dash, Dash, Dash, Dash>>}
Digits == {p \in Patterns(5) : \E k \in 0 .. 4, s \in {Dot, Dash} :
                \A i \in 1 .. 5 : (p[i] = s) <=> (i <= k)}
Useful == Letters \cup Digits
Quotes == {<<1,3,3,3,3,1>>, <<1,3,3,1,3,1>>}    \* ' and @
OtherSigns == Quotes \cup {<<1,3,1,3,1,3>>, <<3,3,1,1,3,3>>, <<3,1,3,1,3,3>>,
                           <<3,1,1,3,1>>, <<3,1,1,1,1,3>>}

\* A text is a sequence of words, a word one of characters.  A gap of 4 units
\* ends a word, one of 1.5 a character, and the end both.
Key(r, symbol, gap, unit) ==
    LET char == Append(r.char, symbol)
        word == Append(r.word, char)
    IN  CASE gap >= 4 * unit ->
                [words |-> Append(r.words, word), word |-> <<>>, char |-> <<>>]
          [] gap < 4 * unit /\ 2 * gap >= 3 * unit ->
                [r EXCEPT !.word = word, !.char = <<>>]
          [] OTHER -> [r EXCEPT !.char = char]

ReadRuns(marks, gaps, unit) ==
    FoldLeft(LAMBDA r, i :
        Key(r, IF marks[i] < 2 * unit THEN Dot ELSE Dash,
            IF i \in DOMAIN gaps THEN gaps[i] ELSE 4 * unit, unit),
        [words |-> <<>>, word |-> <<>>, char |-> <<>>],
        [i \in DOMAIN marks |-> i]).words

TimingScores(marks, gaps, unit) ==
    [i \in DOMAIN marks |-> AtLeast(0, One - (Off(marks[i], unit,
            IF marks[i] < 2 * unit THEN {1} ELSE {3}) * 10) \div 9)] \o
    [i \in DOMAIN gaps |-> AtLeast(0, One - (Off(gaps[i], unit, {1, 3, 7}) * 100) \div 125)]

\* A callsign, less the signs around it, has three to eight letters and digits,
\* at least one of each.
Strip(word) ==
    LET solid == {i \in DOMAIN word : word[i] \in Useful \cup Quotes}
    IN  IF solid = {} THEN <<>> ELSE SubSeq(word, Min(solid), Max(solid))
IsCallsign(word) ==
    /\ Len(word) \in 3 .. 8 /\ ToSet(word) \subseteq Useful
    /\ ToSet(word) \cap Letters # {} /\ ToSet(word) \cap Digits # {}
CallsignsDiffer(text) ==
    LET calls == SelectSeq([i \in DOMAIN text |-> Strip(text[i])], IsCallsign)
    IN  calls # <<>> /\ Head(calls) # Last(calls)

\* Mutant: the text is read at the speed taught, not at the one fitted.
SpeedTaught(fitted, taught) == taught

Speed(fitted, taught) == Clamp(fitted.unit, taught)

\* _finish_message.  A question mark counts as an unknown pattern.
Judge(taught, marks, gaps, fitted) ==
    LET unit == Speed(fitted, taught)
        text == ReadRuns(marks, gaps, unit)
        characters == FlattenSeq(text)
        Count(S) == Len(SelectSeq(characters, LAMBDA c : c \in S))
        known == IF characters = <<>> THEN 0
                 ELSE (Count(Useful \cup OtherSigns) * One) \div Len(characters)
        timing == IF marks = <<>> THEN 0
                  ELSE (55 * fitted.fit
                        + 45 * TrimmedMean(TimingScores(marks, gaps, unit))) \div 100
        plain == (50 * timing + 30 * known + 20 * One) \div 100
        confidence == IF CallsignsDiffer(text) THEN (plain * 70) \div 100 ELSE plain
    IN  [text |-> text,
         accepted |-> Count(Useful) >= 4 /\ known >= 7500 /\ confidence >= 7800,
         unit |-> IF timing >= 8000 THEN (25 * taught + 75 * unit) \div 100 ELSE taught]

Attempt(taught, marks, gaps) ==
    With(Speed(EstimateUnit(taught, marks, gaps), taught), LAMBDA first :
    With(CleanRuns(marks, gaps, AtMost(first, taught)), LAMBDA clean :
    With(EstimateUnit(taught, clean.marks, clean.gaps), LAMBDA fitted :
        Judge(taught, clean.marks, clean.gaps, fitted))))

-----------------------------------------------------------------------------
(* Debouncing *)

Window == 200
RequiredWindows == 2            \* ATTACK_WINDOWS and RELEASE_WINDOWS
Click == 120
OrdinaryTimeout(unit) == AtLeast(10000, 10 * unit)
FallbackTimeout(unit) == AtLeast(50000, 40 * unit)

\* stable_tone and the timing decoder's tone are one field, each changes with
\* the other; candidate counts the windows that contradict it.
Fresh == [unit |-> Unit.initial, tone |-> FALSE, elapsed |-> 0, marks |-> <<>>,
          gaps |-> <<>>, candidate |-> 0, texts |-> <<>>, heard |-> <<>>]

FinishMessage(d) ==
    With(Attempt(d.unit, d.marks, d.gaps), LAMBDA attempt :
    [d EXCEPT !.marks = <<>>, !.gaps = <<>>, !.heard = <<>>,
              !.texts = IF attempt.accepted THEN Append(@, attempt.text) ELSE @,
              !.unit = IF attempt.accepted THEN attempt.unit ELSE @])

\* Mutant: a carrier does not hold a message together.
TimeoutAlways(unit, active) == OrdinaryTimeout(unit)

Timeout(unit, active) == IF active THEN FallbackTimeout(unit) ELSE OrdinaryTimeout(unit)

\* A run ends when the tone changes; a long silence ends the message.
RunOn(d, tone, duration) ==
    LET turns == tone # d.tone
    IN  [d EXCEPT
            !.tone = tone, !.candidate = 0,
            !.elapsed = IF turns THEN duration ELSE @ + duration,
            !.marks = IF turns /\ d.tone /\ d.elapsed >= Click
                      THEN Append(@, d.elapsed) ELSE @,
            !.gaps = IF turns /\ ~d.tone /\ d.marks # <<>> /\ d.elapsed >= Click
                     THEN Append(@, d.elapsed) ELSE @]
Feed(d, tone, duration, active) ==
    LET run == RunOn(d, tone, duration)
    IN  IF ~tone /\ run.marks # <<>> /\ run.elapsed >= Timeout(d.unit, active)
        THEN FinishMessage(run) ELSE run

\* Mutant: the windows before the debounced one are lost to the run.
FeedToneWindowOnce(d0, raw, active) ==
    LET d == [d0 EXCEPT !.heard = Append(@, raw)]
        count == d.candidate + 1
    IN  IF raw = d.tone \/ count >= RequiredWindows
        THEN Feed(d, raw, Window, active)
        ELSE [d EXCEPT !.candidate = count]

\* _feed_tone_window: windows that turn out to be a click or a dropout are
\* given back to the run they interrupted, others begin the new one.
FeedToneWindow(d0, raw, active) ==
    LET d == [d0 EXCEPT !.heard = Append(@, raw)]
        count == d.candidate + 1
    IN  IF raw = d.tone \/ count >= RequiredWindows
        THEN Feed(d, raw, count * Window, active)
        ELSE [d EXCEPT !.candidate = count]

-----------------------------------------------------------------------------
(* Blocks of samples *)

WindowSamples == AudioRate \div 50

\* A read is 100 ms of samples, in whole USB packets of 256 (start).
Stride == rate \div AudioRate
Size == ((rate \div 10 + 255) \div 256) * 256

ReleaseBlocks == 5

MorseInit ==
    /\ rate \in Rates
    /\ \E s \in Sendings : sent = s.text /\ script = s.windows /\ noise = s.noise
    /\ held = TRUE
    /\ carrier = FALSE /\ release = 0
    /\ pick = 0 /\ previous = FALSE /\ audio = 0
    /\ morse = Fresh
    /\ published = <<>>
    /\ fed = 0 /\ windows = 0

\* The hysteresis of the carrier, ahead of the decoder: strong is a margin of
\* 8 dB while there is no carrier, of 4 dB while there is one.
Carrier(strong) ==
    LET lost == ~strong /\ release + 1 >= ReleaseBlocks
    IN  /\ carrier' = IF carrier THEN ~lost ELSE strong
        /\ release' = IF carrier /\ ~strong /\ ~lost THEN release + 1 ELSE 0

\* Mutant: every block starts picking anew.
NextPickAnew == 0

NextPick == (pick - Size) % Stride

Busy == script # <<>> \/ morse.marks # <<>> \/ morse.tone \/ morse.candidate > 0

\* Every Stride-th sample is picked, across blocks; a picked sample gives an
\* audio sample with the one before it.
Picks == IF Size > pick THEN (Size - pick - 1) \div Stride + 1 ELSE 0
Buffered == audio + (IF previous \/ Picks = 0 THEN Picks ELSE Picks - 1)

\* The windows of a block, one after the other
FeedWindows(raw, active) ==
    LET after[i \in 0 .. Len(raw)] ==
            IF i = 0 THEN [morse EXCEPT !.texts = <<>>]
            ELSE With(after[i - 1], LAMBDA d : FeedToneWindow(d, raw[i], active))
    IN  after[Len(raw)]

FeedIq(strong) ==
    LET n == Buffered \div WindowSamples
        keyed == [i \in 1 .. n |-> i \in DOMAIN script /\ script[i]]
    IN  /\ Busy                 \* bound: nothing is watched once all is silent
        /\ pick' = NextPick
        /\ previous' = (previous \/ Picks > 0)
        /\ audio' = Buffered % WindowSamples
        /\ Carrier(strong)
        /\ \E k \in 0 .. noise : \E wrong \in kSubset(k, 1 .. n) :
            /\ noise' = noise - k
            /\ held' = (held /\ wrong = {} /\ carrier')
            /\ morse' = FeedWindows([i \in 1 .. n |-> keyed[i] # (i \in wrong)], carrier')
        /\ published' = published \o morse'.texts
        /\ script' = SubSeq(script, n + 1, Len(script))
        /\ fed' = fed + Size /\ windows' = windows + n
        /\ UNCHANGED <<rate, sent>>

\* Mutant: the timing decoder keeps what it has.
RetuneKeepsTiming ==
    /\ sent # <<>>
    /\ sent' = <<>> /\ script' = <<>>
    /\ morse' = [morse EXCEPT !.candidate = 0, !.texts = <<>>]
    /\ carrier' = FALSE /\ release' = 0
    /\ pick' = 0 /\ previous' = FALSE /\ audio' = 0
    /\ fed' = 0 /\ windows' = 0
    /\ UNCHANGED <<rate, noise, held, published>>

\* start() on another frequency, where nothing is keyed: reset
Retune ==
    /\ sent # <<>>
    /\ sent' = <<>> /\ script' = <<>>
    /\ morse' = Fresh /\ carrier' = FALSE /\ release' = 0
    /\ pick' = 0 /\ previous' = FALSE /\ audio' = 0
    /\ fed' = 0 /\ windows' = 0
    /\ UNCHANGED <<rate, noise, held, published>>

MorseNext == Retune \/ \E strong \in BOOLEAN : FeedIq(strong)

MorseSpec == MorseInit /\ [][MorseNext]_morseVars

-----------------------------------------------------------------------------
(* Properties *)

\* What is published is what was keyed, or whole words of it when the carrier
\* was lost in a pause: no speed, no framing of the blocks and no window that
\* was heard wrongly makes another text of it.
Piece(text) == \E i, j \in DOMAIN sent : text = SubSeq(sent, i, j)
ReadRight == sent # <<>> => \A i \in DOMAIN published : Piece(published[i])

\* The marks and gaps are the runs of the windows heard since the last
\* attempt, where a window is tone or silence when one of its neighbours
\* agrees and else belongs to the run before it.
Sure(h, j) == \E k \in {j - 1, j + 1} \cap DOMAIN h : h[k] = h[j]
Label(h) ==
    LET label[j \in 0 .. Len(h)] ==
            IF j = 0 THEN FALSE ELSE IF Sure(h, j) THEN h[j] ELSE label[j - 1]
    IN  label
Turns(h) ==
    LET label == Label(h)
        turns[j \in 0 .. Len(h)] ==
            IF j = 0 THEN <<>>
            ELSE IF label[j] # label[j - 1] THEN Append(turns[j - 1], j)
            ELSE turns[j - 1]
    IN  turns
Lasting(turns, first) ==
    [i \in 1 .. (Len(turns) - first + 1) \div 2 |->
        (turns[2 * i + first - 1] - turns[2 * i + first - 2]) * Window]
Agrees(d, h, turns) ==
    /\ d.marks = Lasting(turns, 1) /\ d.gaps = Lasting(turns, 2)
    /\ d.tone <=> Len(turns) % 2 = 1
    /\ turns # <<>> => d.elapsed = (Len(h) - Last(turns) + 1) * Window
Settled(d) == SubSeq(d.heard, 1, Len(d.heard) - d.candidate)
RunsMatchSignal ==
    \E h \in {Settled(morse)} : \E turns \in {Turns(h)[Len(h)]} : Agrees(morse, h, turns)

\* A sending under a carrier that stays is published whole, and once.
WholeRead == held /\ sent # <<>> /\ ~Busy => published = <<sent>>

\* Time on the decoder's clock is time on the air, whatever the size of the
\* reads: no sample between two blocks is lost or counted twice.
ClockIsAir ==
    LET picks == (fed + Stride - 1) \div Stride
    IN  windows * WindowSamples + audio = IF fed = 0 THEN 0 ELSE picks - 1

\* Nothing received before a retune is published after it.
FreshStart == [][sent = <<>> => published' = published]_morseVars

=============================================================================
