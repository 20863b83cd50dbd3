---------------------------- MODULE MessageStore ----------------------------
(***************************************************************************)
(* The durable history of decoded Morse messages (store.py MessageRecord   *)
(* and MessageStore) and the main loop's use of it (app.py): a reception   *)
(* is clustered with the similar ones of its frequency, the texts of a     *)
(* cluster vote letter by letter, three agreeing receptions verify the     *)
(* record, a verified record is shown, and every change is saved.          *)
(*                                                                         *)
(* A text is a sequence of letters, "?" where one was not understood.      *)
(* SequenceMatcher compares and aligns the texts.  confidence is           *)
(* abstracted to "at least 0.82" and times to multiples of the             *)
(* DuplicateWindow.  last_seen_unix comes from a wall clock that may be    *)
(* set back.                                                               *)
(***************************************************************************)
EXTENDS Integers, SequencesExt, Subsequences, Sums, SequenceMatcher

CONSTANTS Texts,            \* the texts received, sequences of letters
          Decodes,          \* the receptions: <<text, confidence >= 0.82>>
          Erased,           \* the letter "?"
          Freqs,            \* the frequencies a message is stored under
          NoText,           \* last_morse_message is None
          MaxRecords,       \* MAX_RECORDS
          ClusterWindow,    \* CLUSTER_WINDOW_SECONDS, in steps of the clock
          DuplicateWindow,  \* MORSE_DUPLICATE_SECONDS, in steps of the clock
          ReplayMax,        \* records replayed to a Display
          Parts,            \* a ratio of 1, in the parts ratios are counted in
          Files,            \* the histories the service may find at its start
          MaxWall,          \* bound: the latest wall-clock time
          MaxHeard,         \* bound: receptions
          MaxSetBacks,      \* bound: times the wall clock is set back
          MaxEnds           \* bound: times the service ends

\* The letter t has where it is aligned with the place p of s: <<s, p, t, letter>>.
Readings ==
    {reading \in UNION {{<<s, pair[1], t, t[pair[2]]>> : pair \in Aligned(s, t)}
                            : s \in Texts, t \in Texts} : reading[4] # Erased}

\* A record as observe leaves it: it has as much evidence as receptions, and a
\* verified one has three, and a text that is one of those received but for
\* letters received at a place aligned with theirs.
Letters(text, counts) ==
    \E m \in Texts :
        /\ counts[m] > 0 /\ DOMAIN text = DOMAIN m
        /\ \A p \in DOMAIN text :
              \/ text[p] = m[p]
              \/ \E t \in Texts : counts[t] > 0 /\ <<m, p, t, text[p]>> \in Readings

Kept(rs) ==
    /\ rs \in Seq({rs[i] : i \in DOMAIN rs}) /\ Len(rs) <= MaxRecords
    /\ \A i \in DOMAIN rs :
          /\ rs[i].freq \in Freqs /\ rs[i].first <= rs[i].last
          /\ rs[i].counts \in [Texts -> Nat] /\ rs[i].evidence = Sum(rs[i].counts)
          /\ rs[i].verified => rs[i].evidence >= 3 /\ Letters(rs[i].text, rs[i].counts)

\* The parts divide evenly, so that ratios are compared exactly.  The file
\* found was written by this program.
ASSUME MessageAssumption ==
    /\ IsFiniteSet(Texts) /\ <<>> \notin Texts
    /\ \A s, t \in Texts : Parts % (Len(s) + Len(t)) = 0
    /\ Decodes \subseteq Texts \X BOOLEAN
    /\ MaxRecords \in Nat \ {0} /\ ReplayMax \in Nat \ {0}
    /\ {ClusterWindow, DuplicateWindow, MaxWall, MaxHeard, MaxSetBacks, MaxEnds}
          \subseteq Nat
    /\ \A file \in Files : Kept(file)

VARIABLES records,      \* message_records of the service, oldest first
          disk,         \* the messages of the file
          up,           \* the service runs
          wall,         \* time.time(), capped by MaxWall
          sinceLast,    \* monotonic time since the last verified reception
          lastMessage,  \* last_morse_message
          shown,        \* <<text, frequency>> of the records sent to the Display
          leftOut,      \* history: those too old for the last replay
          heard,        \* history: receptions whose record was saved
          dropped,      \* history: receptions of records pushed out by the bound
          received, setBacks, ends   \* what the bounds count

history == <<leftOut, heard, dropped>>
vars == <<records, disk, up, wall, sinceLast, lastMessage, shown, history,
          received, setBacks, ends>>

-----------------------------------------------------------------------------
(* Similarity, votes, verification *)

Known(t) == SelectSeq(t, LAMBDA x : x # Erased)

\* MessageStore._similar
Similar(s, t) ==
    \/ s = t
    \/ LET a == Known(s)
           b == Known(t)
           few  == Min({Len(a), Len(b)})
           many == Max({Len(a), Len(b)})
       IN few >= 4 /\ 100 * few >= 65 * many /\ 100 * Ratio(a, b, few + many) >= 65 * (few + many)

NoCounts == [t \in Texts |-> 0]
One(t) == [NoCounts EXCEPT ![t] = 1]
Plus(c, d) == [t \in Texts |-> c[t] + d[t]]

\* The receptions the records rs have at the positions I, and on a frequency.
CountsAt(rs, I) == [t \in Texts |-> Sum([i \in I |-> rs[i].counts[t]])]
On(rs, f) == {i \in DOMAIN rs : rs[i].freq = f}
CountsOn(rs, f) == CountsAt(rs, On(rs, f))

Variants(counts) == {t \in Texts : counts[t] > 0}

\* The sum of the ratios of a text to the receptions: of one of them, and of
\* the consensus.
Ratios == [s \in Texts |-> [t \in Texts |-> Ratio(s, t, Parts)]]
Closeness(s, counts) == MapThenSumSet(LAMBDA t : Ratios[s][t] * counts[t], Variants(counts))
Agreement(text, counts) ==
    MapThenSumSet(LAMBDA t : Ratio(text, t, Parts) * counts[t], Variants(counts))

Medoids(counts) ==
    {s \in Variants(counts) :
        \A t \in Variants(counts) : Closeness(t, counts) <= Closeness(s, counts)}

Support(counts, m, p, x) ==
    Sum([t \in {u \in Variants(counts) : <<m, p, u, x>> \in Readings} |-> counts[t]])

\* The letters that would replace that of the medoid m at a place: <<place, letter>>.
Winners(counts, m) ==
    LET read == {<<r[2], r[4]>> : r \in {r \in Readings : r[1] = m /\ counts[r[3]] > 0}}
        Votes(p, x) == Support(counts, m, p, x)
    IN {w \in read :
          /\ \A v \in read : v[1] = w[1] => Votes(v[1], v[2]) <= Votes(w[1], w[2])
          /\ \/ Votes(w[1], w[2]) >= 2 /\ Votes(w[1], w[2]) > Votes(w[1], m[w[1]])
             \/ m[w[1]] = Erased}

\* The medoid with the votes counted; of the letters of one place that tie, the
\* first in the order of the variants.
Voted(m, winners, order) ==
    [p \in DOMAIN m |->
        LET Read(i) == {w \in winners : w[1] = p /\ <<m, p, order[i], w[2]>> \in Readings}
            I == {i \in DOMAIN order : Read(i) # {}}
        IN IF I = {} THEN m[p] ELSE (CHOOSE w \in Read(Nth(I, 1)) : TRUE)[2]]

\* MessageStore._consensus.  The order, that of the dictionary of counts, is
\* that of reception until the file is loaded, then the alphabet's: it is left
\* open.  It also decides among equally close medoids.
Consensus(counts) ==
    UNION {LET winners == Winners(counts, m)
           IN {Voted(m, winners, order) : order \in SetToSeqs(Variants(counts))}
             : m \in Medoids(counts)}

\* Mutant: two receptions do.
VerifiedByTwo(text, counts, evidence, sure) ==
    /\ evidence >= 2
    /\ sure
    /\ 100 * Agreement(text, counts) >= 72 * Parts * Sum(counts)

\* The repeats that verify a record, with three quarters of its letters agreed.
Verified(text, counts, evidence, sure) ==
    /\ evidence >= 3
    /\ sure
    /\ 100 * Agreement(text, counts) >= 72 * Parts * Sum(counts)

-----------------------------------------------------------------------------
(* MessageStore.observe *)

Fresh(t, f, sure) ==
    [text |-> t, freq |-> f, first |-> wall, last |-> wall,
     counts |-> One(t), evidence |-> 1, sure |-> sure, verified |-> FALSE]

\* A record dated in the future, by a clock set back since, matches too.
Matches(t, f) ==
    {i \in On(records, f) : wall - records[i].last <= ClusterWindow
                            /\ Similar(records[i].text, t)}

\* max() over last_seen_unix: of two of one time, the first.
Newest(I) ==
    CHOOSE i \in I : \A j \in I \ {i} :
        \/ records[j].last < records[i].last
        \/ records[j].last = records[i].last /\ i < j

\* Mutant: the other matches are removed without their receptions.
MergedAlone(I, t, f, sure) ==
    LET match    == records[Newest(I)]
        counts   == Plus(match.counts, One(t))
        isSure   == sure \/ match.sure
    IN {[text |-> text, freq |-> match.freq, first |-> match.first, last |-> wall,
         counts |-> counts, evidence |-> match.evidence + 1, sure |-> isSure,
         verified |-> Verified(text, counts, match.evidence + 1, isSure)]
          : text \in Consensus(counts)}

\* The newest match takes over the counts of the others, all of one frequency,
\* and the new one.
Merged(I, t, f, sure) ==
    LET counts   == Plus(CountsAt(records, I), One(t))
        evidence == Sum([i \in I |-> records[i].evidence]) + 1
        isSure   == sure \/ \E i \in I : records[i].sure
    IN {[text |-> text, freq |-> f,
         first |-> Min({records[i].first : i \in I}), last |-> wall,
         counts |-> counts, evidence |-> evidence, sure |-> isSure,
         verified |-> Verified(text, counts, evidence, isSure)]
          : text \in Consensus(counts)}

Observed(t, f, sure) ==
    LET I == Matches(t, f)
    IN IF I = {} THEN {Fresh(t, f, sure)} ELSE Merged(I, t, f, sure)

\* Mutant: no such check.
ValidAnyway(r) == TRUE

\* MessageRecord.validate, run on what is changed, on what is saved and on
\* what is loaded: the one check the clock can fail.
Valid(r) == r.first <= r.last

\* The match changed in its place, without the others, sorted by last_seen
\* (stable: of the records of this time, those before the match stay before).
WithRecord(I, r) ==
    LET rest == DOMAIN records \ I
        older == {i \in rest : \/ records[i].last < r.last
                               \/ records[i].last = r.last /\ (I # {} => i < Newest(I))}
    IN Picked(records, older) \o <<r>> \o Picked(records, rest \ older)

\* del records[: len(records) - MAX_RECORDS], and what it deletes.
Excess(rs) == IF Len(rs) > MaxRecords THEN Len(rs) - MaxRecords ELSE 0
Bounded(rs) == SubSeq(rs, Excess(rs) + 1, Len(rs))
PushedOut(rs) == SubSeq(rs, 1, Excess(rs))

-----------------------------------------------------------------------------
(* The service: _drain_decoded_messages, messages_clear, start *)

\* An exception nobody catches, or a crash: the service's memory is gone.
ServiceEnds ==
    /\ ends < MaxEnds
    /\ ends' = ends + 1
    /\ up' = FALSE
    /\ records' = <<>>
    /\ lastMessage' = NoText
    /\ sinceLast' = DuplicateWindow

\* A temporary file replaces the old one, then the directory is synced: an
\* error before or after the replacement leaves the old or the new messages.
SaveOutcomes == {"saved", "failed", "replaced"}

\* show_message unless the same text was verified within the window.
Popup(r) ==
    LET again == r.text = lastMessage /\ sinceLast < DuplicateWindow
    IN IF r.verified
       THEN /\ shown' = IF again THEN shown ELSE shown \cup {<<r.text, r.freq>>}
            /\ lastMessage' = r.text
            /\ sinceLast' = 0
       ELSE UNCHANGED <<shown, lastMessage, sinceLast>>

\* _replay_message_history: the last verified records.
VerifiedIn(rs) == {i \in DOMAIN rs : rs[i].verified}
Replayed(rs) == {i \in VerifiedIn(rs) :
                    Cardinality({j \in VerifiedIn(rs) : i < j}) < ReplayMax}
Messages(rs, I) == {<<rs[i].text, rs[i].freq>> : i \in I}

Account(t, f, out) ==
    /\ heard' = [heard EXCEPT ![f][t] = @ + 1]
    /\ dropped' = [g \in Freqs |-> Plus(dropped[g], CountsOn(out, g))]

\* The match's clock check fails after the merge: nothing is saved.
ObserveRefused(t, f, sure) ==
    /\ up /\ received < MaxHeard
    /\ received' = received + 1
    /\ \E r \in Observed(t, f, sure) : ~Valid(r)
    /\ ServiceEnds
    /\ UNCHANGED <<disk, wall, shown, history, setBacks>>

Observe(t, f, sure) ==
    /\ up /\ received < MaxHeard
    /\ received' = received + 1
    /\ \E r \in Observed(t, f, sure) :
         LET all == WithRecord(Matches(t, f), r)
         IN /\ Valid(r)
            /\ \E outcome \in SaveOutcomes :
                 \/ /\ outcome = "saved"
                    /\ records' = Bounded(all) /\ disk' = Bounded(all)
                    /\ Account(t, f, PushedOut(all))
                    /\ Popup(r)
                    /\ UNCHANGED <<up, ends>>
                 \/ /\ outcome = "replaced"
                    /\ disk' = Bounded(all)
                    /\ Account(t, f, PushedOut(all))
                    /\ ServiceEnds
                    /\ UNCHANGED shown
                 \/ /\ outcome = "failed"
                    /\ ServiceEnds
                    /\ UNCHANGED <<disk, shown, heard, dropped>>
    /\ UNCHANGED <<wall, leftOut, setBacks>>

\* CLEAR on the Display empties its page, then asks the service.
Clear ==
    /\ up
    /\ shown' = {} /\ leftOut' = {}
    /\ \E outcome \in SaveOutcomes :
         /\ IF outcome = "failed" THEN UNCHANGED <<disk, heard, dropped>>
            ELSE /\ disk' = <<>>
                 /\ heard' = [f \in Freqs |-> NoCounts]
                 /\ dropped' = [f \in Freqs |-> NoCounts]
         /\ IF outcome = "saved"
            THEN /\ records' = <<>>
                 /\ lastMessage' = NoText
                 /\ sinceLast' = DuplicateWindow
                 /\ UNCHANGED <<up, ends>>
            ELSE ServiceEnds
    /\ UNCHANGED <<wall, setBacks, received>>

Crash ==
    /\ up
    /\ ServiceEnds
    /\ UNCHANGED <<disk, wall, shown, history, setBacks, received>>

\* Mutant: without the replay.
RestartSilent ==
    /\ ~up
    /\ up' = TRUE
    /\ records' = Bounded(disk)
    /\ leftOut' = Messages(records', VerifiedIn(records') \ Replayed(records'))
    /\ UNCHANGED <<disk, wall, sinceLast, lastMessage, shown, heard, dropped,
                   setBacks, ends, received>>

\* load_or_empty, then the replay; an invalid file would raise, the
\* file is sorted as it was saved.
Restart ==
    /\ ~up
    /\ \A r \in Range(disk) : Valid(r)
    /\ up' = TRUE
    /\ records' = Bounded(disk)
    /\ shown' = shown \cup Messages(records', Replayed(records'))
    /\ leftOut' = Messages(records', VerifiedIn(records') \ Replayed(records'))
    /\ UNCHANGED <<disk, wall, sinceLast, lastMessage, heard, dropped, setBacks,
                   ends, received>>

-----------------------------------------------------------------------------
(* Time *)

Tick ==
    /\ wall < MaxWall
    /\ wall' = wall + 1
    /\ sinceLast' = Min({DuplicateWindow, sinceLast + 1})
    /\ UNCHANGED <<records, disk, up, lastMessage, shown, history, setBacks, ends,
                   received>>

SetClockBack ==
    /\ setBacks < MaxSetBacks
    /\ setBacks' = setBacks + 1
    /\ wall' \in 0 .. wall - 1
    /\ UNCHANGED <<records, disk, up, sinceLast, lastMessage, shown, history, ends,
                   received>>

Init ==
    /\ disk \in Files /\ records = disk /\ up = TRUE
    /\ wall = 0 /\ sinceLast = DuplicateWindow /\ lastMessage = NoText
    /\ shown = Messages(disk, Replayed(disk))
    /\ leftOut = Messages(disk, VerifiedIn(disk) \ Replayed(disk))
    /\ heard = [f \in Freqs |-> CountsOn(disk, f)]
    /\ dropped = [f \in Freqs |-> NoCounts]
    /\ received = 0 /\ setBacks = 0 /\ ends = 0

Next ==
    \/ \E d \in Decodes, f \in Freqs :
          Observe(d[1], f, d[2]) \/ ObserveRefused(d[1], f, d[2])
    \/ Clear \/ Crash \/ Restart \/ Tick \/ SetClockBack

Spec == Init /\ [][Next]_vars

-----------------------------------------------------------------------------
(* Properties *)

\* Over merges, the bound, failing saves and restarts, the file accounts for
\* every reception it took once: each text's count over the records of a
\* frequency, with what the bound pushed out, is what was heard there, and a
\* record's evidence is the sum of its counts (store.py observe, save).
EveryReceptionCounts ==
    /\ \A f \in Freqs : Plus(CountsOn(disk, f), dropped[f]) = heard[f]
    /\ \A r \in Range(disk) : r.evidence = Sum(r.counts)

\* The file is one that load() accepts, whatever the clock did: at most
\* MAX_RECORDS records, none of which ends before it starts; otherwise the
\* service could never start again (store.py validate, from_dict).
FileLoads ==
    /\ Len(disk) <= MaxRecords
    /\ \A r \in Range(disk) : r.first <= r.last

\* A text is shown on a frequency only after three receptions on that
\* frequency.  It is one of them but for letters that others had where they
\* are aligned with it, though as a whole it perhaps was never received (app.py
\* "until independent repeats agree").
ShownIsEarned ==
    \A m \in shown :
        /\ Sum(heard[m[2]]) >= 3
        /\ Letters(m[1], heard[m[2]])

\* A verified record's text is on the Display: suppression of repeats, the
\* clear, a lost popup and restarts never hide it for good, unless it was too
\* old for the replay when the service started.  On some frequency: the
\* suppression compares texts only (app.py:223).
VerifiedIsShown ==
    up => \A i \in VerifiedIn(records) :
             \/ \E f \in Freqs : <<records[i].text, f>> \in shown
             \/ <<records[i].text, records[i].freq>> \in leftOut

=============================================================================
