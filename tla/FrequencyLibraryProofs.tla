----------------------- MODULE FrequencyLibraryProofs -----------------------
(***************************************************************************)
(* Proofs about FrequencyLibrary, for lists and pages of any size: every   *)
(* property its run checks, each with the invariant it rests on.           *)
(***************************************************************************)
EXTENDS FrequencyLibrary, SequenceTheorems, OperatorLemmas, TLAPS

IsSeq(s) == s \in Seq({s[i] : i \in DOMAIN s})

Usable(s) == IsSeq(s) /\ Len(s) \in 1 .. LiveMax /\ Distinct(s)

ListInv ==
    /\ Usable(live) /\ Usable(diskLive)
    /\ selected \in 1 .. Len(live)

-----------------------------------------------------------------------------
(* The sequence operations of the lists *)

\* A sequence over some set is a sequence over its own entries.
LEMMA SeqRange == ASSUME NEW S, NEW s \in Seq(S) PROVE IsSeq(s)
BY DEF IsSeq

\* Taking entry i out keeps the others, in order.
LEMMA WithoutFacts ==
    ASSUME NEW s, IsSeq(s), NEW i \in 1 .. Len(s)
    PROVE  /\ IsSeq(Without(s, i))
           /\ Len(Without(s, i)) = Len(s) - 1
           /\ \A j \in 1 .. Len(s) - 1 :
                  Without(s, i)[j] = IF j < i THEN s[j] ELSE s[j + 1]
<1> DEFINE S == {s[j] : j \in DOMAIN s}
           a == SubSeq(s, 1, i - 1)
           b == SubSeq(s, i + 1, Len(s))
<1>1. s \in Seq(S) /\ Len(s) \in Nat /\ \A j \in 1 .. Len(s) : s[j] \in S
  BY DEF IsSeq
<1> HIDE DEF S
<1>2. /\ a \in Seq(S) /\ Len(a) = i - 1
      /\ \A j \in 1 .. i - 1 : a[j] = s[1 + j - 1]
  BY <1>1, SubSeqProperties
<1>3. /\ b \in Seq(S) /\ Len(b) = Len(s) - i
      /\ \A j \in 1 .. Len(s) - i : b[j] = s[i + 1 + j - 1]
  BY <1>1, SubSeqProperties
<1> HIDE DEF a, b
<1>4. /\ a \o b \in Seq(S)
      /\ Len(a \o b) = Len(s) - 1
      /\ \A j \in 1 .. Len(s) - 1 : (a \o b)[j] = IF j <= i - 1 THEN a[j] ELSE b[j - (i - 1)]
  <2>1. /\ a \o b \in Seq(S)
        /\ Len(a \o b) = Len(a) + Len(b)
        /\ \A j \in 1 .. Len(a) + Len(b) :
               (a \o b)[j] = IF j <= Len(a) THEN a[j] ELSE b[j - Len(a)]
    BY ONLY <1>2, <1>3, ConcatProperties
  <2>2. Len(a) + Len(b) = Len(s) - 1 /\ Len(a) = i - 1
    BY <1>1, <1>2, <1>3
  <2> QED
    BY ONLY <2>1, <2>2
<1>5. Without(s, i) = a \o b
  BY DEF Without, a, b
<1>6. \A j \in 1 .. Len(s) - 1 : (a \o b)[j] = IF j < i THEN s[j] ELSE s[j + 1]
  <2> TAKE j \in 1 .. Len(s) - 1
  <2>1. CASE j < i
    <3>1. j \in 1 .. i - 1 /\ j <= i - 1 /\ 1 + j - 1 = j
      BY <1>1, <2>1
    <3> QED
      BY <1>2, <1>4, <2>1, <3>1
  <2>2. CASE ~(j < i)
    <3>1. j - (i - 1) \in 1 .. Len(s) - i /\ ~(j <= i - 1) /\ i + 1 + (j - (i - 1)) - 1 = j + 1
      BY <1>1, <2>2
    <3> QED
      BY <1>3, <1>4, <2>2, <3>1
  <2> QED
    BY <2>1, <2>2
<1> QED
  BY <1>4, <1>5, <1>6, SeqRange

\* Taking an entry out of a list without repetitions leaves none.
LEMMA WithoutDistinct ==
    ASSUME NEW s, IsSeq(s), Distinct(s), NEW i \in 1 .. Len(s)
    PROVE  Distinct(Without(s, i))
<1>1. IsSeq(Without(s, i))
  BY WithoutFacts
<1>2. DOMAIN s = 1 .. Len(s) /\ Len(s) \in Nat
  BY DEF IsSeq
<1>3. DOMAIN Without(s, i) = 1 .. Len(Without(s, i))
  BY <1>1 DEF IsSeq
<1>4. /\ Len(Without(s, i)) = Len(s) - 1
      /\ \A j \in 1 .. Len(s) - 1 :
             Without(s, i)[j] = IF j < i THEN s[j] ELSE s[j + 1]
  BY WithoutFacts
<1> SUFFICES ASSUME NEW j \in 1 .. Len(s) - 1, NEW k \in 1 .. Len(s) - 1,
                    Without(s, i)[j].f = Without(s, i)[k].f
             PROVE  j = k
  BY <1>3, <1>4 DEF Distinct
<1> DEFINE from(n) == IF n < i THEN n ELSE n + 1
<1>5. from(j) \in DOMAIN s /\ from(k) \in DOMAIN s
  BY <1>2
<1>6. Without(s, i)[j] = s[from(j)] /\ Without(s, i)[k] = s[from(k)]
  BY <1>4
<1>7. from(j) = from(k)
  BY ONLY Distinct(s), <1>5, <1>6, Without(s, i)[j].f = Without(s, i)[k].f DEF Distinct
<1> QED
  BY <1>2, <1>7

\* A new entry at the end keeps the others where they are.
LEMMA AppendFacts ==
    ASSUME NEW s, IsSeq(s), Distinct(s), NEW e, e.f \notin FreqsOf(s)
    PROVE  /\ IsSeq(Append(s, e)) /\ Distinct(Append(s, e))
           /\ Len(Append(s, e)) = Len(s) + 1
           /\ \A j \in 1 .. Len(s) : Append(s, e)[j] = s[j]
<1> DEFINE S == {s[j] : j \in DOMAIN s} \cup {e}
<1>1. s \in Seq(S) /\ e \in S
  BY DEF IsSeq
<1> HIDE DEF S
<1>2. /\ Append(s, e) \in Seq(S) /\ Len(Append(s, e)) = Len(s) + 1
      /\ \A j \in 1 .. Len(s) : Append(s, e)[j] = s[j]
      /\ Append(s, e)[Len(s) + 1] = e
  BY <1>1, AppendProperties
<1>3. DOMAIN s = 1 .. Len(s) /\ DOMAIN Append(s, e) = 1 .. Len(s) + 1 /\ Len(s) \in Nat
  BY <1>1, <1>2
<1>4. Distinct(Append(s, e))
  BY <1>2, <1>3 DEF Distinct, FreqsOf
<1> QED
  BY <1>2, <1>4, SeqRange

\* A new entry put in after position i.
LEMMA InsertFacts ==
    ASSUME NEW s, IsSeq(s), Distinct(s), NEW e, e.f \notin FreqsOf(s),
           NEW i \in 1 .. Len(s)
    PROVE  /\ IsSeq(InsertAfter(s, i, e)) /\ Distinct(InsertAfter(s, i, e))
           /\ Len(InsertAfter(s, i, e)) = Len(s) + 1
<1> DEFINE t == InsertAfter(s, i, e)
           S == {s[j] : j \in DOMAIN s} \cup {e}
           a == SubSeq(s, 1, i)
           b == SubSeq(s, i + 1, Len(s))
           ae == a \o <<e>>
<1>1. s \in Seq(S) /\ e \in S /\ Len(s) \in Nat /\ \A j \in 1 .. Len(s) : s[j] \in S
  BY DEF IsSeq
<1>11. <<e>> \in Seq(S) /\ Len(<<e>>) = 1 /\ <<e>>[1] = e
  BY <1>1
<1> HIDE DEF S
<1>2. /\ a \in Seq(S) /\ Len(a) = i
      /\ \A j \in 1 .. i : a[j] = s[1 + j - 1]
  BY <1>1, SubSeqProperties
<1>3. /\ b \in Seq(S) /\ Len(b) = Len(s) - i
      /\ \A j \in 1 .. Len(s) - i : b[j] = s[i + 1 + j - 1]
  BY <1>1, SubSeqProperties
<1> HIDE DEF a, b
<1>4. /\ ae \in Seq(S) /\ Len(ae) = i + 1
      /\ \A j \in 1 .. i + 1 : ae[j] = IF j <= i THEN a[j] ELSE <<e>>[j - i]
  BY <1>1, <1>11, <1>2, ConcatProperties
<1> HIDE DEF ae
<1>5. /\ ae \o b \in Seq(S) /\ Len(ae \o b) = Len(s) + 1
      /\ \A j \in 1 .. Len(s) + 1 : (ae \o b)[j] = IF j <= i + 1 THEN ae[j] ELSE b[j - (i + 1)]
  <2>1. /\ ae \o b \in Seq(S)
        /\ Len(ae \o b) = Len(ae) + Len(b)
        /\ \A j \in 1 .. Len(ae) + Len(b) :
               (ae \o b)[j] = IF j <= Len(ae) THEN ae[j] ELSE b[j - Len(ae)]
    BY ONLY <1>3, <1>4, ConcatProperties
  <2>2. Len(ae) + Len(b) = Len(s) + 1 /\ Len(ae) = i + 1
    BY <1>1, <1>3, <1>4
  <2> QED
    BY ONLY <2>1, <2>2
<1>6. t = ae \o b
  BY DEF a, b, ae, InsertAfter
<1> HIDE DEF t
<1>7. \A j \in 1 .. Len(s) + 1 :
          t[j] = IF j <= i THEN s[j] ELSE IF j = i + 1 THEN e ELSE s[j - 1]
  <2> TAKE j \in 1 .. Len(s) + 1
  <2>1. CASE j <= i
    <3>1. j \in 1 .. i /\ j \in 1 .. i + 1 /\ j <= i + 1 /\ 1 + j - 1 = j
      BY <1>1, <2>1
    <3> QED
      BY <1>2, <1>4, <1>5, <1>6, <2>1, <3>1
  <2>2. CASE j = i + 1
    <3>1. j \in 1 .. i + 1 /\ j <= i + 1 /\ ~(j <= i) /\ j - i = 1
      BY <1>1, <2>2
    <3> QED
      BY <1>11, <1>4, <1>5, <1>6, <2>2, <3>1
  <2>3. CASE j > i + 1
    <3>1. /\ j - (i + 1) \in 1 .. Len(s) - i /\ ~(j <= i + 1) /\ ~(j <= i) /\ j # i + 1
          /\ i + 1 + (j - (i + 1)) - 1 = j - 1
      BY <1>1, <2>3
    <3> QED
      BY <1>3, <1>5, <1>6, <3>1
  <2> QED
    BY <2>1, <2>2, <2>3, <1>1
<1>8. DOMAIN s = 1 .. Len(s) /\ DOMAIN t = 1 .. Len(s) + 1
  <2>1. t \in Seq(S) /\ Len(t) = Len(s) + 1
    BY <1>5, <1>6
  <2> QED
    BY <1>1, <2>1, LenProperties
<1>9. Distinct(t)
  <2> SUFFICES ASSUME NEW j \in 1 .. Len(s) + 1, NEW k \in 1 .. Len(s) + 1, t[j].f = t[k].f
               PROVE  j = k
    BY <1>8 DEF Distinct
  <2> DEFINE from(n) == IF n <= i THEN n ELSE n - 1
  <2>1. ASSUME NEW n \in 1 .. Len(s) + 1, n # i + 1
        PROVE  from(n) \in DOMAIN s /\ t[n] = s[from(n)]
    <3>1. t[n] = s[from(n)]
      BY <1>1, <1>7, <2>1
    <3>2. from(n) \in 1 .. Len(s)
      BY <1>1, <2>1
    <3> QED
      BY <1>8, <3>1, <3>2
  <2>2. t[i + 1] = e
    BY <1>1, <1>7
  <2>3. j = i + 1 <=> k = i + 1
    BY <2>1, <2>2 DEF FreqsOf
  <2>4. ASSUME j # i + 1 PROVE from(j) = from(k)
    <3>1. /\ from(j) \in DOMAIN s /\ t[j] = s[from(j)]
          /\ from(k) \in DOMAIN s /\ t[k] = s[from(k)]
      BY <2>1, <2>3, <2>4
    <3> QED
      BY ONLY Distinct(s), <3>1, t[j].f = t[k].f DEF Distinct
  <2> QED
    BY <1>1, <2>3, <2>4
<1> QED
  BY <1>5, <1>6, <1>9, SeqRange DEF t

\* The position of a frequency the list holds.
LEMMA IndexFacts ==
    ASSUME NEW s, IsSeq(s), NEW f, f \in FreqsOf(s)
    PROVE  IndexOf(s, f) \in 1 .. Len(s) /\ s[IndexOf(s, f)].f = f
<1>1. \E i \in DOMAIN s : s[i].f = f
  BY DEF FreqsOf
<1>2. DOMAIN s = 1 .. Len(s)
  BY DEF IsSeq
<1> QED
  BY <1>1, <1>2 DEF IndexOf

-----------------------------------------------------------------------------
(* The Live list stays usable *)

\* The positions of the Live list.
LEMMA LiveDomain == ASSUME ListInv PROVE DOMAIN live = 1 .. Len(live) /\ Len(live) \in Nat
BY DEF ListInv, Usable, IsSeq

\* What every removal does to the list, wherever the selection goes.
LEMMA Removal ==
    ASSUME ListInv, NEW i \in 1 .. Len(live), Len(live) > 1
    PROVE  /\ Usable(Without(live, i))
           /\ Len(Without(live, i)) = Len(live) - 1
           /\ SelectedWithout(i) \in 1 .. Len(live) - 1
           /\ SelectedAfterDelete \in 1 .. Len(live) - 1
<1> USE LibraryAssumption DEF ListInv, Usable
<1>1. IsSeq(Without(live, i)) /\ Len(Without(live, i)) = Len(live) - 1
  BY WithoutFacts
<1>2. Distinct(Without(live, i))
  BY WithoutDistinct
<1>3. Len(live) - 1 \in 1 .. LiveMax
  OBVIOUS
<1> QED
  BY <1>1, <1>2, <1>3 DEF SelectedWithout, SelectedAfterDelete, Least

\* Adding a frequency the list lacks keeps the Live list usable.
LEMMA Addition ==
    ASSUME ListInv, NEW e, e.f \notin FreqsOf(live), Len(live) < LiveMax
    PROVE  Usable(Append(live, e)) /\ Len(Append(live, e)) = Len(live) + 1
BY AppendFacts, LibraryAssumption DEF ListInv, Usable

\* Giving the selected entry another span keeps the Live list usable.
LEMMA SpanChange ==
    ASSUME ListInv, NEW s
    PROVE  LET l == [live EXCEPT ![selected] = WithSpan(@, s)]
           IN  Usable(l) /\ Len(l) = Len(live)
<1> DEFINE e == WithSpan(live[selected], s)
           S == {live[j] : j \in DOMAIN live} \cup {e}
           l == [live EXCEPT ![selected] = e]
<1>1. live \in Seq(S) /\ e \in S /\ selected \in 1 .. Len(live)
  BY DEF ListInv, Usable, IsSeq
<1>2. e.f = live[selected].f
  BY DEF WithSpan
<1> HIDE DEF S, e
<1>3. l \in Seq(S) /\ Len(l) = Len(live)
      /\ \A j \in 1 .. Len(live) : l[j] = IF j = selected THEN e ELSE live[j]
  BY <1>1, ExceptSeq
<1>4. Distinct(l)
  BY <1>2, <1>3, LiveDomain DEF Distinct, ListInv, Usable
<1> QED
  BY <1>3, <1>4, SeqRange DEF ListInv, Usable, e

\* Every command, every write of a batch and every restart keeps the lists
\* usable, in memory and on disk.
LEMMA ListStep == ListInv /\ [Next]_vars => ListInv'
<1> SUFFICES ASSUME ListInv, [Next]_vars PROVE ListInv'
  OBVIOUS
<1> USE LiveDomain DEF ListInv, vars, lists, view, disk, Unsaved, Refused
<1>1. ASSUME NEW i \in 1 .. LiveMax, Select(i) PROVE ListInv'
  BY <1>1 DEF Select
<1>2. ASSUME NEW s \in Spans, SetSpan(s) PROVE ListInv'
  BY <1>2, SpanChange DEF SetSpan
<1>3. ASSUME NEW f \in Freqs, AddLive(f) PROVE ListInv'
  <2> DEFINE e == [f |-> f, span |-> live[selected].span]
  <2>1. e.f \notin FreqsOf(live)
    BY <1>3 DEF AddLive
  <2>2. /\ live' = InsertAfter(live, selected, e)
        /\ selected' = selected + 1 /\ diskLive' = diskLive /\ Len(live) < LiveMax
    BY <1>3 DEF AddLive
  <2> HIDE DEF e
  <2>3. IsSeq(live') /\ Distinct(live') /\ Len(live') = Len(live) + 1
    BY <2>1, <2>2, InsertFacts DEF Usable
  <2>4. Len(live') \in 1 .. LiveMax /\ selected' \in 1 .. Len(live') /\ diskLive' = diskLive
    BY <2>2, <2>3, LibraryAssumption
  <2> QED
    BY <2>3, <2>4 DEF Usable
<1>4. ASSUME NEW r \in 1 .. Page, ToggleOff(r) PROVE ListInv'
  <2>1. CASE Len(live) <= 1
    BY <1>4, <2>1 DEF ToggleOff
  <2>2. CASE Len(live) > 1
    <3>1. IndexOf(live, At(r).f) \in 1 .. Len(live)
      BY <1>4, IndexFacts DEF ToggleOff, Usable
    <3> QED
      BY <1>4, <2>2, <3>1, Removal DEF ToggleOff
  <2> QED
    BY <2>1, <2>2
<1>5. ASSUME NEW r \in 1 .. Page, ToggleOn(r) PROVE ListInv'
  <2>1. CASE Len(live) >= LiveMax
    BY <1>5, <2>1 DEF ToggleOn
  <2>2. CASE Len(live) < LiveMax
    <3>1. Usable(Append(live, At(r))) /\ Len(Append(live, At(r))) = Len(live) + 1
      BY <1>5, <2>2, Addition DEF ToggleOn
    <3>2. live' = Append(live, At(r)) /\ diskLive' = diskLive
          /\ selected' \in {selected, Len(live')}
      BY <1>5, <2>2, LibraryAssumption DEF ToggleOn
    <3>3. Len(live') = Len(live) + 1
      BY ONLY <3>1, <3>2
    <3>4. selected' \in 1 .. Len(live')
      BY ONLY <3>2, <3>3, ListInv, LiveDomain DEF ListInv
    <3> QED
      BY <3>1, <3>2, <3>4
  <2> QED
    BY <2>1, <2>2, LibraryAssumption
<1>6. ASSUME NEW r \in 1 .. Page, Delete(r) PROVE ListInv'
  <2>1. CASE At(r).f \notin FreqsOf(live) \/ Len(live) <= 1
    BY <1>6, <2>1 DEF Delete
  <2>2. CASE At(r).f \in FreqsOf(live) /\ Len(live) > 1
    <3>1. IndexOf(live, At(r).f) \in 1 .. Len(live)
      BY <2>2, IndexFacts DEF Usable
    <3> QED
      BY <1>6, <2>2, <3>1, Removal DEF Delete, LiveAfterDelete
  <2> QED
    BY <2>1, <2>2
<1>7. ASSUME NEW r \in 1 .. Page, Tune(r) PROVE ListInv'
  <2>1. CASE At(r).f \in FreqsOf(live)
    BY <1>7, <2>1, IndexFacts DEF Tune, Usable
  <2>2. CASE At(r).f \notin FreqsOf(live) /\ Len(live) >= LiveMax
    BY <1>7, <2>2 DEF Tune
  <2>3. CASE At(r).f \notin FreqsOf(live) /\ Len(live) < LiveMax
    <3>1. Usable(Append(live, At(r))) /\ Len(Append(live, At(r))) = Len(live) + 1
      BY <2>3, Addition
    <3>2. live' = Append(live, At(r)) /\ diskLive' = diskLive
          /\ selected' \in {selected, Len(live')}
      BY <1>7, <2>3, LibraryAssumption DEF Tune
    <3>3. Len(live') = Len(live) + 1
      BY ONLY <3>1, <3>2
    <3>4. selected' \in 1 .. Len(live')
      BY ONLY <3>2, <3>3, ListInv, LiveDomain DEF ListInv
    <3> QED
      BY <3>1, <3>2, <3>4
  <2> QED
    BY <2>1, <2>2, <2>3, LibraryAssumption
<1>8. ASSUME NEW f \in Freqs, AddSaved(f) PROVE ListInv'
  BY <1>8 DEF AddSaved
<1>9. CASE DoList
  BY <1>9 DEF DoList
<1>10. CASE Restart
  BY <1>10 DEF Restart, Usable
<1>11. CASE Refresh \/ ShowLists \/ ShowLive \/ TurnPage \/ UNCHANGED vars
  BY <1>11 DEF Refresh, ShowLists, ShowLive, TurnPage
<1>12. CASE DoLibrary \/ DoTune \/ DoBuild \/ DoPublish \/ DoSel
  BY <1>12 DEF DoLibrary, DoTune, DoBuild, DoPublish, DoSel
<1> QED
  BY <1>1, <1>2, <1>3, <1>4, <1>5, <1>6, <1>7, <1>8, <1>9, <1>10, <1>11, <1>12
  DEF Next, Command, DoWrite

\* The lists the program starts with are usable.
LEMMA ListInit == Init => ListInv
<1> SUFFICES ASSUME Init PROVE ListInv
  OBVIOUS
<1>1. PICK n \in 1 .. LiveMax : live \in [1 .. n -> Entry]
  BY DEF Init
<1>2. live \in Seq(Entry) /\ Len(live) = n
  BY <1>1, LibraryAssumption
<1> QED
  BY <1>1, <1>2, SeqRange, LibraryAssumption DEF Init, ListInv, Usable

\* The Live list never empties, overflows or repeats a frequency, and the
\* selection never points past its end, in memory and on disk.
THEOREM LiveStaysUsable == Spec => []LiveUsable
<1>1. ListInv => LiveUsable
  BY DEF ListInv, Usable, LiveUsable
<1> QED
  BY <1>1, ListInit, ListStep, PTL DEF Spec

-----------------------------------------------------------------------------
(* The writes to come *)

\* The lists of writes a command or a start leaves.
Batches == {<<>>, <<"publish">>, <<"build">>, Toggled, <<"library", "publish">>,
            <<"tune", "sel">>, <<"tune", "build">>, <<"list", "library", "tune">>,
            <<"build", "tune", "list">>, <<"tune", "list", "publish">>, Deleted,
            <<"list", "tune", "build">>}

\* Every list of writes is one of writes.
LEMMA BatchTypes == \A t \in Batches : t \in Seq(Write)
<1>1. /\ <<>> \in Seq(Write) /\ <<"publish">> \in Seq(Write) /\ <<"build">> \in Seq(Write)
      /\ Toggled \in Seq(Write) /\ <<"library", "publish">> \in Seq(Write)
  BY DEF Write, Toggled
<1>2. <<"tune", "sel">> \in Seq(Write) /\ <<"tune", "build">> \in Seq(Write)
  BY DEF Write
<1>3. <<"list", "library", "tune">> \in Seq(Write) /\ <<"build", "tune", "list">> \in Seq(Write)
  BY DEF Write
<1>4. <<"tune", "list", "publish">> \in Seq(Write) /\ <<"list", "tune", "build">> \in Seq(Write)
  BY DEF Write
<1>5. Deleted \in Seq(Write)
  BY DEF Write, Deleted
<1> QED BY <1>1, <1>2, <1>3, <1>4, <1>5 DEF Batches

Has(t, w) == \E k \in 1 .. Len(t) : t[k] = w

\* Which writes each batch has.
LEMMA BatchHas ==
    /\ \A w : ~Has(<<>>, w)
    /\ \A w : Has(<<"publish">>, w) <=> w = "publish"
    /\ \A w : Has(<<"build">>, w) <=> w = "build"
    /\ \A w : Has(Toggled, w) <=> w \in {"list", "publish"}
    /\ \A w : Has(<<"library", "publish">>, w) <=> w \in {"library", "publish"}
    /\ \A w : Has(<<"tune", "sel">>, w) <=> w \in {"tune", "sel"}
    /\ \A w : Has(<<"tune", "build">>, w) <=> w \in {"tune", "build"}
    /\ \A w : Has(<<"list", "library", "tune">>, w) <=> w \in {"list", "library", "tune"}
    /\ \A w : Has(<<"build", "tune", "list">>, w) <=> w \in {"build", "tune", "list"}
    /\ \A w : Has(<<"tune", "list", "publish">>, w) <=> w \in {"tune", "list", "publish"}
    /\ \A w : Has(Deleted, w) <=> w \in {"tune", "list", "library", "publish"}
    /\ \A w : Has(<<"list", "tune", "build">>, w) <=> w \in {"list", "tune", "build"}
<1>1. 1 .. 0 = {} /\ 1 .. 1 = {1} /\ 1 .. 2 = {1, 2} /\ 1 .. 3 = {1, 2, 3} /\ 1 .. 4 = {1, 2, 3, 4}
  OBVIOUS
<1> QED BY <1>1 DEF Has, Toggled, Deleted

\* A write done leaves the others.
LEMMA TailHas ==
    ASSUME todo \in Seq(Write), todo # <<>>
    PROVE  /\ Tail(todo) \in Seq(Write)
           /\ Head(todo) \in Write /\ Has(todo, Head(todo))
           /\ \A w : Has(todo, w) => w = Head(todo) \/ Has(Tail(todo), w)
           /\ \A w : Has(Tail(todo), w) => Has(todo, w)
<1>1. /\ Tail(todo) \in Seq(Write) /\ Len(Tail(todo)) = Len(todo) - 1
      /\ \A k \in 1 .. Len(todo) - 1 : Tail(todo)[k] = todo[k + 1]
      /\ Len(todo) \in Nat /\ Len(todo) >= 1 /\ Head(todo) = todo[1]
  BY HeadTailProperties, LenProperties
<1>2. ASSUME NEW w, NEW k \in 1 .. Len(todo), todo[k] = w, w # Head(todo)
      PROVE  Has(Tail(todo), w)
  <2>1. k - 1 \in 1 .. Len(Tail(todo)) /\ k = (k - 1) + 1 BY <1>1, <1>2
  <2>2. Tail(todo)[k - 1] = w BY <1>1, <1>2, <2>1
  <2> QED BY <2>1, <2>2 DEF Has
<1>3. ASSUME NEW w, NEW k \in 1 .. Len(Tail(todo)), Tail(todo)[k] = w
      PROVE  Has(todo, w)
  <2>1. k + 1 \in 1 .. Len(todo) /\ todo[k + 1] = w BY <1>1, <1>3
  <2> QED BY <2>1 DEF Has
<1> QED BY <1>1, <1>2, <1>3 DEF Has

-----------------------------------------------------------------------------
(* The receiver follows the selection *)

TuneInv ==
    /\ todo \in Seq(Write)
    /\ Has(todo, "tune") \/ tuned = live[selected]

\* A step keeps the receiver on the selected entry, or a "tune" is still to come.
LEMMA TuneStep == ListInv /\ TuneInv /\ [Next]_vars => TuneInv'
<1> SUFFICES ASSUME ListInv, TuneInv, [Next]_vars PROVE TuneInv'
  OBVIOUS
<1> USE LiveDomain, BatchTypes, BatchHas DEF Batches, TuneInv, vars, lists, view, disk, Unsaved, Refused, Idle
<1>1. ASSUME NEW i \in 1 .. LiveMax, Select(i) PROVE TuneInv'
  BY <1>1 DEF Select
<1>2. ASSUME NEW s \in Spans, SetSpan(s) PROVE TuneInv'
  BY <1>2 DEF SetSpan
<1>3. ASSUME NEW f \in Freqs, AddLive(f) PROVE TuneInv'
  BY <1>3 DEF AddLive
<1>4. ASSUME NEW r \in 1 .. Page, ToggleOff(r) PROVE TuneInv'
  <2> DEFINE i == IndexOf(live, At(r).f)
  <2>1. i \in 1 .. Len(live)
    BY <1>4, IndexFacts DEF ToggleOff, ListInv, Usable
  <2>2. CASE Len(live) <= 1
    BY <1>4, <2>2 DEF ToggleOff, Row
  <2>0. /\ todo = <<>> /\ tuned = live[selected]
        /\ ~(Len(live) <= 1) =>
              /\ live' = Without(live, i) /\ selected' = SelectedWithout(i) /\ tuned' = tuned
              /\ todo' = IF i = selected THEN <<"tune", "list", "publish">> ELSE Toggled
    BY <1>4 DEF ToggleOff, Row
  <2>3. CASE Len(live) > 1 /\ i = selected
    <3>1. todo' = <<"tune", "list", "publish">>
      BY <2>0, <2>3
    <3> QED
      BY <3>1
  <2>4. CASE Len(live) > 1 /\ i # selected
    <3>1. live' = Without(live, i) /\ selected' = SelectedWithout(i)
          /\ todo' = Toggled /\ tuned' = tuned /\ tuned = live[selected]
      BY <2>0, <2>4
    <3>2. SelectedWithout(i) = IF i < selected THEN selected - 1 ELSE selected
      BY <2>1, <2>4 DEF SelectedWithout, Least, ListInv
    <3>3. \A j \in 1 .. Len(live) - 1 :
              Without(live, i)[j] = IF j < i THEN live[j] ELSE live[j + 1]
      BY <2>1, WithoutFacts DEF ListInv, Usable
    <3>4. Without(live, i)[SelectedWithout(i)] = live[selected]
      BY <2>1, <2>4, <3>2, <3>3 DEF ListInv
    <3> QED
      BY <3>1, <3>4
  <2> QED
    BY <2>1, <2>2, <2>3, <2>4
<1>5. ASSUME NEW r \in 1 .. Page, ToggleOn(r) PROVE TuneInv'
  <2>1. Append(live, At(r))[selected] = live[selected]
    BY <1>5, AppendFacts DEF ToggleOn, ListInv, Usable
  <2>2. todo = <<>> /\ tuned' = tuned /\ selected' = selected
        /\ live' \in {live, Append(live, At(r))} /\ todo' \in {<<"publish">>, Toggled}
    BY <1>5 DEF ToggleOn, Row
  <2> QED
    BY <2>1, <2>2
<1>6. ASSUME NEW r \in 1 .. Page, Delete(r) PROVE TuneInv'
  BY <1>6 DEF Delete, Row
<1>7. ASSUME NEW r \in 1 .. Page, Tune(r) PROVE TuneInv'
  BY <1>7 DEF Tune, Row
<1>8. ASSUME NEW f \in Freqs, AddSaved(f) PROVE TuneInv'
  BY <1>8 DEF AddSaved
<1>9. CASE DoTune
  BY <1>9, TailHas DEF DoTune
<1>10. CASE DoList \/ DoLibrary \/ DoBuild \/ DoPublish \/ DoSel
  BY <1>10, TailHas DEF DoList, DoLibrary, DoBuild, DoPublish, DoSel
<1>11. CASE Restart
  BY <1>11 DEF Restart
<1>12. CASE Refresh \/ ShowLists \/ ShowLive \/ TurnPage \/ UNCHANGED vars
  BY <1>12 DEF Refresh, ShowLists, ShowLive, TurnPage
<1> QED
  BY <1>1, <1>2, <1>3, <1>4, <1>5, <1>6, <1>7, <1>8, <1>9, <1>10, <1>11, <1>12
  DEF Next, Command, DoWrite

\* Between commands the receiver captures the selected entry with its span,
\* whatever was added, toggled, deleted or restarted before.
THEOREM ReceiverFollows == Spec => []ReceiverOnSelected
<1>1. Init => TuneInv
  BY BatchTypes, BatchHas, ListInit, LiveDomain DEF Init, TuneInv, Batches
<1>2. TuneInv => ReceiverOnSelected
  BY BatchHas DEF TuneInv, ReceiverOnSelected, Idle
<1>3. Init /\ [][Next]_vars => []ListInv
  BY ListInit, ListStep, PTL
<1> QED
  BY <1>1, <1>2, <1>3, TuneStep, PTL DEF Spec

-----------------------------------------------------------------------------
(* Types *)

\* The pieces of a list.
LEMMA PieceTypes ==
    ASSUME NEW s \in Seq(Entry), NEW i \in 1 .. Len(s)
    PROVE  /\ SubSeq(s, 1, i - 1) \in Seq(Entry)
           /\ SubSeq(s, i + 1, Len(s)) \in Seq(Entry)
           /\ SubSeq(s, 1, i) \in Seq(Entry)
           /\ s[i] \in Entry /\ s[i].f \in Freqs /\ s[i].span \in Spans
<1>1. s[i] \in Entry OBVIOUS
<1>2. \A c \in Nat : \A d \in Nat : c >= 1 /\ d <= Len(s) => SubSeq(s, c, d) \in Seq(Entry)
  BY SubSeqProperties
<1> QED BY <1>1, <1>2 DEF Entry

\* Taking an entry out keeps the type of a list.
LEMMA WithoutType ==
    ASSUME NEW s \in Seq(Entry), NEW i \in 1 .. Len(s)
    PROVE  Without(s, i) \in Seq(Entry)
BY PieceTypes, ConcatProperties DEF Without

\* So does putting one in.
LEMMA InsertType ==
    ASSUME NEW s \in Seq(Entry), NEW i \in 1 .. Len(s), NEW e \in Entry
    PROVE  InsertAfter(s, i, e) \in Seq(Entry)
<1>1. <<e>> \in Seq(Entry) OBVIOUS
<1> QED BY <1>1, PieceTypes, ConcatProperties DEF InsertAfter

\* So does giving one another span.
LEMMA SpanType ==
    ASSUME NEW s \in Seq(Entry), NEW i \in 1 .. Len(s), NEW b \in Spans
    PROVE  [s EXCEPT ![i] = WithSpan(@, b)] \in Seq(Entry)
<1>1. WithSpan(s[i], b) \in Entry BY PieceTypes DEF WithSpan, Entry
<1> QED BY <1>1, ExceptSeq

\* The saved entries with the new span, in their places.
LEMMA SavedSpanType ==
    ASSUME NEW b \in Spans, saved \in Seq(Entry)
    PROVE  /\ SavedWithSpan(b) \in Seq(Entry)
           /\ Len(SavedWithSpan(b)) = Len(saved)
           /\ \A i \in 1 .. Len(saved) :
                 SavedWithSpan(b)[i] = IF saved[i].f = live[selected].f
                                       THEN WithSpan(saved[i], b) ELSE saved[i]
<1>1. ASSUME NEW i \in 1 .. Len(saved) PROVE WithSpan(saved[i], b) \in Entry
  <2>1. saved[i] \in Entry OBVIOUS
  <2> QED BY <2>1 DEF WithSpan, Entry
<1> QED BY <1>1 DEF SavedWithSpan

\* What a restart finds missing in the library is in the Live list.
LEMMA MissingFacts ==
    ASSUME NEW S, NEW lib \in Seq(S), NEW list \in Seq(S)
    PROVE  /\ Missing(lib, list) \in Seq(S)
           /\ \A k \in DOMAIN Missing(lib, list) :
                 \E i \in DOMAIN list : /\ Missing(lib, list)[k] = list[i]
                                        /\ list[i].f \notin FreqsOf(lib)
           /\ \A i \in DOMAIN list : list[i].f \notin FreqsOf(lib) =>
                 \E k \in DOMAIN Missing(lib, list) : Missing(lib, list)[k] = list[i]
           /\ Distinct(list) => Distinct(Missing(lib, list))
<1> DEFINE I == {i \in DOMAIN list : list[i].f \notin FreqsOf(lib)}
           m == Picked(list, I)
<1>0. /\ \A i \in I : i \in DOMAIN list /\ list[i].f \notin FreqsOf(lib)
      /\ \A i \in DOMAIN list : list[i].f \notin FreqsOf(lib) => i \in I
  OBVIOUS
<1>2. Missing(lib, list) = m BY DEF Missing
<1> HIDE DEF I
<1>1. /\ m \in Seq(S) /\ Len(m) = Cardinality(I)
      /\ \A k \in DOMAIN m : Nth(I, k) \in I /\ m[k] = list[Nth(I, k)]
      /\ \A i \in I : Rank(I, i) \in DOMAIN m /\ m[Rank(I, i)] = list[i]
      /\ \A k, n \in DOMAIN m : k < n => Nth(I, k) < Nth(I, n)
  BY <1>0, PickedFacts
<1> HIDE DEF m
<1> HIDE DEF m
<1>4. DOMAIN m = 1 .. Cardinality(I) /\ Cardinality(I) \in Nat
  <2>1. DOMAIN m = 1 .. Len(m) /\ Len(m) \in Nat BY <1>1
  <2> QED BY <1>1, <2>1
<1>3. ASSUME Distinct(list), NEW k \in DOMAIN m, NEW n \in DOMAIN m, m[k].f = m[n].f
      PROVE  k = n
  <2>1. PICK a \in I : a = Nth(I, k) /\ m[k] = list[a] BY <1>1
  <2>2. PICK b \in I : b = Nth(I, n) /\ m[n] = list[b] BY <1>1
  <2>3. a = b BY <1>0, <1>3, <2>1, <2>2 DEF Distinct
  <2>4. a \in Nat /\ k \in Nat /\ n \in Nat
    <3>1. a \in 1 .. Len(list) BY <1>0
    <3> QED BY <1>4, <3>1
  <2>5. ~(a < a) BY <2>4
  <2>6. ~(k < n) /\ ~(n < k)
    <3>1. \A u, v \in DOMAIN m : u < v => Nth(I, u) < Nth(I, v) BY <1>1
    <3> QED BY <3>1, <2>1, <2>2, <2>3, <2>5
  <2> QED BY <2>4, <2>6
<1> QED BY <1>0, <1>1, <1>2, <1>3 DEF Distinct

\* The library is completed to hold every entry of the list.
LEMMA SeededFacts ==
    ASSUME NEW S, NEW lib \in Seq(S), NEW list \in Seq(S)
    PROVE  /\ Seeded(lib, list) \in Seq(S)
           /\ \A k \in DOMAIN Seeded(lib, list) :
                 \/ k \in DOMAIN lib /\ Seeded(lib, list)[k] = lib[k]
                 \/ /\ k \notin DOMAIN lib
                    /\ k - Len(lib) \in DOMAIN Missing(lib, list)
                    /\ Seeded(lib, list)[k] = Missing(lib, list)[k - Len(lib)]
           /\ FreqsOf(list) \subseteq FreqsOf(Seeded(lib, list))
           /\ Distinct(lib) /\ Distinct(list) => Distinct(Seeded(lib, list))
<1> DEFINE m == Missing(lib, list)
           s == Seeded(lib, list)
<1>1. /\ m \in Seq(S)
      /\ \A k \in DOMAIN m : \E i \in DOMAIN list : m[k] = list[i] /\ list[i].f \notin FreqsOf(lib)
      /\ \A i \in DOMAIN list : list[i].f \notin FreqsOf(lib) =>
             \E k \in DOMAIN m : m[k] = list[i]
      /\ Distinct(list) => Distinct(m)
  BY MissingFacts
<1> HIDE DEF m
<1>2. /\ lib \o m \in Seq(S) /\ Len(lib \o m) = Len(lib) + Len(m)
      /\ \A k \in 1 .. Len(lib) + Len(m) :
             (lib \o m)[k] = IF k <= Len(lib) THEN lib[k] ELSE m[k - Len(lib)]
  BY <1>1, ConcatProperties
<1>3. s = lib \o m BY DEF Seeded, m
<1> HIDE DEF s
<1>4. /\ DOMAIN lib = 1 .. Len(lib) /\ Len(lib) \in Nat
      /\ DOMAIN m = 1 .. Len(m) /\ Len(m) \in Nat
      /\ DOMAIN s = 1 .. Len(lib) + Len(m)
  BY <1>1, <1>2, <1>3
<1>5. \A k \in DOMAIN s :
         \/ k \in DOMAIN lib /\ s[k] = lib[k]
         \/ k \notin DOMAIN lib /\ k - Len(lib) \in DOMAIN m /\ s[k] = m[k - Len(lib)]
  BY <1>2, <1>3, <1>4
<1>6. /\ \A k \in DOMAIN lib : k \in DOMAIN s /\ s[k] = lib[k]
      /\ \A k \in DOMAIN m : k + Len(lib) \in DOMAIN s /\ s[k + Len(lib)] = m[k]
  BY <1>2, <1>3, <1>4
<1>7. FreqsOf(list) \subseteq FreqsOf(s)
  <2> SUFFICES ASSUME NEW i \in DOMAIN list PROVE list[i].f \in FreqsOf(s)
    BY DEF FreqsOf
  <2>1. CASE list[i].f \in FreqsOf(lib) BY <1>6, <2>1 DEF FreqsOf
  <2>2. CASE list[i].f \notin FreqsOf(lib)
    <3>1. PICK k \in DOMAIN m : m[k] = list[i] BY <1>1, <2>2
    <3> QED BY <1>6, <3>1 DEF FreqsOf
  <2> QED BY <2>1, <2>2
<1>8. ASSUME Distinct(lib), Distinct(list) PROVE Distinct(s)
  <2>1. Distinct(m) BY <1>1, <1>8
  <2>2. \A k \in DOMAIN m : m[k].f \notin FreqsOf(lib) BY <1>1
  <2>3. \A k \in DOMAIN lib : lib[k].f \in FreqsOf(lib) BY DEF FreqsOf
  <2> SUFFICES ASSUME NEW j \in DOMAIN s, NEW k \in DOMAIN s, s[j].f = s[k].f PROVE j = k
    BY DEF Distinct
  <2>4. CASE j \in DOMAIN lib /\ k \in DOMAIN lib BY <1>5, <1>8, <2>4 DEF Distinct
  <2>5. CASE j \notin DOMAIN lib /\ k \notin DOMAIN lib
    <3>1. j - Len(lib) = k - Len(lib) BY <1>5, <2>1, <2>5 DEF Distinct
    <3> QED BY <1>4, <3>1
  <2>6. CASE (j \in DOMAIN lib) # (k \in DOMAIN lib) BY <1>5, <2>2, <2>3, <2>6
  <2> QED BY <2>4, <2>5, <2>6
<1> QED BY <1>2, <1>3, <1>5, <1>7, <1>8 DEF m, s

\* What is kept of a list is its beginning.
LEMMA KeptFacts ==
    ASSUME NEW S, NEW s \in Seq(S)
    PROVE  /\ Kept(s) \in Seq(S)
           /\ DOMAIN Kept(s) \subseteq DOMAIN s
           /\ \A i \in DOMAIN Kept(s) : Kept(s)[i] = s[i]
           /\ Distinct(s) => Distinct(Kept(s))
           /\ Len(s) <= SavedMax => Kept(s) = s
<1> DEFINE n == Least(Len(s), SavedMax)
<1>1. n \in Nat /\ n <= Len(s) /\ Len(s) \in Nat BY LibraryAssumption DEF Least
<1>2. /\ SubSeq(s, 1, n) \in Seq(S)
      /\ Len(SubSeq(s, 1, n)) = n
      /\ \A i \in 1 .. n : SubSeq(s, 1, n)[i] = s[1 + i - 1]
  BY <1>1, SubSeqProperties
<1>3. Len(s) <= SavedMax => n = Len(s) BY DEF Least
<1> HIDE DEF n
<1>4. Kept(s) = SubSeq(s, 1, n) BY DEF Kept, n
<1>5. /\ Kept(s) \in Seq(S) /\ DOMAIN Kept(s) = 1 .. n
      /\ \A i \in 1 .. n : Kept(s)[i] = s[i]
  BY <1>1, <1>2, <1>4
<1>6. n = Len(s) => Kept(s) = s
  <2>1. ASSUME n = Len(s) PROVE Kept(s) = s
    <3>1. Len(Kept(s)) = Len(s) /\ \A i \in 1 .. Len(s) : Kept(s)[i] = s[i]
      BY <1>1, <1>2, <1>4, <1>5, <2>1
    <3> QED BY <1>5, <3>1, SeqEqual
  <2> QED BY <2>1
<1>7. 1 .. n \subseteq DOMAIN s BY <1>1
<1> QED BY <1>3, <1>5, <1>6, <1>7 DEF Distinct

\* The offset of a page.
LEMMA PageNat == ASSUME NEW i \in Nat, i >= 1 PROVE PageOf(i) \in Nat
<1>1. (i - 1) \div Page \in Nat BY LibraryAssumption
<1> HIDE DEF PageOf
<1>2. \A q \in Nat : q * Page \in Nat BY LibraryAssumption
<1> QED BY <1>1, <1>2 DEF PageOf

\* The row a command names is a row of the library.
LEMMA RowFacts ==
    ASSUME TypeOK, NEW r \in 1 .. Page, Row(r)
    PROVE  /\ page + r \in 1 .. Len(saved) /\ At(r) \in Entry
           /\ At(r) = saved[page + r] /\ At(r).f \in Freqs
           /\ todo = <<>> /\ listsMode
<1>1. page + r \in 1 .. Len(saved) BY LibraryAssumption DEF TypeOK, Row
<1>2. saved[page + r] \in Entry BY <1>1 DEF TypeOK
<1> QED BY <1>1, <1>2 DEF At, Entry, Row, Idle

\* Every step keeps the types.
LEMMA TypeStep == ListInv /\ TypeOK /\ [Next]_vars => TypeOK'
<1> SUFFICES ASSUME ListInv, TypeOK, [Next]_vars PROVE TypeOK'
  OBVIOUS
<1> USE LiveDomain, BatchTypes DEF Batches, TypeOK, vars, lists, view, disk, Unsaved, Refused
<1>0. /\ selected \in 1 .. Len(live) /\ live[selected] \in Entry
      /\ live[selected].f \in Freqs /\ live[selected].span \in Spans
  <2>1. selected \in 1 .. Len(live) BY DEF ListInv
  <2> QED BY <2>1, PieceTypes
<1>1. ASSUME NEW i \in 1 .. LiveMax, Select(i) PROVE TypeOK'
  BY <1>1 DEF Select
<1>2. ASSUME NEW s \in Spans, SetSpan(s) PROVE TypeOK'
  BY <1>0, <1>2, SpanType, SavedSpanType DEF SetSpan
<1>3. ASSUME NEW f \in Freqs, AddLive(f) PROVE TypeOK'
  <2>1. [f |-> f, span |-> live[selected].span] \in Entry BY <1>0 DEF Entry
  <2>2. InsertAfter(live, selected, [f |-> f, span |-> live[selected].span]) \in Seq(Entry)
    BY <1>0, <2>1, InsertType
  <2>3. /\ live' \in Seq(Entry) /\ selected' \in Nat
        /\ <<"build", "tune", "list">> \in Seq(Write)
        /\ marks' \subseteq {"added_live", "torn"}
    BY <1>0, <1>3, <2>2 DEF AddLive
  <2> QED BY <1>3, <2>3 DEF AddLive
<1>4. ASSUME NEW r \in 1 .. Page, ToggleOff(r) PROVE TypeOK'
  <2>1. IndexOf(live, At(r).f) \in 1 .. Len(live)
    BY <1>4, IndexFacts DEF ToggleOff, ListInv, Usable
  <2>2. \A i \in 1 .. Len(live) : SelectedWithout(i) \in Nat
    BY <1>0 DEF SelectedWithout, Least
  <2>3. \A i \in 1 .. Len(live) : Without(live, i) \in Seq(Entry)
    BY <1>0, WithoutType
  <2> QED BY <1>4, <2>1, <2>2, <2>3 DEF ToggleOff
<1>5. ASSUME NEW r \in 1 .. Page, ToggleOn(r) PROVE TypeOK'
  <2>1. At(r) \in Entry BY <1>5, RowFacts DEF ToggleOn
  <2>2. Append(live, At(r)) \in Seq(Entry) BY <2>1, AppendProperties
  <2> QED BY <1>5, <2>2 DEF ToggleOn
<1>6. ASSUME NEW r \in 1 .. Page, Delete(r) PROVE TypeOK'
  <2>1. page + r \in 1 .. Len(saved) /\ At(r) \in Entry /\ At(r) = saved[page + r]
    BY <1>6, RowFacts DEF Delete
  <2>2. Without(saved, page + r) \in Seq(Entry) BY <2>1, WithoutType
  <2>3. At(r).f \in FreqsOf(live) => LiveAfterDelete(At(r).f) \in Seq(Entry)
    <3>1. At(r).f \in FreqsOf(live) => IndexOf(live, At(r).f) \in 1 .. Len(live)
      BY IndexFacts DEF ListInv, Usable
    <3> QED BY <1>0, <3>1, WithoutType DEF LiveAfterDelete
  <2>4. SelectedAfterDelete \in Nat BY <1>0 DEF SelectedAfterDelete, Least
  <2>5. ASSUME NEW t \in Seq(Entry), t # <<>> PROVE PageOf(Least(page + r, Len(t))) \in Nat
    <3>1. Len(t) \in Nat /\ Len(t) # 0 BY <2>5
    <3>2. Least(page + r, Len(t)) \in Nat /\ Least(page + r, Len(t)) >= 1
      BY <2>1, <3>1 DEF Least
    <3> QED BY <3>2, PageNat
  <2>6. /\ saved' \in {saved, Without(saved, page + r)}
        /\ live' \in {live, LiveAfterDelete(At(r).f)} /\ (live' # live => At(r).f \in FreqsOf(live))
        /\ selected' \in {selected, SelectedAfterDelete}
        /\ todo' \in {<<"publish">>, Deleted, <<"library", "publish">>}
        /\ page' \in {page, 0, PageOf(Least(page + r, Len(saved')))}
        /\ UNCHANGED <<listsMode, marks>> /\ Unsaved
    BY <1>6 DEF Delete
  <2>7. page' \in Nat
    <3>1. page' = page \/ page' = 0 \/ (saved' # <<>> /\ page' = PageOf(Least(page + r, Len(saved'))))
      BY <1>6 DEF Delete
    <3> QED BY <2>2, <2>5, <2>6, <3>1
  <2>8. live' \in Seq(Entry) /\ saved' \in Seq(Entry) /\ selected' \in Nat /\ todo' \in Seq(Write)
    BY <2>2, <2>3, <2>4, <2>6
  <2> QED BY <2>6, <2>7, <2>8
<1>7. ASSUME NEW r \in 1 .. Page, Tune(r) PROVE TypeOK'
  <2>1. At(r) \in Entry BY <1>7, RowFacts DEF Tune
  <2>2. Append(live, At(r)) \in Seq(Entry) /\ Len(Append(live, At(r))) \in Nat
    BY <2>1, AppendProperties
  <2>3. At(r).f \in FreqsOf(live) => IndexOf(live, At(r).f) \in Nat
    BY IndexFacts DEF ListInv, Usable
  <2> QED BY <1>7, <2>2, <2>3 DEF Tune
<1>8. ASSUME NEW f \in Freqs, AddSaved(f) PROVE TypeOK'
  <2>1. [f |-> f, span |-> live[selected].span] \in Entry BY <1>0 DEF Entry
  <2>2. /\ Append(saved, [f |-> f, span |-> live[selected].span]) \in Seq(Entry)
        /\ Len(Append(saved, [f |-> f, span |-> live[selected].span])) = Len(saved) + 1
    BY <2>1, AppendProperties
  <2>3. PageOf(Len(saved) + 1) \in Nat BY PageNat
  <2> QED BY <1>8, <2>2, <2>3 DEF AddSaved
<1>9. CASE Refresh \/ ShowLive \/ UNCHANGED vars
  BY <1>9 DEF Refresh, ShowLive
<1>10. CASE ShowLists
  <2>1. live[selected].f \in FreqsOf(saved) =>
           PageOf(IndexOf(saved, live[selected].f)) \in Nat
    BY IndexFacts, SeqRange, PageNat
  <2> QED BY <1>10, <2>1 DEF ShowLists
<1>11. CASE TurnPage
  <2>1. PrevPage \in Nat /\ page + Page \in Nat
    BY LibraryAssumption DEF PrevPage
  <2> QED BY <1>11, <2>1 DEF TurnPage
<1>12. CASE DoList \/ DoLibrary \/ DoTune
  BY <1>0, <1>12, TailHas DEF DoList, DoLibrary, DoTune
<1>13. CASE DoBuild
  BY <1>13, TailHas DEF DoBuild, LiveView
<1>14. CASE DoPublish
  <2>1. saved # <<>> => Least(page, PageOf(Len(saved))) \in Nat
    <3>1. saved # <<>> => Len(saved) >= 1 OBVIOUS
    <3> QED BY <3>1, PageNat DEF Least
  <2>2. \A p \in Nat : LibraryView(p).mode = "library" BY DEF LibraryView
  <2> QED BY <1>14, <2>1, <2>2, TailHas DEF DoPublish
<1>15. CASE DoSel
  <2>1. shown'.mode \in {"live", "library"}
    BY <1>15 DEF DoSel
  <2> QED BY <1>15, <2>1, TailHas DEF DoSel
<1>16. CASE Restart
  <2>1. Seeded(diskLib, diskLive) \in Seq(Entry) BY SeededFacts
  <2>2. Kept(saved') \in Seq(Entry) BY <1>16, <2>1, KeptFacts DEF Restart
  <2> QED BY <1>16, <2>1, <2>2 DEF Restart
<1> QED
  BY <1>1, <1>2, <1>3, <1>4, <1>5, <1>6, <1>7, <1>8, <1>9, <1>10, <1>11, <1>12,
     <1>13, <1>14, <1>15, <1>16
  DEF Next, Command, DoWrite

\* The types of the initial state.
LEMMA TypeInit == Init => TypeOK
<1> SUFFICES ASSUME Init PROVE TypeOK OBVIOUS
<1>1. PICK n \in 1 .. LiveMax : live \in [1 .. n -> Entry] BY DEF Init
<1>2. live \in Seq(Entry) /\ live[1] \in Entry BY <1>1, LibraryAssumption
<1> QED BY <1>2, BatchTypes DEF Init, TypeOK, LiveView, Batches

\* The lists, the writes to come and the view have their types.
THEOREM TypeCorrect == Spec => []TypeOK
<1>1. Init /\ [][Next]_vars => []ListInv BY ListInit, ListStep, PTL
<1> QED BY <1>1, TypeInit, TypeStep, PTL DEF Spec

-----------------------------------------------------------------------------
(* Nothing is lost once a command is done *)

\* A write to come makes good what the file of a list lacks.
DurableInv ==
    /\ Has(todo, "list") \/ diskLive = live
    /\ Has(todo, "library") \/ diskLib = Kept(saved)

\* Every step leaves the files up to date, or the writes that make them so.
LEMMA DurableStep == TypeOK /\ DurableInv /\ [Next]_vars => DurableInv'
<1> SUFFICES ASSUME TypeOK, DurableInv, [Next]_vars PROVE DurableInv'
  OBVIOUS
<1> USE BatchHas DEF DurableInv, vars, lists, view, disk, Unsaved, Refused, Idle, Row
<1>0. todo \in Seq(Write) BY DEF TypeOK
<1>1. ASSUME NEW i \in 1 .. LiveMax, Select(i) PROVE DurableInv'
  BY <1>1 DEF Select
<1>2. ASSUME NEW s \in Spans, SetSpan(s) PROVE DurableInv'
  BY <1>2 DEF SetSpan
<1>3. ASSUME NEW f \in Freqs, AddLive(f) PROVE DurableInv'
  BY <1>3 DEF AddLive
<1>4. ASSUME NEW r \in 1 .. Page, ToggleOff(r) PROVE DurableInv'
  BY <1>4 DEF ToggleOff
<1>5. ASSUME NEW r \in 1 .. Page, ToggleOn(r) PROVE DurableInv'
  BY <1>5 DEF ToggleOn
<1>6. ASSUME NEW r \in 1 .. Page, Delete(r) PROVE DurableInv'
  BY <1>6 DEF Delete
<1>7. ASSUME NEW r \in 1 .. Page, Tune(r) PROVE DurableInv'
  BY <1>7 DEF Tune
<1>8. ASSUME NEW f \in Freqs, AddSaved(f) PROVE DurableInv'
  BY <1>8 DEF AddSaved
<1>9. CASE Refresh \/ ShowLists \/ ShowLive \/ TurnPage \/ UNCHANGED vars
  BY <1>9 DEF Refresh, ShowLists, ShowLive, TurnPage
<1>10. CASE DoList
  BY <1>0, <1>10, TailHas DEF DoList
<1>11. CASE DoLibrary
  <2>1. Kept(saved) = saved BY <1>11, KeptFacts DEF DoLibrary, LibraryFits, TypeOK
  <2> QED BY <1>0, <1>11, <2>1, TailHas DEF DoLibrary
<1>12. CASE DoTune \/ DoBuild \/ DoPublish \/ DoSel
  BY <1>0, <1>12, TailHas DEF DoTune, DoBuild, DoPublish, DoSel
<1>13. CASE Restart
  BY <1>13 DEF Restart
<1> QED
  BY <1>1, <1>2, <1>3, <1>4, <1>5, <1>6, <1>7, <1>8, <1>9, <1>10, <1>11, <1>12, <1>13
  DEF Next, Command, DoWrite

\* When a command is done the files hold the lists, the library as much as it
\* may hold: a service that dies then loses nothing.
THEOREM NothingLost == Spec => []Durable
<1>1. Init => DurableInv
  BY KeptFacts, TypeInit DEF Init, DurableInv, TypeOK
<1>2. DurableInv => Durable
  BY BatchHas DEF DurableInv, Durable, Idle
<1>3. Spec => []TypeOK BY TypeCorrect
<1> QED BY <1>1, <1>2, <1>3, DurableStep, PTL DEF Spec

-----------------------------------------------------------------------------
(* The Display shows what the next command means *)

\* A view to come makes good what the Display shows; after a new selection
\* only the mark of the selected row is to come.
ShownInv ==
    /\ Has(todo, "publish") => listsMode
    /\ Has(todo, "build") => ~listsMode
    /\ listsMode /\ saved # <<>> => Has(todo, "publish") \/ shown = LibraryView(page)
    /\ ~listsMode =>
          \/ Has(todo, "build")
          \/ shown = LiveView
          \/ /\ Has(todo, "sel") /\ shown.mode = "live"
             /\ [shown EXCEPT !.sel = selected] = LiveView

LiveViewOf(rows, n) ==
    [mode |-> "live", rows |-> rows, member |-> {}, offset |-> 0, total |-> 0, sel |-> n]

\* The view of the Live list with another row marked.
LEMMA MarkedView ==
    ASSUME NEW rows, NEW m, NEW n
    PROVE  [LiveViewOf(rows, m) EXCEPT !.sel = n] = LiveViewOf(rows, n)
<1> DEFINE x == [LiveViewOf(rows, m) EXCEPT !.sel = n]
           y == LiveViewOf(rows, n)
           D == {"mode", "rows", "member", "offset", "total", "sel"}
<1>1. x = [d \in D |-> x[d]] BY DEF LiveViewOf
<1>2. y = [d \in D |-> y[d]] BY DEF LiveViewOf
<1>3. \A d \in D : x[d] = y[d] BY DEF LiveViewOf
<1> HIDE DEF x, y, D
<1>4. x = y BY <1>1, <1>2, <1>3
<1> QED BY <1>4 DEF x, y

\* A change of span changes no view: views show frequencies only.
LEMMA SpanViews ==
    ASSUME ListInv, TypeOK, NEW s \in Spans, SetSpan(s)
    PROVE  /\ LiveView' = LiveView
           /\ page' = page => LibraryView(page)' = LibraryView(page)
<1>0. selected \in 1 .. Len(live) /\ live \in Seq(Entry) /\ DOMAIN live = 1 .. Len(live)
  BY LiveDomain DEF ListInv, TypeOK
<1>1. /\ live' = [live EXCEPT ![selected] = WithSpan(live[selected], s)]
      /\ saved' = SavedWithSpan(s) /\ selected' = selected
  BY <1>0 DEF SetSpan
<1>2. DOMAIN live' = DOMAIN live /\ \A i \in DOMAIN live : live'[i].f = live[i].f
  BY <1>0, <1>1 DEF WithSpan
<1>3. DOMAIN saved' = DOMAIN saved /\ Len(saved') = Len(saved)
      /\ \A i \in DOMAIN saved : saved'[i].f = saved[i].f
  BY <1>1, SavedSpanType DEF TypeOK, WithSpan, SavedWithSpan
<1>4. FreqSeq(live)' = FreqSeq(live) BY <1>2 DEF FreqSeq
<1>5. FreqsOf(live)' = FreqsOf(live) BY <1>2 DEF FreqsOf
<1>6. FreqSeq(saved)' = FreqSeq(saved) BY <1>3 DEF FreqSeq
<1> QED BY <1>1, <1>3, <1>4, <1>5, <1>6 DEF LiveView, LibraryView

\* A view does not change with the writes, the files and the receiver.
LEMMA SameViews ==
    /\ UNCHANGED <<live, selected>> => LiveView' = LiveView
    /\ \A p \in Nat : UNCHANGED <<live, saved>> => LibraryView(p)' = LibraryView(p)
BY DEF LiveView, LibraryView, FreqSeq, FreqsOf

\* Every step leaves the view up to date, or a write that makes it so.
LEMMA ShownStep == ListInv /\ TypeOK /\ ShownInv /\ [Next]_vars => ShownInv'
<1> SUFFICES ASSUME ListInv, TypeOK, ShownInv, [Next]_vars PROVE ShownInv'
  OBVIOUS
<1> USE BatchHas DEF ShownInv, vars, lists, view, disk, Unsaved, Refused, Idle, Row
<1>0. todo \in Seq(Write) /\ page \in Nat BY DEF TypeOK
<1>1. ASSUME NEW i \in 1 .. LiveMax, Select(i) PROVE ShownInv'
  <2>1. /\ todo = <<>> /\ todo' = <<"tune", "sel">> /\ selected' = i
        /\ UNCHANGED <<live, saved, listsMode, page, shown>>
    BY <1>1 DEF Select
  <2>2. LibraryView(page)' = LibraryView(page) BY <1>0, <2>1, SameViews
  <2>3. ASSUME shown = LiveView
        PROVE  shown'.mode = "live" /\ [shown' EXCEPT !.sel = selected'] = LiveView'
    <3>1. LiveView' = LiveViewOf(FreqSeq(live), i)
      BY <2>1 DEF LiveView, LiveViewOf, FreqSeq
    <3>2. shown' = LiveViewOf(FreqSeq(live), selected)
      BY <2>1, <2>3 DEF LiveView, LiveViewOf
    <3>3. [shown' EXCEPT !.sel = selected'] = LiveView' BY <2>1, <3>1, <3>2, MarkedView
    <3>4. shown'.mode = "live" BY <3>2 DEF LiveViewOf
    <3> QED BY <3>3, <3>4
  <2> QED BY <2>1, <2>2, <2>3
<1>2. ASSUME NEW s \in Spans, SetSpan(s) PROVE ShownInv'
  <2>1. /\ todo = <<>> /\ todo' = <<"list", "library", "tune">>
        /\ UNCHANGED <<listsMode, page, shown>>
        /\ saved' = <<>> <=> saved = <<>>
    BY <1>2, SavedSpanType DEF SetSpan, TypeOK
  <2>2. LiveView' = LiveView /\ LibraryView(page)' = LibraryView(page)
    BY <1>2, <2>1, SpanViews
  <2> QED BY <2>1, <2>2
<1>3. ASSUME NEW f \in Freqs, AddLive(f) PROVE ShownInv'
  BY <1>3 DEF AddLive
<1>4. ASSUME NEW r \in 1 .. Page, ToggleOff(r) PROVE ShownInv'
  BY <1>4 DEF ToggleOff
<1>5. ASSUME NEW r \in 1 .. Page, ToggleOn(r) PROVE ShownInv'
  BY <1>5 DEF ToggleOn
<1>6. ASSUME NEW r \in 1 .. Page, Delete(r) PROVE ShownInv'
  BY <1>6 DEF Delete
<1>7. ASSUME NEW r \in 1 .. Page, Tune(r) PROVE ShownInv'
  BY <1>7 DEF Tune
<1>8. ASSUME NEW f \in Freqs, AddSaved(f) PROVE ShownInv'
  BY <1>8 DEF AddSaved
<1>9. CASE Refresh \/ ShowLists \/ ShowLive \/ TurnPage
  BY <1>9 DEF Refresh, ShowLists, ShowLive, TurnPage
<1>10. CASE DoList \/ DoLibrary \/ DoTune
  <2>1. /\ UNCHANGED <<live, saved, selected, listsMode, page, shown>>
        /\ todo # <<>> /\ todo' = Tail(todo)
        /\ Head(todo) \in {"list", "library", "tune"}
    BY <1>10 DEF DoList, DoLibrary, DoTune
  <2>2. LiveView' = LiveView /\ LibraryView(page)' = LibraryView(page)
    BY <1>0, <2>1, SameViews
  <2> QED BY <1>0, <2>1, <2>2, TailHas
<1>11. CASE DoBuild
  <2>1. /\ UNCHANGED <<live, saved, selected, listsMode, page>>
        /\ todo # <<>> /\ todo' = Tail(todo) /\ Head(todo) = "build"
        /\ shown' = LiveView
    BY <1>11 DEF DoBuild
  <2>2. LiveView' = LiveView BY <2>1, SameViews
  <2>3. ~listsMode BY <1>0, <2>1, TailHas
  <2> QED BY <1>0, <2>1, <2>2, <2>3, TailHas
<1>12. CASE DoPublish
  <2>1. /\ UNCHANGED <<live, saved, selected, listsMode>>
        /\ todo # <<>> /\ todo' = Tail(todo) /\ Head(todo) = "publish"
        /\ saved # <<>> => shown' = LibraryView(page')
    BY <1>12 DEF DoPublish
  <2>2. saved # <<>> => shown' = LibraryView(page)'
    <3>1. page' \in Nat BY TypeStep DEF TypeOK
    <3>2. PICK p \in Nat : p = page' BY <3>1
    <3>3. LibraryView(p)' = LibraryView(p) BY <2>1, SameViews
    <3>4. LibraryView(page)' = LibraryView(p)' BY <3>2 DEF LibraryView
    <3>5. LibraryView(page') = LibraryView(p) BY <3>2
    <3> QED BY <2>1, <3>3, <3>4, <3>5
  <2>3. listsMode BY <1>0, <2>1, TailHas
  <2> QED BY <1>0, <2>1, <2>2, <2>3, TailHas
<1>13. CASE DoSel
  <2>1. /\ UNCHANGED <<live, saved, selected, listsMode, page>>
        /\ todo # <<>> /\ todo' = Tail(todo) /\ Head(todo) = "sel"
        /\ shown' = IF shown.mode = "live" THEN [shown EXCEPT !.sel = selected] ELSE shown
    BY <1>13 DEF DoSel
  <2>2. LiveView' = LiveView /\ LibraryView(page)' = LibraryView(page)
    BY <1>0, <2>1, SameViews
  <2>3. LibraryView(page).mode = "library" /\ LiveView.mode = "live"
        /\ [LiveView EXCEPT !.sel = selected] = LiveView
    <3>1. LibraryView(page).mode = "library" BY DEF LibraryView
    <3>2. LiveView.mode = "live" BY DEF LiveView
    <3>3. LiveView = LiveViewOf(FreqSeq(live), selected) BY DEF LiveView, LiveViewOf
    <3>4. [LiveView EXCEPT !.sel = selected] = LiveView BY <3>3, MarkedView
    <3> QED BY <3>1, <3>2, <3>4
  <2>4. listsMode /\ saved # <<>> => Has(Tail(todo), "publish") \/ shown' = LibraryView(page)
    BY <1>0, <2>1, <2>3, TailHas
  <2>5. ~listsMode => Has(Tail(todo), "build") \/ shown' = LiveView
    BY <1>0, <2>1, <2>3, TailHas
  <2> QED BY <1>0, <2>1, <2>2, <2>4, <2>5, TailHas
<1>14. CASE Restart
  BY <1>14 DEF Restart
<1>15. CASE UNCHANGED vars
  BY <1>0, <1>15, SameViews
<1> QED
  BY <1>1, <1>2, <1>3, <1>4, <1>5, <1>6, <1>7, <1>8, <1>9, <1>10, <1>11, <1>12, <1>13,
     <1>14, <1>15
  DEF Next, Command, DoWrite

\* When a command is done the Display was given the view it left: the row the
\* user sees is the row the next command means.
THEOREM ShownFollows == Spec => []ShownIsCurrent
<1>1. Init => ShownInv
  BY BatchHas DEF Init, ShownInv
<1>2. ShownInv => ShownIsCurrent
  BY BatchHas DEF ShownInv, ShownIsCurrent, Idle
<1>3. Init /\ [][Next]_vars => []ListInv BY ListInit, ListStep, PTL
<1>4. Spec => []TypeOK BY TypeCorrect
<1> QED BY <1>1, <1>2, <1>3, <1>4, ShownStep, PTL DEF Spec

-----------------------------------------------------------------------------
(* One entry per frequency in the library, which holds what is in Live *)

\* Every entry of list s that shares its frequency with one of t shares its span.
Agreeing(s, t) ==
    \A i \in DOMAIN s, j \in DOMAIN t : s[i].f = t[j].f => s[i].span = t[j].span

\* Taking an entry out takes its frequency out, and leaves the other entries.
LEMMA WithoutSets ==
    ASSUME NEW S, NEW s \in Seq(S), Distinct(s), NEW i \in 1 .. Len(s)
    PROVE  /\ FreqsOf(Without(s, i)) = FreqsOf(s) \ {s[i].f}
           /\ Distinct(Without(s, i))
           /\ \A j \in DOMAIN Without(s, i) : \E k \in DOMAIN s : Without(s, i)[j] = s[k]
<1>1. /\ IsSeq(s) /\ IsSeq(Without(s, i)) /\ Distinct(Without(s, i))
      /\ Len(Without(s, i)) = Len(s) - 1
      /\ \A j \in 1 .. Len(s) - 1 : Without(s, i)[j] = IF j < i THEN s[j] ELSE s[j + 1]
  BY SeqRange, WithoutFacts, WithoutDistinct
<1> DEFINE w == Without(s, i)
<1>2. DOMAIN w = 1 .. Len(s) - 1 /\ DOMAIN s = 1 .. Len(s) /\ Len(s) \in Nat
  BY <1>1 DEF IsSeq
<1> HIDE DEF w
<1>3. ASSUME NEW j \in DOMAIN w
      PROVE  \E k \in DOMAIN s : k # i /\ w[j] = s[k]
  <2>1. j < i \/ ~(j < i) OBVIOUS
  <2>2. CASE j < i
    <3>1. j \in DOMAIN s /\ j # i BY <1>2, <2>2
    <3> QED BY <1>1, <1>2, <2>2, <3>1 DEF w
  <2>3. CASE ~(j < i)
    <3>1. j + 1 \in DOMAIN s /\ j + 1 # i BY <1>2, <2>3
    <3> QED BY <1>1, <1>2, <2>3, <3>1 DEF w
  <2> QED BY <2>1, <2>2, <2>3
<1>4. ASSUME NEW k \in DOMAIN s, k # i
      PROVE  \E j \in DOMAIN w : w[j] = s[k]
  <2>1. CASE k < i
    <3>1. k \in DOMAIN w BY <1>2, <2>1
    <3> QED BY <1>1, <1>2, <2>1, <3>1 DEF w
  <2>2. CASE k > i
    <3>1. k - 1 \in DOMAIN w /\ ~(k - 1 < i) /\ (k - 1) + 1 = k BY <1>2, <2>2
    <3> QED BY <1>1, <1>2, <2>2, <3>1 DEF w
  <2> QED BY <1>2, <1>4, <2>1, <2>2
<1>5. i \in DOMAIN s /\ \A k \in DOMAIN s : k # i => s[k].f # s[i].f
  BY <1>2 DEF Distinct
<1>6. FreqsOf(w) = FreqsOf(s) \ {s[i].f}
  BY <1>3, <1>4, <1>5 DEF FreqsOf
<1> QED BY <1>1, <1>3, <1>6 DEF w

\* Adding an entry adds its frequency.
LEMMA AppendSets ==
    ASSUME NEW S, NEW s \in Seq(S), NEW e \in S
    PROVE  /\ FreqsOf(Append(s, e)) = FreqsOf(s) \cup {e.f}
           /\ \A j \in DOMAIN Append(s, e) :
                 Append(s, e)[j] = e \/ \E k \in DOMAIN s : Append(s, e)[j] = s[k]
           /\ Distinct(s) /\ e.f \notin FreqsOf(s) => Distinct(Append(s, e))
<1> DEFINE a == Append(s, e)
<1>1. /\ a \in Seq(S) /\ Len(a) = Len(s) + 1
      /\ \A j \in 1 .. Len(s) : a[j] = s[j]
      /\ a[Len(s) + 1] = e
  BY AppendProperties
<1> HIDE DEF a
<1>2. DOMAIN a = 1 .. Len(s) + 1 /\ DOMAIN s = 1 .. Len(s) /\ Len(s) \in Nat
  BY <1>1
<1>3. \A j \in DOMAIN a : j = Len(s) + 1 \/ j \in DOMAIN s BY <1>2
<1>4. DOMAIN s \subseteq DOMAIN a /\ Len(s) + 1 \in DOMAIN a BY <1>2
<1>5. FreqsOf(a) = FreqsOf(s) \cup {e.f}
  BY <1>1, <1>2, <1>3, <1>4 DEF FreqsOf
<1>6. \A j \in DOMAIN a : a[j] = e \/ \E k \in DOMAIN s : a[j] = s[k]
  BY <1>1, <1>2, <1>3
<1>7. Distinct(s) /\ e.f \notin FreqsOf(s) => Distinct(a)
  BY AppendFacts, SeqRange DEF a
<1> QED BY <1>5, <1>6, <1>7 DEF a

\* A change of span keeps the frequencies of both lists, and makes the two
\* entries of the selected frequency agree.
LEMMA SpanSets ==
    ASSUME ListInv, TypeOK, NEW b \in Spans, SetSpan(b)
    PROVE  /\ FreqsOf(live)' = FreqsOf(live) /\ FreqsOf(saved)' = FreqsOf(saved)
           /\ Distinct(saved) => Distinct(saved')
           /\ Agreeing(live, saved) => Agreeing(live', saved')
<1>0. selected \in DOMAIN live /\ live \in Seq(Entry) /\ DOMAIN live = 1 .. Len(live)
      /\ Distinct(live)
  BY LiveDomain DEF ListInv, TypeOK, Usable
<1>1. /\ live' = [live EXCEPT ![selected] = WithSpan(live[selected], b)]
      /\ saved' = SavedWithSpan(b)
  BY <1>0 DEF SetSpan
<1>2. DOMAIN live' = DOMAIN live
      /\ \A i \in DOMAIN live : /\ live'[i].f = live[i].f
                                /\ live'[i].span = IF i = selected THEN b ELSE live[i].span
  BY <1>0, <1>1 DEF WithSpan
<1>3. DOMAIN saved' = DOMAIN saved
      /\ \A i \in DOMAIN saved : /\ saved'[i].f = saved[i].f
                                 /\ saved'[i].span = IF saved[i].f = live[selected].f
                                                     THEN b ELSE saved[i].span
  BY <1>1 DEF SavedWithSpan, WithSpan
<1>4. FreqsOf(live)' = FreqsOf(live) /\ FreqsOf(saved)' = FreqsOf(saved)
  BY <1>2, <1>3 DEF FreqsOf
<1>5. Distinct(saved) => Distinct(saved') BY <1>3 DEF Distinct
<1>6. ASSUME Agreeing(live, saved) PROVE Agreeing(live', saved')
  <2> SUFFICES ASSUME NEW i \in DOMAIN live, NEW j \in DOMAIN saved,
                      live'[i].f = saved'[j].f
               PROVE  live'[i].span = saved'[j].span
    BY <1>2, <1>3 DEF Agreeing
  <2>1. live[i].f = saved[j].f BY <1>2, <1>3
  <2>2. live[i].f = live[selected].f <=> i = selected BY <1>0 DEF Distinct
  <2>3. live[i].span = saved[j].span BY <1>6, <2>1 DEF Agreeing
  <2> QED BY <1>2, <1>3, <2>1, <2>2, <2>3
<1> QED BY <1>4, <1>5, <1>6

\* What LiveIsSaved rests on: the library has no frequency twice, in memory
\* and on disk, so that a deleted one is gone.
SavedInv == Distinct(saved) /\ Distinct(diskLib) /\ LiveIsSaved

\* Every step keeps the library without repetitions, and Live within it.
LEMMA SavedStep == ListInv /\ TypeOK /\ SavedInv /\ [Next]_vars => SavedInv'
<1> SUFFICES ASSUME ListInv, TypeOK, SavedInv, [Next]_vars PROVE SavedInv'
  OBVIOUS
<1> USE DEF SavedInv, LiveIsSaved, vars, lists, view, disk, Unsaved, Refused
<1>0. /\ live \in Seq(Entry) /\ saved \in Seq(Entry)
      /\ diskLive \in Seq(Entry) /\ diskLib \in Seq(Entry)
      /\ Distinct(live) /\ Distinct(diskLive)
  BY DEF TypeOK, ListInv, Usable
<1>1. ASSUME NEW i \in 1 .. LiveMax, Select(i) PROVE SavedInv'
  BY <1>1 DEF Select
<1>2. ASSUME NEW s \in Spans, SetSpan(s) PROVE SavedInv'
  <2>1. UNCHANGED <<diskLib, marks>> BY <1>2 DEF SetSpan
  <2> QED BY <1>2, <2>1, SpanSets
<1>3. ASSUME NEW f \in Freqs, AddLive(f) PROVE SavedInv'
  BY <1>3 DEF AddLive
<1>4. ASSUME NEW r \in 1 .. Page, ToggleOff(r) PROVE SavedInv'
  <2>1. IndexOf(live, At(r).f) \in 1 .. Len(live)
    BY <1>4, IndexFacts DEF ToggleOff, ListInv, Usable
  <2>2. FreqsOf(Without(live, IndexOf(live, At(r).f))) \subseteq FreqsOf(live)
    BY <1>0, <2>1, WithoutSets
  <2> QED BY <1>4, <2>2 DEF ToggleOff
<1>5. ASSUME NEW r \in 1 .. Page, ToggleOn(r) PROVE SavedInv'
  <2>1. At(r) \in Entry /\ At(r).f \in FreqsOf(saved)
    BY <1>0, <1>5, RowFacts DEF ToggleOn, FreqsOf
  <2>2. FreqsOf(Append(live, At(r))) = FreqsOf(live) \cup {At(r).f}
    BY <1>0, <2>1, AppendSets
  <2> QED BY <1>5, <2>1, <2>2 DEF ToggleOn
<1>6. ASSUME NEW r \in 1 .. Page, Delete(r) PROVE SavedInv'
  <2>1. page + r \in 1 .. Len(saved) /\ At(r) = saved[page + r]
    BY <1>6, RowFacts DEF Delete
  <2>2. FreqsOf(Without(saved, page + r)) = FreqsOf(saved) \ {At(r).f}
        /\ Distinct(Without(saved, page + r))
    BY <1>0, <2>1, WithoutSets
  <2>3. ASSUME At(r).f \in FreqsOf(live)
        PROVE  FreqsOf(LiveAfterDelete(At(r).f)) = FreqsOf(live) \ {At(r).f}
    <3>1. IndexOf(live, At(r).f) \in 1 .. Len(live)
          /\ live[IndexOf(live, At(r).f)].f = At(r).f
      BY <2>3, IndexFacts DEF ListInv, Usable
    <3> QED BY <1>0, <3>1, WithoutSets DEF LiveAfterDelete
  <2> QED BY <1>6, <2>2, <2>3 DEF Delete
<1>7. ASSUME NEW r \in 1 .. Page, Tune(r) PROVE SavedInv'
  <2>1. At(r) \in Entry /\ At(r).f \in FreqsOf(saved)
    BY <1>0, <1>7, RowFacts DEF Tune, FreqsOf
  <2>2. FreqsOf(Append(live, At(r))) = FreqsOf(live) \cup {At(r).f}
    BY <1>0, <2>1, AppendSets
  <2> QED BY <1>7, <2>1, <2>2 DEF Tune
<1>8. ASSUME NEW f \in Freqs, AddSaved(f) PROVE SavedInv'
  <2> DEFINE e == [f |-> f, span |-> live[selected].span]
  <2>1. e \in Entry /\ e.f = f
    <3>1. live[selected].span \in Spans BY <1>0, PieceTypes DEF ListInv
    <3> QED BY <3>1 DEF Entry
  <2>2. /\ saved' \in {saved, Append(saved, e)}
        /\ saved' # saved => f \notin FreqsOf(saved)
        /\ UNCHANGED <<live, diskLib, marks>>
    BY <1>8 DEF AddSaved
  <2> HIDE DEF e
  <2>3. /\ FreqsOf(Append(saved, e)) = FreqsOf(saved) \cup {f}
        /\ f \notin FreqsOf(saved) => Distinct(Append(saved, e))
    BY <1>0, <2>1, AppendSets
  <2> QED BY <2>2, <2>3
<1>9. CASE Refresh \/ ShowLists \/ ShowLive \/ TurnPage \/ UNCHANGED vars
  BY <1>9 DEF Refresh, ShowLists, ShowLive, TurnPage
<1>10. CASE DoList \/ DoTune \/ DoBuild \/ DoPublish \/ DoSel
  BY <1>10 DEF DoList, DoTune, DoBuild, DoPublish, DoSel
<1>11. CASE DoLibrary
  BY <1>11 DEF DoLibrary, LibraryFits
<1>12. CASE Restart
  <2>1. /\ Seeded(diskLib, diskLive) \in Seq(Entry)
        /\ FreqsOf(diskLive) \subseteq FreqsOf(Seeded(diskLib, diskLive))
        /\ Distinct(Seeded(diskLib, diskLive))
    BY <1>0, SeededFacts
  <2>2. Distinct(Kept(Seeded(diskLib, diskLive))) BY <2>1, KeptFacts
  <2> QED BY <1>12, <2>1, <2>2 DEF Restart
<1> QED
  BY <1>1, <1>2, <1>3, <1>4, <1>5, <1>6, <1>7, <1>8, <1>9, <1>10, <1>11, <1>12
  DEF Next, Command, DoWrite

\* Every frequency in Live can be found in the library, unless one was added to
\* Live outside it.
THEOREM LiveStaysSaved == Spec => []LiveIsSaved
<1>1. Init => SavedInv
  BY ListInit DEF Init, SavedInv, LiveIsSaved, ListInv, Usable
<1>2. SavedInv => LiveIsSaved BY DEF SavedInv
<1>3. Init /\ [][Next]_vars => []ListInv BY ListInit, ListStep, PTL
<1>4. Spec => []TypeOK BY TypeCorrect
<1> QED BY <1>1, <1>2, <1>3, <1>4, SavedStep, PTL DEF Spec

-----------------------------------------------------------------------------
(* One span per frequency *)

\* In a list of writes the library follows the Live list at once.
Orderly(t) == \A i, j \in 1 .. Len(t) : t[i] = "list" /\ t[j] = "library" => j = i + 1

\* The batches of the commands are orderly.
LEMMA BatchOrderly == \A t \in Batches : Orderly(t)
<1>1. 1 .. 0 = {} /\ 1 .. 1 = {1} /\ 1 .. 2 = {1, 2} /\ 1 .. 3 = {1, 2, 3} /\ 1 .. 4 = {1, 2, 3, 4}
  OBVIOUS
<1>2. Orderly(<<>>) /\ Orderly(<<"publish">>) /\ Orderly(<<"build">>)
  BY DEF Orderly
<1>3. /\ Orderly(Toggled) /\ Orderly(<<"library", "publish">>)
      /\ Orderly(<<"tune", "sel">>) /\ Orderly(<<"tune", "build">>)
  BY <1>1 DEF Orderly, Toggled
<1>4. /\ Orderly(<<"list", "library", "tune">>) /\ Orderly(<<"build", "tune", "list">>)
      /\ Orderly(<<"tune", "list", "publish">>) /\ Orderly(<<"list", "tune", "build">>)
  BY <1>1 DEF Orderly
<1>5. Orderly(Deleted)
  BY <1>1 DEF Orderly, Deleted
<1> QED BY <1>2, <1>3, <1>4, <1>5 DEF Batches

\* What is left of an orderly list is orderly; after "list" comes "library" if
\* at all, and with "library" next no "list" is left.
LEMMA TailOrderly ==
    ASSUME todo \in Seq(Write), todo # <<>>, Orderly(todo)
    PROVE  /\ Orderly(Tail(todo))
           /\ Head(todo) = "list" /\ Has(todo, "library") =>
                 Tail(todo) # <<>> /\ Head(Tail(todo)) = "library"
           /\ Head(todo) = "library" => ~Has(todo, "list")
<1>1. /\ Tail(todo) \in Seq(Write) /\ Len(Tail(todo)) = Len(todo) - 1
      /\ \A k \in 1 .. Len(todo) - 1 : Tail(todo)[k] = todo[k + 1]
      /\ Len(todo) \in Nat /\ Len(todo) >= 1 /\ Head(todo) = todo[1]
  BY HeadTailProperties, LenProperties
<1>2. Orderly(Tail(todo))
  <2> SUFFICES ASSUME NEW i \in 1 .. Len(Tail(todo)), NEW j \in 1 .. Len(Tail(todo)),
                      Tail(todo)[i] = "list", Tail(todo)[j] = "library"
               PROVE  j = i + 1
    BY DEF Orderly
  <2>1. /\ i + 1 \in 1 .. Len(todo) /\ j + 1 \in 1 .. Len(todo)
        /\ todo[i + 1] = "list" /\ todo[j + 1] = "library"
    BY <1>1
  <2>2. j + 1 = (i + 1) + 1 BY ONLY <2>1, Orderly(todo) DEF Orderly
  <2>3. i \in Nat /\ j \in Nat OBVIOUS
  <2> QED BY <2>2, <2>3
<1>3. ASSUME Head(todo) = "list", NEW k \in 1 .. Len(todo), todo[k] = "library"
      PROVE  Tail(todo) # <<>> /\ Head(Tail(todo)) = "library"
  <2>1. 1 \in 1 .. Len(todo) /\ todo[1] = "list" BY <1>1, <1>3
  <2>2. k = 1 + 1 BY ONLY <2>1, <1>3, Orderly(todo) DEF Orderly
  <2>3. 1 \in 1 .. Len(Tail(todo)) /\ Tail(todo)[1] = "library" BY <1>1, <1>3, <2>2
  <2>4. Tail(todo) # <<>>
    <3>1. Len(Tail(todo)) # 0 BY ONLY <1>1, <2>3, 1 \in 1 .. Len(Tail(todo))
    <3>2. Len(<<>>) = 0 OBVIOUS
    <3> QED BY ONLY <3>1, <3>2
  <2> QED BY <1>1, <2>3, <2>4, HeadTailProperties
<1>4. ASSUME Head(todo) = "library", NEW k \in 1 .. Len(todo), todo[k] = "list"
      PROVE  FALSE
  <2>1. 1 \in 1 .. Len(todo) /\ todo[1] = "library" BY <1>1, <1>4
  <2>2. 1 = k + 1 BY ONLY <2>1, <1>4, Orderly(todo) DEF Orderly
  <2> QED BY <2>2
<1> QED BY <1>2, <1>3, <1>4 DEF Has

Drawn(u, s) == \A j \in DOMAIN u : \E k \in DOMAIN s : u[j] = s[k]

\* Lists drawn from agreeing lists agree.
LEMMA AgreeingParts ==
    ASSUME NEW s, NEW t, NEW u, NEW v, Agreeing(s, t), Drawn(u, s), Drawn(v, t)
    PROVE  Agreeing(u, v)
<1> SUFFICES ASSUME NEW i \in DOMAIN u, NEW j \in DOMAIN v, u[i].f = v[j].f
             PROVE  u[i].span = v[j].span
  BY DEF Agreeing
<1>1. PICK k \in DOMAIN s : u[i] = s[k] BY DEF Drawn
<1>2. PICK m \in DOMAIN t : v[j] = t[m] BY DEF Drawn
<1> QED BY <1>1, <1>2 DEF Agreeing

\* An entry of the library added to Live agrees with the library, which has
\* its frequency once.
LEMMA AgreeingAppend ==
    ASSUME NEW e \in Entry, live \in Seq(Entry), Distinct(saved), Agreeing(live, saved),
           NEW k \in DOMAIN saved, e = saved[k]
    PROVE  Agreeing(Append(live, e), saved)
<1> SUFFICES ASSUME NEW i \in DOMAIN Append(live, e), NEW j \in DOMAIN saved,
                    Append(live, e)[i].f = saved[j].f
             PROVE  Append(live, e)[i].span = saved[j].span
  BY DEF Agreeing
<1>1. CASE Append(live, e)[i] = e
  <2>1. k = j BY <1>1 DEF Distinct
  <2> QED BY <1>1, <2>1
<1>2. CASE \E m \in DOMAIN live : Append(live, e)[i] = live[m]
  BY <1>2 DEF Agreeing
<1> QED BY <1>1, <1>2, AppendSets

\* What a restart makes of two files that agree, agrees.
LEMMA AgreeingSeeded ==
    ASSUME NEW lib \in Seq(Entry), NEW list \in Seq(Entry), Distinct(list),
           Agreeing(list, lib)
    PROVE  Agreeing(list, Seeded(lib, list))
<1> DEFINE s == Seeded(lib, list)
<1> SUFFICES ASSUME NEW i \in DOMAIN list, NEW j \in DOMAIN s, list[i].f = s[j].f
             PROVE  list[i].span = s[j].span
  BY DEF Agreeing
<1>1. CASE j \in DOMAIN lib /\ s[j] = lib[j]
  BY <1>1 DEF Agreeing
<1>2. CASE j - Len(lib) \in DOMAIN Missing(lib, list) /\ s[j] = Missing(lib, list)[j - Len(lib)]
  <2>1. PICK k \in DOMAIN list : s[j] = list[k] BY <1>2, MissingFacts
  <2>2. k = i BY <2>1 DEF Distinct
  <2> QED BY <2>1, <2>2
<1> QED BY <1>1, <1>2, SeededFacts

\* What OneSpan rests on: the files agree as well, but for the moment between
\* the two, and a restart at that moment is the one the marks record.
SpanInv ==
    /\ Orderly(todo)
    /\ marks = {} => Agreeing(live, saved)
    /\ marks = {} => (todo # <<>> /\ Head(todo) = "library") \/ Agreeing(diskLive, diskLib)

AllInv == ListInv /\ TypeOK /\ DurableInv /\ SavedInv /\ SpanInv

\* A command changes no file: what it does to the lists is all there is to show.
LEMMA CommandSpans ==
    ASSUME AllInv, Idle, UNCHANGED disk, todo' \in Batches, marks \subseteq marks',
           marks' = {} => Agreeing(live', saved')
    PROVE  SpanInv'
BY BatchOrderly DEF AllInv, SpanInv, disk, Idle

\* Every step keeps one span per frequency.
LEMMA SpanStep == AllInv /\ [Next]_vars => SpanInv'
<1> SUFFICES ASSUME AllInv, [Next]_vars PROVE SpanInv'
  OBVIOUS
<1> USE DEF AllInv, vars, lists, view, disk, Unsaved, Refused
<1>0. /\ live \in Seq(Entry) /\ saved \in Seq(Entry) /\ todo \in Seq(Write)
      /\ diskLive \in Seq(Entry) /\ diskLib \in Seq(Entry)
      /\ Distinct(live) /\ Distinct(diskLive) /\ Distinct(saved)
      /\ Drawn(live, live) /\ Drawn(saved, saved)
      /\ marks = {} => Agreeing(live, saved)
  BY DEF TypeOK, ListInv, Usable, SavedInv, SpanInv, Drawn
<1>1. ASSUME NEW i \in 1 .. LiveMax, Select(i) PROVE SpanInv'
  BY <1>0, <1>1, CommandSpans DEF Select, Batches
<1>2. ASSUME NEW s \in Spans, SetSpan(s) PROVE SpanInv'
  <2>1. Idle /\ UNCHANGED <<disk, marks>> /\ todo' \in Batches BY <1>2 DEF SetSpan, Batches
  <2>2. Agreeing(live, saved) => Agreeing(live', saved') BY <1>2, SpanSets
  <2> QED BY <1>0, <2>1, <2>2, CommandSpans
<1>3. ASSUME NEW f \in Freqs, AddLive(f) PROVE SpanInv'
  <2>1. Idle /\ UNCHANGED disk /\ todo' \in Batches /\ marks \subseteq marks' /\ marks' # {}
    BY <1>3 DEF AddLive, Batches
  <2> QED BY <2>1, CommandSpans
<1>4. ASSUME NEW r \in 1 .. Page, ToggleOff(r) PROVE SpanInv'
  <2> DEFINE w == Without(live, IndexOf(live, At(r).f))
  <2>1. IndexOf(live, At(r).f) \in 1 .. Len(live)
    BY <1>4, IndexFacts DEF ToggleOff, ListInv, Usable
  <2>2. Drawn(w, live)
    BY <1>0, <2>1, WithoutSets DEF Drawn
  <2>3. Idle /\ UNCHANGED <<disk, marks, saved>> /\ todo' \in Batches /\ live' \in {live, w}
    BY <1>4 DEF ToggleOff, Batches, Row
  <2> HIDE DEF w
  <2>4. Agreeing(live, saved) => Agreeing(w, saved) BY <1>0, <2>2, AgreeingParts
  <2> QED BY <1>0, <2>3, <2>4, CommandSpans
<1>5. ASSUME NEW r \in 1 .. Page, ToggleOn(r) \/ Tune(r) PROVE SpanInv'
  <2>1. At(r) \in Entry /\ page + r \in DOMAIN saved /\ At(r) = saved[page + r]
    <3>1. Row(r) BY <1>5 DEF ToggleOn, Tune
    <3> QED BY <1>0, <3>1, RowFacts
  <2>2. Agreeing(live, saved) => Agreeing(Append(live, At(r)), saved)
    BY <1>0, <2>1, AgreeingAppend
  <2>3. Idle /\ UNCHANGED <<disk, marks, saved>> /\ todo' \in Batches
        /\ live' \in {live, Append(live, At(r))}
    BY <1>5 DEF ToggleOn, Tune, Batches, Row
  <2> QED BY <1>0, <2>2, <2>3, CommandSpans
<1>6. ASSUME NEW r \in 1 .. Page, Delete(r) PROVE SpanInv'
  <2> DEFINE w == Without(saved, page + r)
             v == LiveAfterDelete(At(r).f)
  <2>1. page + r \in 1 .. Len(saved) BY <1>6, RowFacts DEF Delete
  <2>2. Drawn(w, saved)
    BY <1>0, <2>1, WithoutSets DEF Drawn
  <2>3. ASSUME At(r).f \in FreqsOf(live)
        PROVE  Drawn(v, live)
    <3>1. IndexOf(live, At(r).f) \in 1 .. Len(live)
      BY <2>3, IndexFacts DEF ListInv, Usable
    <3> QED BY <1>0, <3>1, WithoutSets DEF LiveAfterDelete, Drawn
  <2>4. /\ Idle /\ UNCHANGED <<disk, marks>> /\ todo' \in Batches
        /\ saved' \in {saved, w}
        /\ live' = live \/ (live' = v /\ At(r).f \in FreqsOf(live))
    BY <1>6 DEF Delete, Batches, Row
  <2> HIDE DEF w, v
  <2>5. Drawn(live', live)
    BY <1>0, <2>3, <2>4
  <2>6. Drawn(saved', saved)
    BY <1>0, <2>2, <2>4
  <2>7. Agreeing(live, saved) => Agreeing(live', saved') BY <2>5, <2>6, AgreeingParts
  <2> QED BY <1>0, <2>4, <2>7, CommandSpans
<1>8. ASSUME NEW f \in Freqs, AddSaved(f) PROVE SpanInv'
  <2> DEFINE e == [f |-> f, span |-> live[selected].span]
  <2>1. e \in Entry /\ e.f = f
    <3>1. live[selected].span \in Spans BY <1>0, PieceTypes DEF ListInv
    <3> QED BY <3>1 DEF Entry
  <2>2. /\ saved' = saved \/ (saved' = Append(saved, e) /\ f \notin FreqsOf(saved))
        /\ Idle /\ UNCHANGED <<live, disk, marks>> /\ todo' \in Batches
    BY <1>8 DEF AddSaved, Batches
  <2> HIDE DEF e
  <2>3. \A j \in DOMAIN Append(saved, e) :
           Append(saved, e)[j] = e \/ \E k \in DOMAIN saved : Append(saved, e)[j] = saved[k]
    BY <1>0, <2>1, AppendSets
  <2>4. marks = {} /\ f \notin FreqsOf(saved) => \A i \in DOMAIN live : live[i].f # f
    BY DEF SavedInv, LiveIsSaved, FreqsOf
  <2>5. marks = {} => Agreeing(live, saved')
    <3>1. ASSUME marks = {}, f \notin FreqsOf(saved), saved' = Append(saved, e)
          PROVE  Agreeing(live, Append(saved, e))
      <4> SUFFICES ASSUME NEW i \in DOMAIN live, NEW j \in DOMAIN Append(saved, e),
                          live[i].f = Append(saved, e)[j].f
                   PROVE  live[i].span = Append(saved, e)[j].span
        BY DEF Agreeing
      <4>1. Append(saved, e)[j] # e BY <2>1, <2>4, <3>1
      <4>2. PICK k \in DOMAIN saved : Append(saved, e)[j] = saved[k] BY <2>3, <4>1
      <4> QED BY <1>0, <3>1, <4>2 DEF Agreeing
    <3> QED BY <1>0, <2>2, <3>1
  <2> QED BY <2>2, <2>5, CommandSpans
<1>9. CASE Refresh \/ ShowLists \/ ShowLive \/ TurnPage
  <2>1. Idle /\ UNCHANGED <<live, saved, disk, marks>> /\ todo' \in Batches
    BY <1>9 DEF Refresh, ShowLists, ShowLive, TurnPage, Batches
  <2> QED BY <1>0, <2>1, CommandSpans
<1>10. CASE DoTune \/ DoBuild \/ DoPublish \/ DoSel
  <2>1. /\ UNCHANGED <<live, saved, disk, marks>> /\ todo # <<>> /\ todo' = Tail(todo)
        /\ Head(todo) # "library"
    BY <1>10 DEF DoTune, DoBuild, DoPublish, DoSel
  <2> QED BY <1>0, <2>1, TailOrderly DEF SpanInv
<1>11. CASE DoList
  <2>1. /\ UNCHANGED <<live, saved, diskLib, marks>> /\ todo # <<>> /\ todo' = Tail(todo)
        /\ Head(todo) = "list" /\ diskLive' = live
    BY <1>11 DEF DoList
  <2>2. CASE Has(todo, "library")
    BY <1>0, <2>1, <2>2, TailOrderly DEF SpanInv
  <2>3. CASE ~Has(todo, "library")
    <3>1. diskLib = Kept(saved) BY <2>3 DEF DurableInv
    <3>2. Drawn(diskLib, saved)
      BY <1>0, <3>1, KeptFacts DEF Drawn
    <3>4. marks = {} => Agreeing(live, diskLib) BY <1>0, <3>2, AgreeingParts
    <3> QED BY <1>0, <2>1, <3>4, TailOrderly DEF SpanInv
  <2> QED BY <2>2, <2>3
<1>12. CASE DoLibrary
  <2>1. /\ UNCHANGED <<live, saved, diskLive, marks>> /\ todo # <<>> /\ todo' = Tail(todo)
        /\ Head(todo) = "library" /\ diskLib' = saved
    BY <1>12 DEF DoLibrary
  <2>2. diskLive = live BY <1>0, <2>1, TailOrderly DEF SpanInv, DurableInv
  <2> QED BY <1>0, <2>1, <2>2, TailOrderly DEF SpanInv
<1>13. CASE Restart
  <2>1. /\ live' = diskLive /\ diskLive' = diskLive
        /\ saved' = Seeded(diskLib, diskLive) /\ diskLib' = Kept(saved')
        /\ todo' \in Batches /\ marks \subseteq marks'
        /\ todo # <<>> /\ Head(todo) = "library" => marks' # {}
    BY <1>13 DEF Restart, Batches
  <2>2. ASSUME marks' = {}
        PROVE  Agreeing(live', saved') /\ Agreeing(diskLive', diskLib')
    <3>1. Agreeing(diskLive, diskLib) BY <2>1, <2>2 DEF SpanInv
    <3>2. Agreeing(diskLive, saved') BY <1>0, <2>1, <3>1, AgreeingSeeded
    <3>3. saved' \in Seq(Entry) BY <1>0, <2>1, SeededFacts
    <3>4. Drawn(diskLib', saved') BY <2>1, <3>3, KeptFacts DEF Drawn
    <3>5. Drawn(diskLive, diskLive) BY DEF Drawn
    <3>6. Agreeing(diskLive, diskLib') BY <3>2, <3>4, <3>5, AgreeingParts
    <3> QED BY <2>1, <3>2, <3>6
  <2> QED BY <2>1, <2>2, BatchOrderly DEF SpanInv
<1>14. CASE UNCHANGED vars
  BY <1>14 DEF SpanInv
<1> QED
  BY <1>1, <1>2, <1>3, <1>4, <1>5, <1>6, <1>8, <1>9, <1>10, <1>11, <1>12, <1>13, <1>14
  DEF Next, Command, DoWrite

\* A frequency has one span: taking it out of Live and back, or restarting,
\* does not change it, unless a restart came between the two files.
THEOREM SpanStaysOne == Spec => []OneSpan
<1>1. Init => AllInv
  <2> SUFFICES ASSUME Init PROVE AllInv OBVIOUS
  <2>1. ListInv /\ TypeOK BY ListInit, TypeInit
  <2>2. DurableInv BY <2>1, KeptFacts DEF Init, DurableInv, TypeOK
  <2>3. SavedInv BY <2>1 DEF Init, SavedInv, LiveIsSaved, ListInv, Usable
  <2>4. Agreeing(live, live) BY <2>1 DEF ListInv, Usable, Distinct, Agreeing
  <2> QED BY <2>1, <2>2, <2>3, <2>4, BatchOrderly DEF Init, AllInv, SpanInv, Batches
<1>2. AllInv /\ [Next]_vars => AllInv'
  BY ListStep, TypeStep, DurableStep, SavedStep, SpanStep DEF AllInv
<1>3. AllInv => OneSpan BY DEF AllInv, SpanInv, Agreeing, OneSpan
<1> QED BY <1>1, <1>2, <1>3, PTL DEF Spec


-----------------------------------------------------------------------------
(* Toggling never moves the receiver *)

\* A toggle changes no saved entry and keeps lists mode; the selected frequency
\* stays selected if it stays in Live.
LEMMA ToggleStep ==
    ASSUME ListInv, TypeOK, [Next]_vars,
           saved' = saved, listsMode, listsMode', live' # live,
           live[selected].f \in FreqsOf(live')
    PROVE  live'[selected'].f = live[selected].f
<1> USE LiveDomain DEF vars, lists, view, disk, Unsaved, Refused
<1>0. /\ live \in Seq(Entry) /\ saved \in Seq(Entry) /\ selected \in 1 .. Len(live)
      /\ IsSeq(live) /\ IsSeq(saved) /\ Distinct(live) /\ Len(saved) \in Nat
  BY SeqRange DEF TypeOK, ListInv, Usable
<1>2. ASSUME NEW s \in Spans, SetSpan(s) PROVE live'[selected'].f = live[selected].f
  BY <1>0, <1>2 DEF SetSpan, WithSpan
<1>4. ASSUME NEW r \in 1 .. Page, ToggleOff(r) PROVE live'[selected'].f = live[selected].f
  <2> DEFINE i == IndexOf(live, At(r).f)
  <2>1. i \in 1 .. Len(live) BY <1>0, <1>4, IndexFacts DEF ToggleOff
  <2>2. live' = Without(live, i) /\ selected' = SelectedWithout(i)
    BY <1>4 DEF ToggleOff
  <2> HIDE DEF i
  <2>3. FreqsOf(live') = FreqsOf(live) \ {live[i].f} BY <1>0, <2>1, <2>2, WithoutSets
  <2>4. i # selected BY <2>3
  <2>5. SelectedWithout(i) = IF i < selected THEN selected - 1 ELSE selected
    <3>1. CASE i < selected BY <3>1 DEF SelectedWithout
    <3>2. CASE selected < i
      <4>1. selected <= Len(live) - 1 /\ ~(i < selected) BY <1>0, <2>1, <3>2
      <4> QED BY <4>1 DEF SelectedWithout, Least
    <3> QED BY <1>0, <2>1, <2>4, <3>1, <3>2
  <2>6. \A j \in 1 .. Len(live) - 1 :
            Without(live, i)[j] = IF j < i THEN live[j] ELSE live[j + 1]
    BY <1>0, <2>1, WithoutFacts
  <2>7. Without(live, i)[SelectedWithout(i)] = live[selected]
    BY <1>0, <2>1, <2>4, <2>5, <2>6
  <2> QED BY <2>2, <2>7
<1>5. ASSUME NEW r \in 1 .. Page, ToggleOn(r) PROVE live'[selected'].f = live[selected].f
  <2>1. live' = Append(live, At(r)) /\ selected' = selected BY <1>5 DEF ToggleOn
  <2>2. At(r).f \notin FreqsOf(live) BY <1>5 DEF ToggleOn
  <2> QED BY <1>0, <2>1, <2>2, AppendFacts
<1>6. ASSUME NEW r \in 1 .. Page, Delete(r) PROVE FALSE
  <2>1. page + r \in 1 .. Len(saved) BY <1>6, RowFacts DEF Delete
  <2>2. saved' = Without(saved, page + r) BY <1>6 DEF Delete
  <2>3. Len(saved') = Len(saved) - 1 BY <1>0, <2>1, <2>2, WithoutFacts
  <2> QED BY <1>0, <2>3
<1>7. ASSUME NEW r \in 1 .. Page, Tune(r) PROVE FALSE
  BY <1>7 DEF Tune
<1>8. ASSUME NEW f \in Freqs, AddLive(f) \/ AddSaved(f) PROVE FALSE
  BY <1>8 DEF AddLive, AddSaved
<1>9. CASE Refresh \/ ShowLists \/ ShowLive \/ TurnPage \/ UNCHANGED vars \/ Restart
            \/ \E i \in 1 .. LiveMax : Select(i)
  BY <1>9 DEF Refresh, ShowLists, ShowLive, TurnPage, Restart, Select
<1>10. CASE DoWrite
  BY <1>10 DEF DoWrite, DoList, DoLibrary, DoTune, DoBuild, DoPublish, DoSel
<1> QED
  BY <1>2, <1>4, <1>5, <1>6, <1>7, <1>8, <1>9, <1>10
  DEF Next, Command

\* Toggling another frequency in or out of Live never moves the receiver
\* (library_toggle): what is selected stays selected while it is in Live.
THEOREM ToggleStays == Spec => ToggleKeepsSelection
<1>1. ListInv /\ TypeOK /\ [Next]_vars =>
         [(saved' = saved /\ listsMode /\ listsMode' /\ live' # live)
            => LET f == live[selected].f
               IN  f \in FreqsOf(live') => live'[selected'].f = f]_vars
  BY ToggleStep
<1>2. Init /\ [][Next]_vars => []ListInv BY ListInit, ListStep, PTL
<1>3. Spec => []TypeOK BY TypeCorrect
<1> QED BY <1>1, <1>2, <1>3, PTL DEF Spec, ToggleKeepsSelection

=============================================================================
