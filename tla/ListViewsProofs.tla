-------------------------- MODULE ListViewsProofs --------------------------
(***************************************************************************)
(* Proofs about ListViews, for lists, pages, presses and restarts of any   *)
(* number: that a command acts on the frequency its row showed, and that   *)
(* the Display and the service end on the same page.                       *)
(*                                                                         *)
(* Safety, below, is one invariant of seven parts.  MailInv says what the  *)
(* mailbox holds between and during publications, PollInv what a poll has  *)
(* of it, PageInv that a page read whole is the service's, PressInv that a *)
(* command on its way names a row of that page, ModeInv which page of the  *)
(* Display goes with which list.                                           *)
(***************************************************************************)
EXTENDS ListViews, Integers, SequenceTheorems, OperatorLemmas, TLAPS

Distinct(s) == \A i, j \in DOMAIN s : s[i] = s[j] => i = j

-----------------------------------------------------------------------------
(* The operations on the lists *)

\* Taking entry i out keeps the others, in order.
LEMMA WithoutFacts ==
    ASSUME NEW S, NEW s \in Seq(S), NEW i \in 1 .. Len(s)
    PROVE  /\ Without(s, i) \in Seq(S)
           /\ Len(Without(s, i)) = Len(s) - 1
           /\ \A j \in 1 .. Len(s) - 1 :
                  Without(s, i)[j] = IF j < i THEN s[j] ELSE s[j + 1]
<1> DEFINE a == SubSeq(s, 1, i - 1)
           b == SubSeq(s, i + 1, Len(s))
<1>1. Len(s) \in Nat /\ \A j \in 1 .. Len(s) : s[j] \in S
  OBVIOUS
<1>2. a \in Seq(S) /\ Len(a) = i - 1 /\ \A j \in 1 .. i - 1 : a[j] = s[1 + j - 1]
  BY <1>1, SubSeqProperties
<1>3. /\ b \in Seq(S) /\ Len(b) = Len(s) - i
      /\ \A j \in 1 .. Len(s) - i : b[j] = s[i + 1 + j - 1]
  BY <1>1, SubSeqProperties
<1>4. Without(s, i) = a \o b
  BY DEF Without
<1> HIDE DEF a, b
<1>5. /\ a \o b \in Seq(S) /\ Len(a \o b) = Len(s) - 1
      /\ \A j \in 1 .. Len(s) - 1 : (a \o b)[j] = IF j <= i - 1 THEN a[j] ELSE b[j - (i - 1)]
  <2>1. /\ a \o b \in Seq(S)
        /\ Len(a \o b) = Len(a) + Len(b)
        /\ \A j \in 1 .. Len(a) + Len(b) :
               (a \o b)[j] = IF j <= Len(a) THEN a[j] ELSE b[j - Len(a)]
    BY ONLY <1>2, <1>3, ConcatProperties
  <2>2. Len(a) + Len(b) = Len(s) - 1 /\ Len(a) = i - 1
    BY <1>1, <1>2, <1>3
  <2> QED BY ONLY <2>1, <2>2
<1>6. ASSUME NEW j \in 1 .. Len(s) - 1
      PROVE  (a \o b)[j] = IF j < i THEN s[j] ELSE s[j + 1]
  <2>1. CASE j < i
    <3>1. j \in 1 .. i - 1 /\ j <= i - 1 /\ 1 + j - 1 = j BY <1>1, <2>1
    <3> QED BY <1>2, <1>5, <2>1, <3>1
  <2>2. CASE ~(j < i)
    <3>1. j - (i - 1) \in 1 .. Len(s) - i /\ ~(j <= i - 1) /\ i + 1 + (j - (i - 1)) - 1 = j + 1
      BY <1>1, <2>2
    <3> QED BY <1>3, <1>5, <2>2, <3>1
  <2> QED BY <2>1, <2>2
<1> QED BY <1>4, <1>5, <1>6

\* What a list holds once entry i is out, and that nothing is in it twice.
LEMMA WithoutHeld ==
    ASSUME NEW S, NEW s \in Seq(S), NEW i \in 1 .. Len(s)
    PROVE  /\ \A f \in Held(s) : f # s[i] => f \in Held(Without(s, i))
           /\ Held(Without(s, i)) \subseteq Held(s)
           /\ Distinct(s) => Distinct(Without(s, i)) /\ s[i] \notin Held(Without(s, i))
<1> DEFINE t == Without(s, i)
           from(j) == IF j < i THEN j ELSE j + 1
<1>1. Len(s) \in Nat /\ DOMAIN s = 1 .. Len(s) /\ DOMAIN t = 1 .. Len(s) - 1
  BY WithoutFacts
<1>2. \A j \in DOMAIN t : from(j) \in DOMAIN s /\ from(j) # i /\ t[j] = s[from(j)]
  <2>1. \A j \in 1 .. Len(s) - 1 : t[j] = IF j < i THEN s[j] ELSE s[j + 1]
    BY WithoutFacts
  <2> HIDE DEF t
  <2> QED BY <1>1, <2>1
<1>3. \A j, k \in DOMAIN t : from(j) = from(k) => j = k
  BY <1>1
<1>4. ASSUME NEW k \in DOMAIN s, k # i PROVE \E j \in DOMAIN t : from(j) = k
  <2>1. CASE k < i
    <3>1. k \in DOMAIN t /\ from(k) = k BY <1>1, <2>1
    <3> QED BY <3>1
  <2>2. CASE k > i
    <3>1. k - 1 \in DOMAIN t /\ from(k - 1) = k BY <1>1, <2>2
    <3> QED BY <3>1
  <2> QED BY <1>1, <1>4, <2>1, <2>2
<1> HIDE DEF t, from
<1>5. \A f \in Held(s) : f # s[i] => f \in Held(t)
  <2> SUFFICES ASSUME NEW k \in DOMAIN s, s[k] # s[i] PROVE s[k] \in Held(t)
    BY DEF Held
  <2>1. PICK j \in DOMAIN t : from(j) = k BY <1>4
  <2> QED BY <1>2, <2>1 DEF Held
<1>6. Held(t) \subseteq Held(s)
  BY <1>2 DEF Held
<1>7. ASSUME Distinct(s) PROVE Distinct(t) /\ s[i] \notin Held(t)
  <2>1. Distinct(t)
    <3> SUFFICES ASSUME NEW j \in DOMAIN t, NEW k \in DOMAIN t, t[j] = t[k] PROVE j = k
      BY DEF Distinct
    <3>1. from(j) = from(k) BY <1>2, <1>7 DEF Distinct
    <3> QED BY <1>3, <3>1
  <2>2. s[i] \notin Held(t)
    <3> SUFFICES ASSUME NEW j \in DOMAIN t, t[j] = s[i] PROVE FALSE BY DEF Held
    <3>1. i \in DOMAIN s BY <1>1
    <3> QED BY <1>2, <1>7, <3>1 DEF Distinct
  <2> QED BY <2>1, <2>2
<1> QED BY <1>5, <1>6, <1>7 DEF t

\* A new entry at the end.
LEMMA AppendFacts ==
    ASSUME NEW S, NEW s \in Seq(S), NEW e \in S
    PROVE  /\ Append(s, e) \in Seq(S) /\ Len(Append(s, e)) = Len(s) + 1
           /\ \A j \in 1 .. Len(s) : Append(s, e)[j] = s[j]
           /\ Append(s, e)[Len(s) + 1] = e
           /\ Held(Append(s, e)) = Held(s) \cup {e}
           /\ Distinct(s) /\ e \notin Held(s) => Distinct(Append(s, e))
<1> DEFINE t == Append(s, e)
<1>1. /\ t \in Seq(S) /\ Len(t) = Len(s) + 1 /\ t[Len(s) + 1] = e
      /\ \A j \in 1 .. Len(s) : t[j] = s[j]
  BY AppendProperties
<1>2. Len(s) \in Nat /\ DOMAIN s = 1 .. Len(s) /\ DOMAIN t = 1 .. Len(s) + 1
  BY <1>1
<1> HIDE DEF t
<1>3. /\ \A j \in DOMAIN t : j = Len(s) + 1 \/ j \in DOMAIN s
      /\ \A j \in DOMAIN s : j \in DOMAIN t /\ t[j] = s[j]
      /\ Len(s) + 1 \in DOMAIN t
  BY <1>1, <1>2
<1>4. Held(t) = Held(s) \cup {e}
  BY <1>1, <1>3 DEF Held
<1>5. Distinct(s) /\ e \notin Held(s) => Distinct(t)
  BY <1>1, <1>3 DEF Distinct, Held
<1> QED BY <1>1, <1>4, <1>5 DEF t

\* A new entry after position i.
LEMMA InsertFacts ==
    ASSUME NEW S, NEW s \in Seq(S), NEW e \in S, NEW i \in 1 .. Len(s)
    PROVE  /\ InsertAfter(s, i, e) \in Seq(S) /\ Len(InsertAfter(s, i, e)) = Len(s) + 1
           /\ Distinct(s) /\ e \notin Held(s) => Distinct(InsertAfter(s, i, e))
<1> DEFINE t == InsertAfter(s, i, e)
           a == SubSeq(s, 1, i)
           b == SubSeq(s, i + 1, Len(s))
           ae == a \o <<e>>
<1>1. Len(s) \in Nat /\ DOMAIN s = 1 .. Len(s)
  OBVIOUS
<1>2. a \in Seq(S) /\ Len(a) = i /\ \A j \in 1 .. i : a[j] = s[1 + j - 1]
  BY <1>1, SubSeqProperties
<1>3. /\ b \in Seq(S) /\ Len(b) = Len(s) - i
      /\ \A j \in 1 .. Len(s) - i : b[j] = s[i + 1 + j - 1]
  BY <1>1, SubSeqProperties
<1>4. <<e>> \in Seq(S) /\ Len(<<e>>) = 1 /\ <<e>>[1] = e
  OBVIOUS
<1>5. t = ae \o b
  BY DEF InsertAfter
<1> HIDE DEF a, b, t
<1>6. /\ ae \in Seq(S) /\ Len(ae) = i + 1
      /\ \A j \in 1 .. i + 1 : ae[j] = IF j <= i THEN a[j] ELSE <<e>>[j - i]
  BY <1>2, <1>4, ConcatProperties
<1> HIDE DEF ae
<1>7. /\ ae \o b \in Seq(S) /\ Len(ae \o b) = Len(s) + 1
      /\ \A j \in 1 .. Len(s) + 1 : (ae \o b)[j] = IF j <= i + 1 THEN ae[j] ELSE b[j - (i + 1)]
  <2>1. /\ ae \o b \in Seq(S)
        /\ Len(ae \o b) = Len(ae) + Len(b)
        /\ \A j \in 1 .. Len(ae) + Len(b) :
               (ae \o b)[j] = IF j <= Len(ae) THEN ae[j] ELSE b[j - Len(ae)]
    BY ONLY <1>3, <1>6, ConcatProperties
  <2>2. Len(ae) + Len(b) = Len(s) + 1 /\ Len(ae) = i + 1 BY <1>1, <1>3, <1>6
  <2> QED BY ONLY <2>1, <2>2
<1>8. ASSUME NEW j \in 1 .. Len(s) + 1
      PROVE  t[j] = IF j <= i THEN s[j] ELSE IF j = i + 1 THEN e ELSE s[j - 1]
  <2>1. CASE j <= i
    <3>1. j \in 1 .. i /\ j \in 1 .. i + 1 /\ j <= i + 1 /\ 1 + j - 1 = j BY <1>1, <2>1
    <3> QED BY <1>2, <1>5, <1>6, <1>7, <2>1, <3>1
  <2>2. CASE j = i + 1
    <3>1. j \in 1 .. i + 1 /\ j <= i + 1 /\ ~(j <= i) /\ j - i = 1 BY <1>1, <2>2
    <3> QED BY <1>4, <1>5, <1>6, <1>7, <2>2, <3>1
  <2>3. CASE j > i + 1
    <3>1. /\ j - (i + 1) \in 1 .. Len(s) - i /\ ~(j <= i + 1) /\ ~(j <= i) /\ j # i + 1
          /\ i + 1 + (j - (i + 1)) - 1 = j - 1
      BY <1>1, <2>3
    <3> QED BY <1>3, <1>5, <1>7, <3>1
  <2> QED BY <1>1, <2>1, <2>2, <2>3
<1>9. ASSUME Distinct(s), e \notin Held(s) PROVE Distinct(t)
  <2>1. DOMAIN t = 1 .. Len(s) + 1 BY <1>1, <1>5, <1>7, LenProperties
  <2> SUFFICES ASSUME NEW j \in 1 .. Len(s) + 1, NEW k \in 1 .. Len(s) + 1, t[j] = t[k]
               PROVE  j = k
    BY <2>1 DEF Distinct
  <2> DEFINE from(n) == IF n <= i THEN n ELSE n - 1
  <2>2. ASSUME NEW n \in 1 .. Len(s) + 1, n # i + 1
        PROVE  from(n) \in DOMAIN s /\ t[n] = s[from(n)]
    BY <1>1, <1>8, <2>2
  <2>3. t[i + 1] = e BY <1>1, <1>8
  <2>4. j = i + 1 <=> k = i + 1 BY <1>9, <2>2, <2>3 DEF Held
  <2>5. j # i + 1 => from(j) = from(k) BY <1>9, <2>2, <2>4 DEF Distinct
  <2> QED BY <1>1, <2>4, <2>5
<1> QED BY <1>5, <1>7, <1>9 DEF t

\* The position of a frequency the list holds.
LEMMA PositionFacts ==
    ASSUME NEW S, NEW s \in Seq(S), NEW f \in Held(s)
    PROVE  Position(s, f) \in 1 .. Len(s) /\ s[Position(s, f)] = f
<1>1. \E i \in DOMAIN s : s[i] = f BY DEF Held
<1> QED BY <1>1 DEF Position

\* A list completed from another holds what either does.
LEMMA CompletedFacts ==
    ASSUME NEW S, NEW s \in Seq(S), NEW t \in Seq(S)
    PROVE  LET u == s \o Picked(t, {i \in DOMAIN t : t[i] \notin Held(s)})
           IN  u \in Seq(S) /\ Len(u) >= Len(s)
<1> DEFINE I == {i \in DOMAIN t : t[i] \notin Held(s)}
<1>1. Picked(t, I) \in Seq(S) BY PickedFacts
<1> HIDE DEF I
<1>2. s \o Picked(t, I) \in Seq(S) /\ Len(s \o Picked(t, I)) = Len(s) + Len(Picked(t, I))
  BY <1>1, ConcatProperties
<1>3. Len(s) \in Nat /\ Len(Picked(t, I)) \in Nat BY <1>1
<1> QED BY <1>2, <1>3 DEF I

\* The first index of the page of a position is an index before it.
LEMMA PageOfFacts ==
    /\ PageOf(0) = 0
    /\ \A i \in Nat : i >= 1 => PageOf(i) \in Nat /\ PageOf(i) < i
<1> SUFFICES ASSUME NEW i \in Nat, i >= 1 PROVE PageOf(i) \in Nat /\ PageOf(i) < i
  BY DEF PageOf
<1> DEFINE a == i - 1
<1>1. a \in Nat /\ Rows \in Nat \ {0} BY ViewsAssumption
<1>2. PageOf(i) = (a \div Rows) * Rows BY DEF PageOf
<1> HIDE DEF a
<1>3. a \div Rows \in Nat BY <1>1
<1>4. a = (a \div Rows) * Rows + (a % Rows) /\ a % Rows \in Nat BY <1>1
<1>5. \A q \in Nat : q * Rows \in Nat BY <1>1
<1>6. (a \div Rows) * Rows \in Nat BY <1>3, <1>5
<1>7. \A p \in Nat, r \in Nat : a = p + r => p <= a BY <1>1
<1>8. (a \div Rows) * Rows <= a BY <1>4, <1>6, <1>7
<1> QED BY <1>1, <1>2, <1>6, <1>8 DEF a

-----------------------------------------------------------------------------
(* The invariant *)

Events == {"replaced", "unread", "restarted", "passed over", "unstated", "blind"}

Types ==
    /\ mode \in Modes /\ dPc \in {"keys", "head", "freqs", "words"}
    /\ dSeq \in Nat /\ cursor \in Row
    /\ dRead \in [seq : Nat, state : {"live", "lists", "value"}, count : Row, whole : BOOLEAN]
    /\ shown \in [freqs : [Row -> Freqs \cup {NoFreq}], count : Row, inLive : SUBSET Row,
                  offset : Nat, total : Nat, whole : BOOLEAN]
    /\ wr \in [state : {"live", "lists", "value"}, packed : BOOLEAN, count : Row,
               freqs : Seq(Freqs), kHz : BOOLEAN, lseq : Nat,
               words : [inLive : SUBSET Row, offset : Nat, total : Nat]]
    /\ wrCmd \in Command /\ taken \in Command
    /\ cPc \in {"down", "idle", "handle", "head", "freqs", "seq"} /\ cSeq \in Nat
    /\ listsMode \in BOOLEAN /\ pageStart \in Nat
    /\ saved \in Seq(Freqs) /\ live \in Seq(Freqs) /\ selected \in 1 .. Len(live)
    /\ events \subseteq Events /\ sends \in Nat /\ crashes \in Nat

\* Only what a press and a poll do without harm has happened.
Mild == events \subseteq {"replaced", "blind"}
Fine == "blind" \notin events \/ Mild

WellFormed(c) == (c.op = "none" => c = NoCommand) /\ (c.op = "add" => c.f \in Freqs)

\* The lists are usable, and while nothing else happened Live is in the library.
ListsInv ==
    /\ Len(live) \in Row /\ Distinct(live)
    /\ pageStart = 0 \/ pageStart < Len(saved)
    /\ cPc \in {"head", "freqs", "seq"} /\ listsMode => saved # <<>>
    /\ cPc = "down" => ~listsMode
    /\ cPc = "handle" <=> taken.op # "none"
    /\ WellFormed(wrCmd) /\ WellFormed(taken)
    /\ Mild => Held(live) \subseteq Held(saved)

Still == cPc \in {"idle", "handle"}
Caught == dPc = "keys" /\ dSeq = wr.lseq

\* Between publications the mailbox has the page the service is on.
MailInv ==
    /\ wr.state = "lists" => ~wr.packed
    /\ Still /\ ~listsMode => wr.packed /\ ~wr.kHz
    /\ Still /\ listsMode /\ saved # <<>> =>
          /\ ~wr.packed /\ wr.kHz
          /\ wr.count = Len(Page) /\ wr.freqs = Page /\ wr.words = PageWords
    /\ Fine /\ listsMode /\ saved = <<>> => wr.packed \/ Caught
    /\ cPc \in {"freqs", "seq"} =>
          /\ wr.packed = ~listsMode /\ wr.count = Len(Published)
          /\ listsMode => wr.words = PageWords
    /\ cPc = "seq" => wr.freqs = Published /\ wr.kHz = listsMode

\* What a whole poll has read is what the mailbox still has.
PollInv ==
    /\ dPc # "keys" /\ dRead.whole => cPc \notin {"freqs", "seq"} /\ wr.lseq = dRead.seq
    /\ dPc \in {"freqs", "words"} /\ dRead.whole /\ dRead.state = "lists" =>
          ~wr.packed /\ dRead.count = wr.count
    /\ dPc = "words" => dRead.state = "lists" /\ dSeq = dRead.seq
    /\ dPc \in {"head", "freqs"} => dSeq # dRead.seq
    /\ dPc = "words" /\ shown.whole /\ dRead.whole =>
          /\ shown.count = wr.count
          /\ \A r \in Row : r <= shown.count /\ r <= Len(wr.freqs) =>
                shown.freqs[r] = IF wr.kHz THEN wr.freqs[r] ELSE NoFreq
    /\ mode = "confirm" => cursor <= shown.count

Ground(op) == op \in {"none", "back"}

ShownPage ==
    /\ shown.count = Len(Page) /\ \A r \in 1 .. shown.count : shown.freqs[r] = Page[r]
    /\ shown.inLive = PageWords.inLive /\ shown.offset = pageStart /\ shown.total = Len(saved)

\* The service is on the page the Display shows, or off the lists page with
\* nothing on its way that would bring it there.
Together == /\ listsMode /\ Caught /\ Still /\ ShownPage
            /\ Ground(wrCmd.op) /\ Ground(taken.op)
Apart == ~listsMode /\ Ground(wrCmd.op) /\ Ground(taken.op)

PageInv ==
    Fine /\ mode \in LibraryPages /\ shown.whole /\ dPc # "words" => Together \/ Apart

Matches(c) ==
    /\ pageStart + c.row <= Len(saved)
    /\ saved[pageStart + c.row] = c.f
    /\ c.op = "toggle" => c.inLive = (c.f \in Held(live))

\* A command on its way names what it was pressed on.
PressInv ==
    "blind" \notin events =>
    /\ wrCmd.op \in PageOps =>
          Ground(taken.op) /\ (listsMode => Still /\ Caught /\ Matches(wrCmd))
    /\ taken.op \in PageOps => (listsMode => Caught /\ Matches(taken))

\* The page of the Display follows the list it has read last.
ModeInv ==
    Mild =>
    /\ cPc # "down" /\ cSeq = wr.lseq /\ dSeq <= cSeq /\ (dPc # "keys" => dRead.seq <= cSeq)
    /\ dPc \in {"head", "freqs"} => dSeq < dRead.seq
    /\ wr.lseq # dSeq \/ cPc \in {"freqs", "seq"} => (wr.state = "lists" <=> ~wr.packed)
    /\ dPc \in {"freqs", "words"} /\ dRead.seq = wr.lseq /\ cPc \notin {"freqs", "seq"} =>
          (dRead.state = "lists" <=> ~wr.packed)
    /\ Caught /\ cPc \notin {"freqs", "seq"} =>
          /\ wr.packed => mode \notin LibraryPages
          /\ ~wr.packed => mode \notin {"live", "page"}
    /\ wrCmd.op = "add" /\ wr.state = "value" => cPc \notin {"freqs", "seq"} /\ ~wr.packed
    /\ taken.op = "add" => listsMode

-----------------------------------------------------------------------------
(* What a key does *)

\* A key that only turns a page of the Display.
QuietKey ==
    /\ UNCHANGED <<wr, wrCmd, events, sends>>
    /\ mode \in LibraryPages <=> mode' \in LibraryPages
    /\ mode \in {"live", "page"} <=> mode' \in {"live", "page"}
    /\ mode' # "loading"

\* A key that sends a command.
SendingKey ==
    /\ wrCmd' \in Command /\ wrCmd'.op # "none" /\ sends' \in Nat
    /\ events \subseteq events' /\ events' \subseteq Events
    /\ mode' \notin LibraryPages /\ (mode' \in {"live", "page"} => mode' = mode)
    /\ mode \in LibraryPages /\ ~shown.whole => "blind" \in events'
    /\ wrCmd'.op \in PageOps =>
          mode \in LibraryPages /\ \E r \in 1 .. shown.count : wrCmd' = OnRow(wrCmd'.op, r)
    /\ wrCmd'.op = "add" => mode = "add" /\ wrCmd'.f \in Freqs
    /\ wr' # wr \/ wrCmd'.op = "add" =>
          "unstated" \in events' \/ (cPc \notin {"freqs", "seq"} /\ wr.lseq = dSeq)

\* The command of a row of the page.
LEMMA OnRowType ==
    ASSUME Types, NEW op \in Ops, NEW r \in 1 .. shown.count
    PROVE  OnRow(op, r) \in Command /\ OnRow(op, r).op = op
<1>1. shown.count \in Row /\ shown.freqs \in [Row -> Freqs \cup {NoFreq}] /\ shown.inLive \in SUBSET Row
  BY DEF Types
<1>2. r \in Row BY <1>1, ViewsAssumption DEF Row
<1>3. shown.freqs[r] \in Freqs \cup {NoFreq} BY <1>1, <1>2
<1>4. (r \in shown.inLive) \in BOOLEAN OBVIOUS
<1> QED BY <1>2, <1>3, <1>4 DEF OnRow, Command

\* The command of a key that names no row.
LEMMA PlainType ==
    ASSUME NEW op \in Ops
    PROVE  /\ Plain(op) \in Command /\ Plain(op).op = op
           /\ \A f \in Freqs : [Plain(op) EXCEPT !.f = f] \in Command
                               /\ [Plain(op) EXCEPT !.f = f].op = op
                               /\ [Plain(op) EXCEPT !.f = f].f = f
<1>1. 1 \in Row BY ViewsAssumption DEF Row
<1>2. NoCommand \in [op : {"none"}, row : Row, f : {NoFreq}, inLive : BOOLEAN]
  BY <1>1 DEF NoCommand
<1> DEFINE p == [NoCommand EXCEPT !.op = op]
<1>3. p \in [op : Ops, row : Row, f : {NoFreq}, inLive : BOOLEAN] /\ p.op = op
  BY <1>2
<1>4. Plain(op) = p BY DEF Plain
<1> HIDE DEF p
<1>5. p \in Command BY <1>3 DEF Command
<1>6. ASSUME NEW f \in Freqs
      PROVE  [p EXCEPT !.f = f] \in Command /\ [p EXCEPT !.f = f].op = op /\ [p EXCEPT !.f = f].f = f
  BY <1>3, <1>5 DEF Command
<1> QED BY <1>3, <1>4, <1>5, <1>6

\* Every key is of one of the two kinds.
LEMMA UserFacts ==
    ASSUME Types, ListsInv, PollInv, User
    PROVE  /\ dPc = "keys" /\ UNCHANGED <<dSeq, dPc, dRead, shown, service, crashes>>
           /\ wr' = wr \/ wr' = [wr EXCEPT !.state = "value"]
           /\ mode' \in Modes /\ cursor' \in Row
           /\ mode' = "confirm" => cursor' <= shown.count
           /\ QuietKey \/ SendingKey
<1>0. /\ shown.count \in Row /\ 1 \in Row /\ mode \in Modes /\ cursor \in Row
      /\ \A r \in 1 .. shown.count : r \in Row /\ r <= shown.count
      /\ events \subseteq Events /\ sends \in Nat
  BY ViewsAssumption DEF Types, Row
<1> DEFINE Sent(c, harm) ==
               /\ wrCmd' = c /\ sends' = sends + 1
               /\ events' = events \cup harm
                            \cup (IF wrCmd = NoCommand THEN {} ELSE {"replaced"})
                            \cup (IF mode \in LibraryPages /\ ~shown.whole THEN {"blind"} ELSE {})
               /\ UNCHANGED <<service, crashes>>
<1>1. ASSUME NEW c \in Command, c.op \in Ops, NEW harm \in SUBSET {"unstated"},
             Sent(c, harm), mode' \notin LibraryPages,
             mode' \in {"live", "page"} => mode' = mode,
             c.op \in PageOps => mode \in LibraryPages /\ \E r \in 1 .. shown.count : c = OnRow(c.op, r),
             c.op = "add" => mode = "add" /\ c.f \in Freqs,
             wr' # wr \/ c.op = "add" => "unstated" \in harm \/ (cPc \notin {"freqs", "seq"} /\ wr.lseq = dSeq)
      PROVE  SendingKey
  <2>1. events \subseteq events' /\ events' \subseteq Events /\ harm \subseteq events'
    BY <1>0, <1>1 DEF Events
  <2>2. mode \in LibraryPages /\ ~shown.whole => "blind" \in events' BY <1>1
  <2>3. wrCmd'.op # "none" BY <1>1 DEF Ops, PageOps
  <2>4. sends' \in Nat BY <1>0, <1>1
  <2> QED BY <1>1, <2>1, <2>2, <2>3, <2>4 DEF SendingKey
<1>2. ASSUME NEW c, Send(c) PROVE Sent(c, {})
  BY <1>2 DEF Send, SendWith
<1>3. ASSUME NEW c, SendValue(c)
      PROVE  /\ wr' = [wr EXCEPT !.state = "value"]
             /\ \E harm \in SUBSET {"unstated"} :
                   Sent(c, harm) /\ ("unstated" \in harm \/ (cPc \notin {"freqs", "seq"} /\ wr.lseq = dSeq))
  <2> DEFINE h == IF cPc \in {"freqs", "seq"} \/ wr.lseq # dSeq THEN {"unstated"} ELSE {}
  <2>1. Sent(c, h) BY <1>3 DEF SendValue, SendWith
  <2>2. h \in SUBSET {"unstated"} /\ ("unstated" \in h \/ (cPc \notin {"freqs", "seq"} /\ wr.lseq = dSeq))
    OBVIOUS
  <2> QED BY <1>3, <2>1, <2>2 DEF SendValue
<1> HIDE DEF Sent
<1>4. ASSUME NEW op \in Ops \ {"add"}, op \notin PageOps, Send(Plain(op)), wr' = wr, mode' \notin LibraryPages,
             mode' \in {"live", "page"} => mode' = mode
      PROVE  SendingKey
  BY <1>1, <1>2, <1>4, PlainType
<1>5. ASSUME NEW op \in Ops \ {"add"}, NEW r \in 1 .. shown.count, Send(OnRow(op, r)), wr' = wr,
             mode' \notin LibraryPages, mode' \in {"live", "page"} => mode' = mode,
             op \in PageOps => mode \in LibraryPages
      PROVE  SendingKey
  <2>1. OnRow(op, r) \in Command /\ OnRow(op, r).op = op BY OnRowType
  <2>2. Sent(OnRow(op, r), {}) BY <1>2, <1>5
  <2> QED BY <1>1, <1>5, <2>1, <2>2
<1> USE DEF LibraryPages, Modes, Ops, PageOps
<1>6. UNCHANGED <<service, crashes>>
  BY DEF User, OpenLists, LiveKeys, OpenPage, ClosePage, PageKeys, ListsKeys, AskDelete, ConfirmDelete,
         CancelDelete, BeginAdd, CancelAdd, CommitAdd, BackWhileLoading, Send, SendValue, SendWith, Quietly
<1>7. dPc = "keys" /\ UNCHANGED <<dSeq, dPc, dRead, shown>>
  BY DEF User, OpenLists, LiveKeys, OpenPage, ClosePage, PageKeys, ListsKeys, AskDelete, ConfirmDelete,
         CancelDelete, BeginAdd, CancelAdd, CommitAdd, BackWhileLoading, Keys, Show, display
<1> DEFINE Goal == /\ wr' = wr \/ wr' = [wr EXCEPT !.state = "value"]
                   /\ mode' \in Modes /\ cursor' \in Row
                   /\ mode' = "confirm" => cursor' <= shown.count
                   /\ QuietKey \/ SendingKey
<1>8. CASE OpenLists
  <2>1. Send(Plain("lists")) /\ wr' = wr /\ mode' = "loading" /\ cursor' = cursor BY <1>8 DEF OpenLists, Show
  <2>2. SendingKey BY <1>4, <2>1
  <2> QED BY <1>0, <1>6, <1>7, <2>1, <2>2
<1>9. CASE LiveKeys
  <2>1. wr' = wr /\ mode = "live" /\ mode' = mode /\ cursor' = cursor BY <1>9 DEF LiveKeys, display, Keys
  <2>2. SendingKey
    <3>1. (\E r \in 1 .. shown.count : Send(OnRow("select", r))) \/ Send(Plain("refresh")) BY <1>9 DEF LiveKeys
    <3>2. CASE \E r \in 1 .. shown.count : Send(OnRow("select", r))
      <4>1. PICK r \in 1 .. shown.count : Send(OnRow("select", r)) BY <3>2
      <4> QED BY <1>5, <2>1, <4>1
    <3>3. CASE Send(Plain("refresh")) BY <1>4, <2>1, <3>3
    <3> QED BY <3>1, <3>2, <3>3
  <2> QED BY <1>0, <1>6, <1>7, <2>1, <2>2
<1>10. CASE OpenPage \/ ClosePage
  <2>1. QuietKey /\ mode' \in {"live", "page"} /\ cursor' = cursor /\ wr' = wr
    BY <1>10 DEF OpenPage, ClosePage, QuietKey, Quietly, Show, Keys
  <2> QED BY <1>0, <1>6, <1>7, <2>1
<1>11. CASE PageKeys
  <2>1. mode = "page" /\ mode' = mode /\ cursor' = cursor BY <1>11 DEF PageKeys, Keys, display
  <2>2. Plain("quiet") \in Command /\ Plain("quiet").op = "quiet" BY PlainType
  <2>3. SendingKey /\ (wr' = wr \/ wr' = [wr EXCEPT !.state = "value"])
    <3>1. SendValue(Plain("quiet")) \/ (Send(Plain("quiet")) /\ wr' = wr) BY <1>11 DEF PageKeys
    <3>2. CASE Send(Plain("quiet")) /\ wr' = wr BY <1>4, <2>1, <3>2
    <3>3. CASE SendValue(Plain("quiet"))
      <4>1. PICK harm \in SUBSET {"unstated"} :
               Sent(Plain("quiet"), harm) /\ ("unstated" \in harm \/ (cPc \notin {"freqs", "seq"} /\ wr.lseq = dSeq))
        BY <1>3, <3>3
      <4>2. wr' = [wr EXCEPT !.state = "value"] BY <1>3, <3>3
      <4> QED BY <1>1, <2>1, <2>2, <4>1, <4>2
    <3> QED BY <3>1, <3>2, <3>3
  <2> QED BY <1>0, <1>6, <1>7, <2>1, <2>3
<1>12. CASE ListsKeys
  <2>1. wr' = wr /\ mode = "lists" /\ mode' = "loading" /\ cursor' = cursor BY <1>12 DEF ListsKeys, Keys, Show
  <2>2. SendingKey
    <3>1. \/ \E r \in 1 .. shown.count : Send(OnRow("toggle", r)) \/ Send(OnRow("tune", r))
          \/ Send(Plain("prev")) \/ Send(Plain("next")) \/ Send(Plain("back"))
      BY <1>12 DEF ListsKeys
    <3>2. CASE \E r \in 1 .. shown.count : Send(OnRow("toggle", r)) \/ Send(OnRow("tune", r))
      <4>1. PICK r \in 1 .. shown.count : Send(OnRow("toggle", r)) \/ Send(OnRow("tune", r)) BY <3>2
      <4> QED BY <1>5, <2>1, <4>1
    <3>3. CASE Send(Plain("prev")) \/ Send(Plain("next")) \/ Send(Plain("back")) BY <1>4, <2>1, <3>3
    <3> QED BY <3>1, <3>2, <3>3
  <2> QED BY <1>0, <1>6, <1>7, <2>1, <2>2
<1>13. CASE AskDelete
  <2>1. QuietKey /\ mode' = "confirm" /\ wr' = wr /\ \E r \in 1 .. shown.count : cursor' = r
    BY <1>13 DEF AskDelete, QuietKey, Quietly, Show, Keys
  <2> QED BY <1>0, <1>6, <1>7, <2>1
<1>14. CASE ConfirmDelete
  <2>1. /\ mode = "confirm" /\ mode' = "loading" /\ wr' = wr /\ cursor' = 1
        /\ Send(OnRow("delete", cursor))
    BY <1>14 DEF ConfirmDelete, Show, Keys
  <2>2. cursor \in 1 .. shown.count
    <3>1. cursor <= shown.count BY <2>1 DEF PollInv
    <3> QED BY <1>0, <3>1, ViewsAssumption DEF Row
  <2>3. SendingKey BY <1>5, <2>1, <2>2
  <2> QED BY <1>0, <1>6, <1>7, <2>1, <2>3
<1>15. CASE CancelDelete
  <2>1. QuietKey /\ mode' = "lists" /\ wr' = wr /\ cursor' = 1
    BY <1>15 DEF CancelDelete, QuietKey, Quietly, Show, Keys
  <2> QED BY <1>0, <1>6, <1>7, <2>1
<1>16. CASE BeginAdd \/ CancelAdd
  <2>1. QuietKey /\ mode' \in {"lists", "add"} /\ wr' = wr /\ cursor' = cursor
    BY <1>16 DEF BeginAdd, CancelAdd, QuietKey, Quietly, Show, Keys
  <2> QED BY <1>0, <1>6, <1>7, <2>1
<1>17. CASE CommitAdd
  <2>1. mode = "add" /\ mode' = "loading" /\ cursor' = cursor BY <1>17 DEF CommitAdd, Keys, Show
  <2>2. PICK f \in Freqs : SendValue([Plain("add") EXCEPT !.f = f]) BY <1>17 DEF CommitAdd
  <2> DEFINE c == [Plain("add") EXCEPT !.f = f]
  <2>3. c \in Command /\ c.op = "add" /\ c.f = f BY PlainType
  <2>4. wr' = [wr EXCEPT !.state = "value"] BY <1>3, <2>2
  <2>5. PICK harm \in SUBSET {"unstated"} :
           Sent(c, harm) /\ ("unstated" \in harm \/ (cPc \notin {"freqs", "seq"} /\ wr.lseq = dSeq))
    BY <1>3, <2>2
  <2> HIDE DEF c
  <2>6. SendingKey BY <1>1, <2>1, <2>3, <2>5
  <2> QED BY <1>0, <1>6, <1>7, <2>1, <2>4, <2>6
<1>18. CASE BackWhileLoading
  <2>1. wr' = wr /\ mode = "loading" /\ mode' = mode /\ cursor' = cursor /\ Send(Plain("back"))
    BY <1>18 DEF BackWhileLoading, Keys, display
  <2>2. SendingKey BY <1>4, <2>1
  <2> QED BY <1>0, <1>6, <1>7, <2>1, <2>2
<1> QED
  BY <1>8, <1>9, <1>10, <1>11, <1>12, <1>13, <1>14, <1>15, <1>16, <1>17, <1>18 DEF User

-----------------------------------------------------------------------------
(* What a command does *)

\* What handling a command leaves of the lists, and what it publishes.
Handled ==
    /\ live' \in Seq(Freqs) /\ Len(live') \in Row /\ Distinct(live')
    /\ selected' \in 1 .. Len(live')
    /\ saved' \in Seq(Freqs) /\ listsMode' \in BOOLEAN
    /\ pageStart' \in Nat /\ (pageStart' = 0 \/ pageStart' < Len(saved'))
    /\ cPc' \in {"idle", "head"}
    /\ cPc' = "head" /\ listsMode' => saved' # <<>>
    /\ cPc' = "idle" =>
          \/ listsMode' /\ saved' = <<>>
          \/ UNCHANGED <<listsMode, pageStart, saved, live>>
    /\ listsMode' => listsMode \/ taken.op \in {"lists", "gray"}
    /\ taken.op = "back" => ~listsMode'
    /\ saved' = <<>> => saved = <<>> \/ (listsMode /\ taken.op = "delete")
    /\ Held(live) \subseteq Held(saved) /\ (taken.op = "add" => listsMode) =>
          Held(live') \subseteq Held(saved')
    /\ wr' = wr \/ (wr' = [wr EXCEPT !.state = "live"] /\ ~listsMode /\ ~listsMode' /\ cPc' = "head")

\* The position a page's command names.
LEMMA IndexFacts ==
    ASSUME Types
    PROVE  /\ Index \in Nat /\ (Index # 0 => Index \in 1 .. Len(saved) /\ Entry \in Freqs)
           /\ Index = IF pageStart + taken.row <= Len(saved) THEN pageStart + taken.row ELSE 0
<1>1. pageStart \in Nat /\ taken.row \in Row /\ Len(saved) \in Nat /\ saved \in Seq(Freqs)
  BY DEF Types, Command
<1>2. taken.row \in Nat /\ taken.row >= 1 BY <1>1, ViewsAssumption DEF Row
<1>3. Index \in Nat /\ (Index # 0 => Index \in 1 .. Len(saved)) BY <1>1, <1>2 DEF Index
<1> QED BY <1>1, <1>3 DEF Entry, Index

\* Every handler empties the service's hands and leaves lists as Handled says.
LEMMA HandleFacts ==
    ASSUME Types, ListsInv, Handle
    PROVE  /\ cPc = "handle" /\ taken' = NoCommand
           /\ UNCHANGED <<display, wrCmd, cSeq, events, sends, crashes>>
           /\ Handled
<1>1. cPc = "handle" /\ taken' = NoCommand /\ UNCHANGED <<display, wrCmd, cSeq, events, sends, crashes>>
  BY DEF Handle, HandleLists, HandleBack, HandlePaging, HandleToggle, HandleDelete, HandleTune, AddToLibrary,
         AddToLive, HandleSelect, HandleRefresh, HandleNothing, Handling, Done
<1> SUFFICES Handled BY <1>1
<1>2. /\ live \in Seq(Freqs) /\ saved \in Seq(Freqs) /\ selected \in 1 .. Len(live)
      /\ pageStart \in Nat /\ (pageStart = 0 \/ pageStart < Len(saved)) /\ listsMode \in BOOLEAN
      /\ Len(live) \in Nat /\ Len(live) >= 1 /\ Len(live) <= Rows /\ Rows \in Nat /\ Rows >= 1
      /\ Len(saved) \in Nat /\ Distinct(live) /\ Row = 1 .. Rows
      /\ taken.row \in Nat /\ taken.row >= 1
  BY ViewsAssumption DEF Types, ListsInv, Row, Command
<1>3. ASSUME NEW s \in Seq(Freqs) PROVE s = <<>> <=> Len(s) = 0
  OBVIOUS
<1>4. saved = <<>> <=> Len(saved) = 0 BY <1>2, <1>3
\* Actions that leave both lists as they are.
<1>5. ASSUME UNCHANGED <<saved, live>>, selected' \in 1 .. Len(live), listsMode' \in BOOLEAN,
             pageStart' \in Nat, pageStart' = 0 \/ pageStart' < Len(saved),
             cPc' \in {"idle", "head"}, cPc' = "head" /\ listsMode' => saved # <<>>,
             cPc' = "idle" => (listsMode' /\ saved = <<>>) \/ UNCHANGED <<listsMode, pageStart>>,
             listsMode' => listsMode \/ taken.op \in {"lists", "gray"},
             taken.op = "back" => ~listsMode',
             wr' = wr \/ (wr' = [wr EXCEPT !.state = "live"] /\ ~listsMode /\ ~listsMode' /\ cPc' = "head")
      PROVE  Handled
  BY <1>2, <1>5 DEF Handled
\* A page of the library as it is.
<1>6. /\ \A i \in 1 .. Len(saved) : PageOf(i) \in Nat /\ PageOf(i) < Len(saved)
      /\ LastPage(saved) \in Nat /\ (LastPage(saved) = 0 \/ LastPage(saved) < Len(saved))
  <2>1. ASSUME NEW i \in 1 .. Len(saved) PROVE PageOf(i) \in Nat /\ PageOf(i) < Len(saved)
    <3>1. i \in Nat /\ i >= 1 BY <1>2
    <3>2. PageOf(i) \in Nat /\ PageOf(i) < i BY <3>1, PageOfFacts
    <3> QED BY <1>2, <3>2
  <2>2. LastPage(saved) = PageOf(Len(saved)) BY DEF LastPage
  <2>3. CASE Len(saved) = 0 BY <2>2, <2>3, PageOfFacts
  <2>4. CASE Len(saved) # 0
    <3>1. Len(saved) \in 1 .. Len(saved) BY <1>2, <2>4
    <3> QED BY <2>1, <2>2, <3>1
  <2> QED BY <2>1, <2>3, <2>4
<1>7. CASE HandleLists
  <2>1. /\ listsMode' = TRUE /\ UNCHANGED <<saved, live, selected, wr>> /\ taken.op \in {"lists", "gray"}
        /\ cPc' = IF saved = <<>> THEN "idle" ELSE "head"
    BY <1>7 DEF HandleLists, Handling, Publish
  <2>2. pageStart' \in Nat /\ (pageStart' = 0 \/ pageStart' < Len(saved))
    <3>1. CASE live[selected] \in Held(saved)
      <4>1. Position(saved, live[selected]) \in 1 .. Len(saved) BY <1>2, <3>1, PositionFacts
      <4>2. pageStart' = PageOf(Position(saved, live[selected])) BY <1>7, <3>1 DEF HandleLists
      <4> QED BY <1>6, <4>1, <4>2
    <3>2. CASE live[selected] \notin Held(saved)
      <4>1. pageStart' = 0 BY <1>7, <3>2 DEF HandleLists
      <4> QED BY <4>1
    <3> QED BY <3>1, <3>2
  <2> QED BY <1>2, <1>5, <2>1, <2>2
<1>8. CASE HandleBack
  <2>1. /\ listsMode' = FALSE /\ UNCHANGED <<pageStart, saved, live, selected, wr>> /\ cPc' = "head"
    BY <1>8 DEF HandleBack, Publish
  <2> QED BY <1>2, <1>5, <2>1
<1>9. CASE HandlePaging
  <2>1. /\ listsMode /\ UNCHANGED <<listsMode, saved, live, selected, wr>> /\ taken.op \in {"prev", "next"}
        /\ cPc' = IF saved = <<>> THEN "idle" ELSE "head"
    BY <1>9 DEF HandlePaging, Handling, Publish
  <2>2. \/ pageStart' = IF pageStart >= Rows THEN pageStart - Rows ELSE 0
        \/ pageStart' = IF pageStart + Rows < Len(saved) THEN pageStart + Rows
                        ELSE Least(pageStart, LastPage(saved))
    BY <1>9 DEF HandlePaging
  <2>3. pageStart' \in Nat /\ (pageStart' = 0 \/ pageStart' < Len(saved))
    <3>1. Least(pageStart, LastPage(saved)) \in {pageStart, LastPage(saved)} BY DEF Least
    <3> QED BY <1>2, <1>6, <2>2, <3>1
  <2> QED BY <1>2, <1>5, <2>1, <2>3
<1>10. CASE HandleToggle
  <2>0. /\ listsMode /\ UNCHANGED <<listsMode, pageStart, saved, wr>> /\ taken.op = "toggle"
        /\ Index \in 1 .. Len(saved) /\ Entry \in Freqs /\ Entry = saved[Index]
        /\ cPc' = IF saved = <<>> THEN "idle" ELSE "head"
    BY <1>10, IndexFacts DEF HandleToggle, Handling, Publish, Entry
  <2>1. cPc' = "head" /\ saved # <<>> BY <1>2, <1>4, <2>0
  <2>2. /\ live' \in Seq(Freqs) /\ Len(live') \in Row /\ Distinct(live') /\ selected' \in 1 .. Len(live')
        /\ Held(live) \subseteq Held(saved) => Held(live') \subseteq Held(saved)
    <3>1. CASE Entry \in Held(live) /\ Len(live) > 1
      <4> DEFINE i == Position(live, Entry)
      <4>1. i \in 1 .. Len(live) BY <1>2, <3>1, PositionFacts
      <4>2. /\ live' = Without(live, i)
            /\ selected' = IF i < selected THEN selected - 1 ELSE Least(selected, Len(live) - 1)
        <5>1. ~(Entry \notin Held(live)) /\ Len(live) # (IF Entry \in Held(live) THEN 1 ELSE Rows)
          <6>1. \A n \in Nat : n > 1 => n # 1 OBVIOUS
          <6> QED BY ONLY <1>2, <3>1, <6>1
        <5> QED BY <1>10, <5>1 DEF HandleToggle
      <4> HIDE DEF i
      <4>3. live' \in Seq(Freqs) /\ Len(live') = Len(live) - 1 BY <1>2, <4>1, <4>2, WithoutFacts
      <4>4. Held(live') \subseteq Held(live) /\ Distinct(live') BY <1>2, <4>1, <4>2, WithoutHeld
      <4>5. selected' \in 1 .. Len(live) - 1 BY <1>2, <3>1, <4>1, <4>2 DEF Least
      <4>6. Len(live) - 1 \in Row BY <1>2, <3>1
      <4> QED BY <4>3, <4>4, <4>5, <4>6
    <3>2. CASE Entry \notin Held(live) /\ Len(live) < Rows
      <4>1. live' = Append(live, Entry) /\ selected' = selected BY <1>10, <1>2, <3>2 DEF HandleToggle
      <4>2. /\ live' \in Seq(Freqs) /\ Len(live') = Len(live) + 1 /\ Distinct(live')
            /\ Held(live') = Held(live) \cup {Entry}
        BY <1>2, <2>0, <3>2, <4>1, AppendFacts
      <4>3. Entry \in Held(saved) BY <1>2, <2>0 DEF Held
      <4> QED BY <1>2, <3>2, <4>1, <4>2, <4>3
    <3>3. CASE UNCHANGED <<live, selected>> BY <1>2, <3>3
    <3>4. \/ Entry \in Held(live) /\ Len(live) > 1
          \/ Entry \notin Held(live) /\ Len(live) < Rows
          \/ UNCHANGED <<live, selected>>
      BY <1>10 DEF HandleToggle
    <3> QED BY <3>1, <3>2, <3>3, <3>4
  <2> QED BY <1>2, <2>0, <2>1, <2>2 DEF Handled
<1>11. CASE HandleDelete
  <2>0. /\ listsMode /\ listsMode' = listsMode /\ wr' = wr /\ taken.op = "delete"
        /\ Index \in 1 .. Len(saved) /\ Entry \in Freqs /\ Entry = saved[Index]
        /\ cPc' = IF saved' = <<>> THEN "idle" ELSE "head"
    BY <1>11, <1>2, IndexFacts DEF HandleDelete, Handling, Publish, Entry
  <2>1. CASE Entry \in Held(live) /\ Len(live) = 1
    <3>1. UNCHANGED <<live, selected, saved, pageStart>> BY <1>11, <2>1 DEF HandleDelete
    <3>2. saved # <<>> BY <1>2, <1>4, <2>0
    <3> QED BY <1>2, <1>5, <2>0, <3>1, <3>2
  <2>2. CASE ~(Entry \in Held(live) /\ Len(live) = 1)
    <3>1. /\ live' = IF Entry \in Held(live) THEN Without(live, Position(live, Entry)) ELSE live
          /\ selected' = Least(selected, Len(live'))
          /\ saved' = Without(saved, Index)
          /\ pageStart' = PageOf(Least(Index, Len(saved')))
      BY <1>11, <2>2 DEF HandleDelete
    <3>2. /\ saved' \in Seq(Freqs) /\ Len(saved') = Len(saved) - 1
          /\ \A f \in Held(saved) : f # Entry => f \in Held(saved')
      BY <1>2, <2>0, <3>1, WithoutFacts, WithoutHeld
    <3>3. /\ live' \in Seq(Freqs) /\ Len(live') \in Row /\ Distinct(live')
          /\ Held(live') \subseteq Held(live) /\ Entry \notin Held(live')
      <4>1. CASE Entry \in Held(live)
        <5> DEFINE i == Position(live, Entry)
        <5>1. i \in 1 .. Len(live) /\ live[i] = Entry BY <1>2, <4>1, PositionFacts
        <5>2. live' = Without(live, i) BY <3>1, <4>1
        <5> HIDE DEF i
        <5>3. live' \in Seq(Freqs) /\ Len(live') = Len(live) - 1 BY <1>2, <5>1, <5>2, WithoutFacts
        <5>4. Held(live') \subseteq Held(live) /\ Distinct(live') /\ Entry \notin Held(live')
          BY <1>2, <5>1, <5>2, WithoutHeld
        <5>5. Len(live) # 1 BY <2>2, <4>1
        <5>6. Len(live) > 1
          <6>1. \A n \in Nat : n >= 1 /\ n # 1 => n > 1 OBVIOUS
          <6> QED BY ONLY <1>2, <5>5, <6>1
        <5>7. Len(live) - 1 \in Row BY <1>2, <5>6
        <5> QED BY <5>3, <5>4, <5>7
      <4>2. CASE Entry \notin Held(live) BY <1>2, <3>1, <4>2
      <4> QED BY <4>1, <4>2
    <3>4. selected' \in 1 .. Len(live')
      <4>1. Len(live') \in Nat /\ Len(live') >= 1 BY <1>2, <3>3
      <4> QED BY <1>2, <3>1, <4>1 DEF Least
    <3>5. pageStart' \in Nat /\ (pageStart' = 0 \/ pageStart' < Len(saved'))
      <4>0. Len(saved') \in Nat BY <3>2
      <4>1. CASE Len(saved') = 0
        <5>1. Least(Index, Len(saved')) = 0 BY <1>2, <2>0, <4>1 DEF Least
        <5> QED BY <3>1, <5>1, PageOfFacts
      <4>2. CASE Len(saved') # 0
        <5> DEFINE m == Least(Index, Len(saved'))
        <5>1. m \in Nat /\ m >= 1 /\ m <= Len(saved') BY <1>2, <2>0, <4>0, <4>2 DEF Least
        <5> HIDE DEF m
        <5>2. PageOf(m) \in Nat /\ PageOf(m) < m BY <5>1, PageOfFacts
        <5>3. pageStart' = PageOf(m) BY <3>1 DEF m
        <5> QED BY <4>0, <5>1, <5>2, <5>3
      <4> QED BY <4>1, <4>2
    <3>6. saved' = <<>> => cPc' = "idle" BY <2>0
    <3>7. Held(live) \subseteq Held(saved) => Held(live') \subseteq Held(saved') BY <3>2, <3>3
    <3> QED BY <1>2, <2>0, <3>2, <3>3, <3>4, <3>5, <3>7 DEF Handled
  <2> QED BY <2>1, <2>2
<1>12. CASE HandleTune
  <2>0. /\ listsMode /\ UNCHANGED <<pageStart, saved, wr>> /\ taken.op = "tune"
        /\ Index \in 1 .. Len(saved) /\ Entry \in Freqs /\ Entry = saved[Index]
        /\ cPc' = IF listsMode' /\ saved' = <<>> THEN "idle" ELSE "head"
    BY <1>12, IndexFacts DEF HandleTune, Handling, Publish, Entry
  <2>1. saved # <<>> /\ cPc' = "head" BY <1>2, <1>4, <2>0
  <2>2. CASE Entry \notin Held(live) /\ Len(live) >= Rows
    <3>1. UNCHANGED <<live, selected, listsMode>> BY <1>12, <2>2 DEF HandleTune
    <3> QED BY <1>2, <1>5, <2>0, <2>1, <3>1
  <2>3. CASE ~(Entry \notin Held(live) /\ Len(live) >= Rows)
    <3>1. /\ live' = IF Entry \in Held(live) THEN live ELSE Append(live, Entry)
          /\ selected' = Position(live', Entry) /\ listsMode' = FALSE
      BY <1>12, <2>3 DEF HandleTune
    <3>2. /\ live' \in Seq(Freqs) /\ Len(live') \in Row /\ Distinct(live')
          /\ Held(live') = Held(live) \cup {Entry}
      <4>1. CASE Entry \in Held(live) BY <1>2, <3>1, <4>1
      <4>2. CASE Entry \notin Held(live)
        <5>1. /\ live' \in Seq(Freqs) /\ Len(live') = Len(live) + 1 /\ Distinct(live')
              /\ Held(live') = Held(live) \cup {Entry}
          BY <1>2, <2>0, <3>1, <4>2, AppendFacts
        <5>2. Len(live) + 1 \in Row BY <1>2, <2>3, <4>2
        <5> QED BY <5>1, <5>2
      <4> QED BY <4>1, <4>2
    <3>3. selected' \in 1 .. Len(live')
      <4>1. Entry \in Held(live') BY <3>2
      <4> QED BY <3>1, <3>2, <4>1, PositionFacts
    <3>4. Entry \in Held(saved) BY <1>2, <2>0 DEF Held
    <3> QED BY <1>2, <2>0, <2>1, <3>1, <3>2, <3>3, <3>4 DEF Handled
  <2> QED BY <2>2, <2>3
<1>13. CASE AddToLibrary
  <2>0. /\ listsMode /\ UNCHANGED <<listsMode, live, selected, wr>> /\ taken.op = "add" /\ taken.f \in Freqs
        /\ cPc' = IF saved' = <<>> THEN "idle" ELSE "head"
    BY <1>13 DEF AddToLibrary, Handling, Publish, ListsInv, WellFormed
  <2>1. CASE Len(saved) >= LibraryMax \/ taken.f \in Held(saved)
    <3>1. UNCHANGED <<saved, pageStart>> BY <1>13, <2>1 DEF AddToLibrary
    <3> QED BY <1>2, <1>5, <2>0, <3>1
  <2>2. CASE ~(Len(saved) >= LibraryMax \/ taken.f \in Held(saved))
    <3>1. saved' = Append(saved, taken.f) /\ pageStart' = LastPage(saved') BY <1>13, <2>2 DEF AddToLibrary
    <3>2. /\ saved' \in Seq(Freqs) /\ Len(saved') = Len(saved) + 1
          /\ Held(saved') = Held(saved) \cup {taken.f}
      BY <1>2, <2>0, <3>1, AppendFacts
    <3>3. Len(saved') \in Nat /\ Len(saved') >= 1 BY <1>2, <3>2
    <3>4. saved' # <<>> BY <1>3, <3>2, <3>3
    <3>5. pageStart' = PageOf(Len(saved')) BY <3>1 DEF LastPage
    <3>6. pageStart' \in Nat /\ pageStart' < Len(saved') BY <3>3, <3>5, PageOfFacts
    <3>7. Len(live) \in Row BY <1>2
    <3>8. cPc' = "head" BY <2>0, <3>4
    <3> QED BY <1>2, <2>0, <3>2, <3>4, <3>6, <3>7, <3>8 DEF Handled
  <2> QED BY <2>1, <2>2
<1>14. CASE AddToLive
  <2>0. /\ ~listsMode /\ UNCHANGED <<listsMode, pageStart, saved, wr>> /\ taken.op = "add" /\ taken.f \in Freqs
    BY <1>14 DEF AddToLive, Handling, ListsInv, WellFormed
  <2>1. CASE Len(live) >= Rows \/ taken.f \in Held(live)
    <3>1. cPc' = "idle" /\ UNCHANGED <<live, selected>> BY <1>14, <2>1 DEF AddToLive, Idle
    <3> QED BY <1>2, <1>5, <2>0, <3>1
  <2>2. CASE ~(Len(live) >= Rows \/ taken.f \in Held(live))
    <3>1. live' = InsertAfter(live, selected, taken.f) /\ selected' = selected + 1 /\ cPc' = "head"
      BY <1>14, <2>2 DEF AddToLive
    <3>2. live' \in Seq(Freqs) /\ Len(live') = Len(live) + 1 /\ Distinct(live')
      BY <1>2, <2>0, <2>2, <3>1, InsertFacts
    <3>3. Len(live') \in Row /\ selected' \in 1 .. Len(live') BY <1>2, <2>2, <3>1, <3>2
    <3> QED BY <1>2, <2>0, <3>1, <3>2, <3>3 DEF Handled
  <2> QED BY <2>1, <2>2
<1>15. CASE HandleSelect
  <2>1. /\ UNCHANGED <<listsMode, pageStart, saved, live, wr>> /\ cPc' = "idle" /\ taken.op = "select"
        /\ selected' = IF taken.row <= Len(live) THEN taken.row ELSE selected
    BY <1>15 DEF HandleSelect, Handling, Idle
  <2>2. selected' \in 1 .. Len(live) BY <1>2, <2>1
  <2> QED BY <1>2, <1>5, <2>1, <2>2
<1>16. CASE HandleRefresh
  <2>1. /\ ~listsMode /\ UNCHANGED lists /\ cPc' = "head" /\ wr' = [wr EXCEPT !.state = "live"]
    BY <1>16 DEF HandleRefresh
  <2> QED BY <1>2, <1>5, <2>1 DEF lists
<1>17. CASE HandleNothing
  <2>1. UNCHANGED <<lists, wr>> /\ cPc' = "idle" /\ (taken.op = "back" => ~listsMode)
    BY <1>17 DEF HandleNothing, Idle, PageOps
  <2> QED BY <1>2, <1>5, <2>1 DEF lists
<1> QED
  BY <1>1, <1>7, <1>8, <1>9, <1>10, <1>11, <1>12, <1>13, <1>14, <1>15, <1>16, <1>17 DEF Handle

-----------------------------------------------------------------------------
(* Types and lists *)

\* The page the service is on.
LEMMA PageFacts ==
    ASSUME Types, ListsInv, saved # <<>>
    PROVE  /\ Page \in Seq(Freqs) /\ Len(Page) \in Row
           /\ \A r \in 1 .. Len(Page) : Page[r] = saved[pageStart + r] /\ pageStart + r <= Len(saved)
           /\ PageWords \in [inLive : SUBSET Row, offset : Nat, total : Nat]
<1> DEFINE e == Least(pageStart + Rows, Len(saved))
<1>1. /\ pageStart \in Nat /\ Len(saved) \in Nat /\ Rows \in Nat /\ Rows >= 1 /\ saved \in Seq(Freqs)
      /\ Row = 1 .. Rows
  BY ViewsAssumption DEF Types, Row
<1>2. Len(saved) # 0 BY <1>1
<1>3. pageStart < Len(saved)
  <2>1. \A n \in Nat : n # 0 => 0 < n OBVIOUS
  <2> QED BY <1>1, <1>2, <2>1 DEF ListsInv
<1>4. e \in Nat /\ e > pageStart /\ e <= Len(saved) /\ e <= pageStart + Rows
  BY <1>1, <1>3 DEF Least
<1> HIDE DEF e
<1>5. Page = SubSeq(saved, pageStart + 1, e) BY DEF Page, e
<1>6. /\ SubSeq(saved, pageStart + 1, e) \in Seq(Freqs)
      /\ Len(SubSeq(saved, pageStart + 1, e)) = e - pageStart
      /\ \A r \in 1 .. e - pageStart : SubSeq(saved, pageStart + 1, e)[r] = saved[pageStart + 1 + r - 1]
  BY <1>1, <1>4, SubSeqProperties
<1>7. /\ Page \in Seq(Freqs) /\ Len(Page) = e - pageStart
      /\ \A r \in 1 .. e - pageStart : Page[r] = saved[pageStart + 1 + r - 1]
  BY <1>5, <1>6
<1>8. e - pageStart \in Row BY <1>1, <1>4
<1>9. \A r \in 1 .. e - pageStart : pageStart + 1 + r - 1 = pageStart + r /\ pageStart + r <= Len(saved)
  BY <1>1, <1>4
<1>10. PageWords \in [inLive : SUBSET Row, offset : Nat, total : Nat]
  <2>1. DOMAIN Page \in SUBSET Row
    <3>1. DOMAIN Page = 1 .. e - pageStart BY <1>7
    <3> QED BY <1>1, <1>8, <3>1
  <2> QED BY <1>1, <2>1 DEF PageWords
<1> QED BY <1>7, <1>8, <1>9, <1>10

\* What a publication sends.
LEMMA PublishedFacts ==
    ASSUME Types, ListsInv, cPc \in {"head", "freqs", "seq"}
    PROVE  /\ Published \in Seq(Freqs) /\ Len(Published) \in Row
           /\ listsMode => saved # <<>>
           /\ listsMode => PageWords \in [inLive : SUBSET Row, offset : Nat, total : Nat]
<1>1. listsMode => saved # <<>> BY DEF ListsInv
<1> QED BY <1>1, PageFacts DEF Published, Types, ListsInv

\* The words of the waterfall.
LEMMA WaterfallType == WaterfallWords \in [inLive : SUBSET Row, offset : Nat, total : Nat]
BY ViewsAssumption DEF WaterfallWords

\* Every variable keeps its type.
LEMMA TypesStep == Types /\ ListsInv /\ PollInv /\ [Next]_vars => Types'
<1> SUFFICES ASSUME Types, ListsInv, PollInv, [Next]_vars PROVE Types'
  OBVIOUS
<1> DEFINE D == /\ mode' \in Modes /\ dPc' \in {"keys", "head", "freqs", "words"}
                /\ dSeq' \in Nat /\ cursor' \in Row
                /\ dRead' \in [seq : Nat, state : {"live", "lists", "value"}, count : Row, whole : BOOLEAN]
                /\ shown' \in [freqs : [Row -> Freqs \cup {NoFreq}], count : Row, inLive : SUBSET Row,
                               offset : Nat, total : Nat, whole : BOOLEAN]
           W == wr' \in [state : {"live", "lists", "value"}, packed : BOOLEAN, count : Row,
                         freqs : Seq(Freqs), kHz : BOOLEAN, lseq : Nat,
                         words : [inLive : SUBSET Row, offset : Nat, total : Nat]]
           C == /\ taken' \in Command
                /\ cPc' \in {"down", "idle", "handle", "head", "freqs", "seq"} /\ cSeq' \in Nat
                /\ listsMode' \in BOOLEAN /\ pageStart' \in Nat
                /\ saved' \in Seq(Freqs) /\ live' \in Seq(Freqs) /\ selected' \in 1 .. Len(live')
           H == wrCmd' \in Command /\ events' \subseteq Events /\ sends' \in Nat /\ crashes' \in Nat
<1>0. /\ UNCHANGED display => D
      /\ UNCHANGED wr => W
      /\ UNCHANGED service => C
      /\ UNCHANGED <<wrCmd, events, sends, crashes>> => H
      /\ UNCHANGED <<cSeq, taken, lists>> /\ cPc' \in {"down", "idle", "handle", "head", "freqs", "seq"} => C
  BY DEF Types, display, service, lists
<1>1. D /\ W /\ C /\ H => Types' BY DEF Types
<1>2. NothingRead \in [seq : Nat, state : {"live", "lists", "value"}, count : Row, whole : BOOLEAN] /\ 1 \in Row
  BY ViewsAssumption DEF NothingRead, Row
<1>3. NoCommand \in Command BY <1>2 DEF NoCommand, Command
<1>4. CASE User
  <2>1. /\ UNCHANGED <<dSeq, dPc, dRead, shown, service, crashes>>
        /\ wr' = wr \/ wr' = [wr EXCEPT !.state = "value"]
        /\ mode' \in Modes /\ cursor' \in Row
        /\ QuietKey \/ SendingKey
    BY <1>4, UserFacts
  <2>2. D BY <2>1 DEF Types
  <2>3. W BY <2>1 DEF Types
  <2>4. H BY <2>1 DEF Types, QuietKey, SendingKey
  <2> HIDE DEF D, W, C, H
  <2> QED BY <1>0, <1>1, <2>1, <2>2, <2>3, <2>4
<1>5. CASE StartPoll
  <2>1. D BY <1>2, <1>5 DEF StartPoll, Types, NothingRead
  <2>2. UNCHANGED <<wr, service, wrCmd, events, sends, crashes>> BY <1>5 DEF StartPoll, Reading
  <2> HIDE DEF D, W, C, H
  <2> QED BY <1>0, <1>1, <2>1, <2>2
<1>6. CASE ReadHead
  <2>1. D
    <3>1. /\ wr.state \in {"live", "lists", "value"} /\ wr.count \in Row /\ dRead.whole \in BOOLEAN
          /\ Rows \in Row /\ (dRead.whole /\ wr.state # "value") \in BOOLEAN
      BY ViewsAssumption DEF Types, Row
    <3>2. (IF wr.packed /\ wr.state # "live" THEN Rows ELSE wr.count) \in Row BY <3>1
    <3> QED BY <1>6, <3>1, <3>2 DEF ReadHead, Types, Whole
  <2>2. UNCHANGED <<wr, service, wrCmd, events, sends, crashes>> BY <1>6 DEF ReadHead, Reading
  <2> HIDE DEF D, W, C, H
  <2> QED BY <1>0, <1>1, <2>1, <2>2
<1>7. CASE HeadUnanswered
  <2>1. D BY <1>2, <1>7 DEF HeadUnanswered, Types
  <2>2. UNCHANGED <<wr, service, wrCmd, events, sends, crashes>> BY <1>7 DEF HeadUnanswered, Reading
  <2> HIDE DEF D, W, C, H
  <2> QED BY <1>0, <1>1, <2>1, <2>2
<1>8. CASE ReadFreqs
  <2>1. shown' \in [freqs : [Row -> Freqs \cup {NoFreq}], count : Row, inLive : SUBSET Row,
                    offset : Nat, total : Nat, whole : BOOLEAN]
    <3>1. PICK unanswered \in SUBSET (1 .. dRead.count) :
             shown' = [shown EXCEPT
               !.count = dRead.count,
               !.freqs = [r \in Row |->
                   IF r > dRead.count \/ r \in unanswered \/ r > Len(wr.freqs)
                   THEN shown.freqs[r]
                   ELSE IF wr.kHz = (dRead.state = "lists") THEN wr.freqs[r] ELSE NoFreq],
               !.whole = Whole /\ unanswered = {} /\ (mode = "add" => dRead.state = "lists")]
      BY <1>8 DEF ReadFreqs
    <3> DEFINE fs == [r \in Row |->
                   IF r > dRead.count \/ r \in unanswered \/ r > Len(wr.freqs)
                   THEN shown.freqs[r]
                   ELSE IF wr.kHz = (dRead.state = "lists") THEN wr.freqs[r] ELSE NoFreq]
               w == Whole /\ unanswered = {} /\ (mode = "add" => dRead.state = "lists")
    <3>2. fs \in [Row -> Freqs \cup {NoFreq}]
      <4> SUFFICES ASSUME NEW r \in Row PROVE fs[r] \in Freqs \cup {NoFreq} OBVIOUS
      <4>1. shown.freqs[r] \in Freqs \cup {NoFreq} BY DEF Types
      <4>2. ~(r > Len(wr.freqs)) => wr.freqs[r] \in Freqs
        <5>1. wr.freqs \in Seq(Freqs) /\ r \in Nat /\ r >= 1 BY ViewsAssumption DEF Types, Row
        <5> QED BY <5>1
      <4> QED BY <4>1, <4>2
    <3>3. w \in BOOLEAN /\ dRead.count \in Row BY DEF Types, Whole
    <3>4. shown' = [shown EXCEPT !.count = dRead.count, !.freqs = fs, !.whole = w] BY <3>1
    <3> HIDE DEF fs, w
    <3> QED BY <3>2, <3>3, <3>4 DEF Types
  <2>2. cursor' \in Row
    <3>1. cursor' \in (IF mode = "confirm" THEN 1 .. dRead.count ELSE {cursor}) BY <1>8 DEF ReadFreqs
    <3>2. dRead.count \in Row /\ cursor \in Row BY DEF Types
    <3>3. 1 .. dRead.count \subseteq Row BY <3>2, ViewsAssumption DEF Row
    <3> QED BY <3>1, <3>2, <3>3
  <2>3. /\ dSeq' = dRead.seq /\ dPc' \in {"words", "keys"} /\ dRead' \in {dRead, NothingRead}
        /\ mode' \in {mode, "live"} /\ events' \subseteq events \cup {"passed over"}
    BY <1>8 DEF ReadFreqs
  <2>4. D BY <1>2, <2>1, <2>2, <2>3 DEF Types, Modes
  <2>5. UNCHANGED <<wr, service, wrCmd, sends, crashes>> BY <1>8 DEF ReadFreqs, Reading
  <2>6. H BY <2>3, <2>5 DEF Types, Events
  <2> HIDE DEF D, W, C, H
  <2> QED BY <1>0, <1>1, <2>4, <2>5, <2>6
<1>9. CASE ReadWords
  <2>1. D
    <3> DEFINE w == shown.whole /\ Whole /\ ~Overtaken
    <3>1. w \in BOOLEAN OBVIOUS
    <3>2. shown' = [shown EXCEPT !.inLive = wr.words.inLive, !.offset = wr.words.offset,
                                 !.total = wr.words.total, !.whole = w]
      BY <1>9 DEF ReadWords
    <3>3. wr.words.inLive \in SUBSET Row /\ wr.words.offset \in Nat /\ wr.words.total \in Nat BY DEF Types
    <3> HIDE DEF w
    <3>4. mode' = "lists" /\ cursor' = 1 /\ dPc' = "keys" /\ dRead' = NothingRead /\ dSeq' = dSeq
      BY <1>9 DEF ReadWords
    <3> QED BY <1>2, <3>1, <3>2, <3>3, <3>4 DEF Types, Modes, LibraryPages
  <2>2. UNCHANGED <<wr, service, wrCmd, events, sends, crashes>> BY <1>9 DEF ReadWords, Reading
  <2> HIDE DEF D, W, C, H
  <2> QED BY <1>0, <1>1, <2>1, <2>2
<1>10. CASE WordsUnanswered
  <2>1. D BY <1>2, <1>10 DEF WordsUnanswered, Types
  <2>2. UNCHANGED <<wr, service, wrCmd, sends, crashes>> BY <1>10 DEF WordsUnanswered, Reading
  <2>3. H BY <1>10, <2>2 DEF WordsUnanswered, Types, Events
  <2> HIDE DEF D, W, C, H
  <2> QED BY <1>0, <1>1, <2>1, <2>2, <2>3
<1>11. CASE Take
  <2>1. taken' \in Command
    <3>1. taken' = wrCmd \/ taken' = [wrCmd EXCEPT !.op = "gray"] BY <1>11 DEF Take
    <3>2. [wrCmd EXCEPT !.op = "gray"] \in Command BY DEF Types, Command, Ops
    <3> QED BY <3>1, <3>2 DEF Types
  <2>2. UNCHANGED <<display, wr, cSeq, lists, events, sends, crashes>> /\ wrCmd' = NoCommand /\ cPc' = "handle"
    BY <1>11 DEF Take
  <2>3. C
    <3>1. UNCHANGED <<cSeq, listsMode, pageStart, saved, live, selected>> BY <2>2 DEF lists
    <3> QED BY <2>1, <2>2, <3>1 DEF Types
  <2>4. H BY <1>3, <2>2 DEF Types
  <2> HIDE DEF D, W, C, H
  <2> QED BY <1>0, <1>1, <2>2, <2>3, <2>4
<1>12. CASE Handle
  <2>1. /\ taken' = NoCommand /\ UNCHANGED <<display, wrCmd, cSeq, events, sends, crashes>>
        /\ Handled
    BY <1>12, HandleFacts
  <2>2. C BY <1>3, <2>1 DEF Handled, Types
  <2>3. W BY <2>1 DEF Handled, Types
  <2> HIDE DEF D, W, C, H
  <2> QED BY <1>0, <1>1, <2>1, <2>2, <2>3
<1>13. ASSUME NEW here, NEW next \in {"idle", "head", "freqs", "seq"}, Writing(here, next)
       PROVE  /\ cPc = here /\ cPc' \in {"down", "idle", "handle", "head", "freqs", "seq"} /\ D /\ H
              /\ UNCHANGED <<taken, lists>>
  <2>1. dRead' \in [seq : Nat, state : {"live", "lists", "value"}, count : Row, whole : BOOLEAN]
    <3> DEFINE w == dRead.whole /\ (dPc = "keys" \/ here # "head")
    <3>1. w \in BOOLEAN OBVIOUS
    <3>2. dRead' = [dRead EXCEPT !.whole = w] BY <1>13 DEF Writing
    <3> HIDE DEF w
    <3> QED BY <3>1, <3>2 DEF Types
  <2> QED BY <1>13, <2>1 DEF Writing, Types
<1>14. ASSUME NEW next \in {"idle", "head", "freqs", "seq"}, NEW here, Writing(here, next), W, cSeq' \in Nat
       PROVE  Types'
  <2>1. UNCHANGED <<taken, listsMode, pageStart, saved, live, selected>>
        /\ cPc' \in {"down", "idle", "handle", "head", "freqs", "seq"}
    BY <1>13, <1>14 DEF lists
  <2>3. C BY <1>14, <2>1 DEF Types
  <2>2. D /\ H BY <1>13, <1>14
  <2> HIDE DEF D, W, C, H
  <2> QED BY <1>1, <1>14, <2>2, <2>3
<1>15. CASE WriteHead
  <2>1. Writing("head", "freqs") /\ cSeq' \in Nat BY <1>15 DEF WriteHead, Types
  <2>2. Len(Published) \in Row /\ (listsMode => PageWords \in [inLive : SUBSET Row, offset : Nat, total : Nat])
    BY <2>1, PublishedFacts DEF Writing
  <2>3. W
    <3> DEFINE st == IF listsMode THEN "lists" ELSE "live"
               pk == ~listsMode
               ws == IF listsMode THEN PageWords ELSE wr.words
    <3>1. wr' = [wr EXCEPT !.state = st, !.packed = pk, !.count = Len(Published), !.words = ws]
      BY <1>15 DEF WriteHead
    <3>2. ws \in [inLive : SUBSET Row, offset : Nat, total : Nat] BY <2>2 DEF Types
    <3>3. st \in {"live", "lists", "value"} /\ pk \in BOOLEAN OBVIOUS
    <3> HIDE DEF st, pk, ws
    <3> QED BY <2>2, <3>1, <3>2, <3>3 DEF Types
  <2> HIDE DEF D, W, C, H
  <2> QED BY <1>14, <2>1, <2>3
<1>16. CASE WriteFreqs
  <2>1. Writing("freqs", "seq") /\ cSeq' \in Nat BY <1>16 DEF WriteFreqs, Types
  <2>2. Published \in Seq(Freqs) BY <2>1, PublishedFacts DEF Writing
  <2>3. W BY <1>16, <2>2 DEF WriteFreqs, Types
  <2> HIDE DEF D, W, C, H
  <2> QED BY <1>14, <2>1, <2>3
<1>17. CASE WriteSequence
  <2>1. Writing("seq", "idle") /\ cSeq' \in Nat BY <1>17 DEF WriteSequence, Types
  <2>2. W
    <3> DEFINE q == cSeq + 1
    <3>1. q \in Nat /\ wr' = [wr EXCEPT !.lseq = q] BY <1>17 DEF WriteSequence, Types
    <3> HIDE DEF q
    <3> QED BY <3>1 DEF Types
  <2> HIDE DEF D, W, C, H
  <2> QED BY <1>14, <2>1, <2>2
<1>18. CASE Connect
  <2>1. Writing("down", "head") /\ cSeq' \in Nat BY <1>18 DEF Connect, Types
  <2>2. W BY <1>18 DEF Connect, Types
  <2> HIDE DEF D, W, C, H
  <2> QED BY <1>14, <2>1, <2>2
<1>19. CASE PushRow
  <2>1. Writing("idle", "idle") /\ cSeq' \in Nat BY <1>19 DEF PushRow, Types
  <2>2. W BY <1>19, WaterfallType DEF PushRow, Types
  <2> HIDE DEF D, W, C, H
  <2> QED BY <1>14, <2>1, <2>2
<1>20. CASE Restart
  <2>1. saved' \in Seq(Freqs) BY <1>20, CompletedFacts DEF Restart, Types
  <2>2. C
    <3>1. live' \in Seq(Freqs) /\ selected' \in 1 .. Len(live')
      <4>1. live \in Seq(Freqs) /\ selected \in 1 .. Len(live) /\ live' = live /\ selected' = 1
        BY <1>20 DEF Restart, Types
      <4> QED BY <4>1
    <3> QED BY <1>3, <1>20, <2>1, <3>1 DEF Restart
  <2>3. UNCHANGED <<display, wr, wrCmd, sends>> /\ crashes' = crashes + 1 /\ events' = events \cup {"restarted"}
    BY <1>20 DEF Restart
  <2>4. H
    <3>1. crashes' \in Nat BY <2>3 DEF Types
    <3>2. events' \subseteq Events BY <2>3 DEF Types, Events
    <3> QED BY <2>3, <3>1, <3>2 DEF Types
  <2> HIDE DEF D, W, C, H
  <2> QED BY <1>0, <1>1, <2>2, <2>3, <2>4
<1>21. CASE Drop
  <2>1. C BY <1>21 DEF Drop, Types, lists
  <2>2. UNCHANGED <<display, wr, wrCmd, sends>> /\ crashes' = crashes + 1 /\ events' = events \cup {"restarted"}
    BY <1>21 DEF Drop
  <2>3. H
    <3>1. crashes' \in Nat BY <2>2 DEF Types
    <3>2. events' \subseteq Events BY <2>2 DEF Types, Events
    <3> QED BY <2>2, <3>1, <3>2 DEF Types
  <2> HIDE DEF D, W, C, H
  <2> QED BY <1>0, <1>1, <2>1, <2>2, <2>3
<1>22. CASE UNCHANGED vars
  BY <1>0, <1>1, <1>22 DEF vars
<1> QED
  BY <1>4, <1>5, <1>6, <1>7, <1>8, <1>9, <1>10, <1>11, <1>12, <1>15, <1>16, <1>17, <1>18, <1>19, <1>20, <1>21, <1>22
  DEF Next, PollList, Service

\* What has happened stays on record.
LEMMA EventsGrow ==
    Types /\ ListsInv /\ PollInv /\ [Next]_vars => events \subseteq events'
<1> SUFFICES ASSUME Types, ListsInv, PollInv, [Next]_vars PROVE events \subseteq events'
  OBVIOUS
<1>1. CASE User
  BY <1>1, UserFacts DEF QuietKey, SendingKey
<1>2. CASE PollList
  BY <1>2 DEF PollList, StartPoll, ReadHead, HeadUnanswered, ReadFreqs, ReadWords, WordsUnanswered
<1>3. CASE Handle
  BY <1>3, HandleFacts
<1>4. CASE Take \/ WriteHead \/ WriteFreqs \/ WriteSequence \/ Connect \/ PushRow \/ Restart \/ Drop
  BY <1>4 DEF Take, WriteHead, WriteFreqs, WriteSequence, Connect, PushRow, Restart, Drop, Writing
<1>5. CASE UNCHANGED vars
  BY <1>5 DEF vars
<1> QED
  BY <1>1, <1>2, <1>3, <1>4, <1>5 DEF Next, Service

\* Before a step there was no more on record than after it.
LEMMA MildBefore ==
    Types /\ ListsInv /\ PollInv /\ [Next]_vars => /\ Mild' => Mild
                                                   /\ Fine' => Fine
                                                   /\ "blind" \notin events' => "blind" \notin events
BY EventsGrow DEF Mild, Fine

\* The lists stay usable, and commands well formed.
LEMMA ListsStep == Types /\ ListsInv /\ PollInv /\ ModeInv /\ [Next]_vars => ListsInv'
<1> SUFFICES ASSUME Types, ListsInv, PollInv, ModeInv, [Next]_vars PROVE ListsInv'
  OBVIOUS
<1>0. Mild' => Mild BY MildBefore
<1>1. NoCommand.op = "none" BY DEF NoCommand
\* Steps that leave the lists as they are.
<1>2. ASSUME UNCHANGED <<live, saved, listsMode, pageStart>>, cPc' = "handle" <=> taken'.op # "none",
             WellFormed(wrCmd)', WellFormed(taken)',
             cPc' \in {"head", "freqs", "seq"} => cPc \in {"head", "freqs", "seq"} \/ ~listsMode,
             cPc' = "down" => ~listsMode
      PROVE  ListsInv'
  <2>1. /\ Len(live') \in Row /\ Distinct(live') /\ (pageStart' = 0 \/ pageStart' < Len(saved'))
        /\ Mild' => Held(live') \subseteq Held(saved')
    BY <1>0, <1>2 DEF ListsInv
  <2>2. cPc' \in {"head", "freqs", "seq"} /\ listsMode' => saved' # <<>> BY <1>2 DEF ListsInv
  <2> QED BY <1>2, <2>1, <2>2 DEF ListsInv, WellFormed
<1>3. UNCHANGED service /\ WellFormed(wrCmd)' => ListsInv'
  BY <1>2 DEF ListsInv, service, lists, WellFormed
<1>4. CASE User
  <2>1. UNCHANGED service /\ (QuietKey \/ SendingKey) BY <1>4, UserFacts
  <2>2. WellFormed(wrCmd)' BY <2>1 DEF ListsInv, WellFormed, QuietKey, SendingKey
  <2> QED BY <1>3, <2>1, <2>2
<1>5. CASE PollList
  <2>1. UNCHANGED <<service, wrCmd>>
    BY <1>5 DEF PollList, StartPoll, ReadHead, HeadUnanswered, ReadFreqs, ReadWords, WordsUnanswered, Reading
  <2>2. WellFormed(wrCmd)' BY <2>1 DEF ListsInv, WellFormed
  <2> QED BY <1>3, <2>1, <2>2
<1>6. CASE Take
  <2>1. /\ cPc = "idle" /\ wrCmd # NoCommand /\ wrCmd' = NoCommand /\ cPc' = "handle"
        /\ UNCHANGED <<live, saved, listsMode, pageStart>>
        /\ taken' = wrCmd \/ (taken' = [wrCmd EXCEPT !.op = "gray"] /\ wrCmd.op = "add")
    BY <1>6 DEF Take, lists
  <2>2. wrCmd.op # "none" BY <2>1 DEF ListsInv, WellFormed
  <2>3. taken'.op # "none" /\ WellFormed(taken)'
    <3>1. CASE taken' = wrCmd BY <2>2, <3>1 DEF ListsInv, WellFormed
    <3>2. CASE taken' = [wrCmd EXCEPT !.op = "gray"]
      <4>1. taken'.op = "gray" BY <3>2 DEF Types, Command
      <4> QED BY <4>1 DEF WellFormed
    <3> QED BY <2>1, <3>1, <3>2
  <2>4. WellFormed(wrCmd)' BY <1>1, <2>1 DEF WellFormed
  <2> QED BY <1>2, <2>1, <2>3, <2>4
<1>7. CASE Handle
  <2>1. /\ cPc = "handle" /\ taken' = NoCommand /\ wrCmd' = wrCmd /\ Handled
    BY <1>7, HandleFacts
  <2>2. Mild' => Held(live') \subseteq Held(saved') BY <1>0, <2>1 DEF Handled, ListsInv, ModeInv
  <2>3. WellFormed(wrCmd)' /\ WellFormed(taken)' BY <1>1, <2>1 DEF ListsInv, WellFormed
  <2>4. cPc' # "handle" /\ cPc' # "down" /\ taken'.op = "none" BY <1>1, <2>1 DEF Handled
  <2>5. cPc' \in {"head", "freqs", "seq"} => cPc' = "head" BY <2>1 DEF Handled
  <2> QED BY <2>1, <2>2, <2>3, <2>4, <2>5 DEF Handled, ListsInv
<1>8. CASE WriteHead \/ WriteFreqs \/ WriteSequence \/ PushRow \/ Connect
  <2>1. /\ UNCHANGED <<live, saved, listsMode, pageStart, taken, wrCmd>>
        /\ cPc # "handle" /\ cPc' # "handle" /\ cPc' # "down"
        /\ cPc' \in {"head", "freqs", "seq"} => cPc \in {"down", "head", "freqs", "seq"}
    BY <1>8 DEF WriteHead, WriteFreqs, WriteSequence, PushRow, Connect, Writing, lists
  <2>2. WellFormed(wrCmd)' /\ WellFormed(taken)' /\ taken'.op = "none" BY <2>1 DEF ListsInv, WellFormed
  <2>3. cPc = "down" => ~listsMode BY DEF ListsInv
  <2> QED BY <1>2, <2>1, <2>2, <2>3
<1>9. CASE Restart
  <2> DEFINE u == saved \o Picked(live, {i \in DOMAIN live : live[i] \notin Held(saved)})
  <2>1. /\ live' = live /\ pageStart' = 0 /\ listsMode' = FALSE /\ cPc' = "down" /\ taken' = NoCommand
        /\ wrCmd' = wrCmd /\ "restarted" \in events'
    BY <1>9 DEF Restart
  <2>2. ~Mild' BY <2>1 DEF Mild
  <2> QED BY <1>1, <2>1, <2>2 DEF ListsInv, WellFormed
<1>10. CASE Drop
  <2>1. /\ UNCHANGED <<live, saved, listsMode, pageStart, taken, wrCmd>>
        /\ cPc = "idle" /\ cPc' = "down" /\ ~listsMode
    BY <1>10 DEF Drop, lists
  <2>2. WellFormed(wrCmd)' /\ WellFormed(taken)' /\ taken'.op = "none" BY <2>1 DEF ListsInv, WellFormed
  <2> QED BY <1>2, <2>1, <2>2
<1>11. CASE UNCHANGED vars
  <2>1. WellFormed(wrCmd)' BY <1>11 DEF ListsInv, WellFormed, vars
  <2> QED BY <1>3, <1>11, <2>1 DEF vars
<1> QED
  BY <1>4, <1>5, <1>6, <1>7, <1>8, <1>9, <1>10, <1>11 DEF Next, Service

-----------------------------------------------------------------------------
(* The mailbox has the page *)

\* Pages depend on the lists alone.
LEMMA SamePage ==
    ASSUME UNCHANGED <<saved, live, listsMode, pageStart>>
    PROVE  Page' = Page /\ PageWords' = PageWords /\ Published' = Published
BY DEF Page, PageWords, Published, Held

\* Publications keep the mailbox on the service's page.
LEMMA MailStep ==
    Types /\ ListsInv /\ MailInv /\ PollInv /\ PressInv /\ ModeInv /\ [Next]_vars => MailInv'
<1> SUFFICES ASSUME Types, ListsInv, MailInv, PollInv, PressInv, ModeInv, [Next]_vars PROVE MailInv'
  OBVIOUS
<1>0. (Mild' => Mild) /\ (Fine' => Fine) BY MildBefore
\* Steps that leave the lists, the service's place and the mailbox as they are,
\* but for a state that says of no library page that it is one.
<1>1. ASSUME UNCHANGED <<saved, live, listsMode, pageStart>>,
             cPc' = cPc \/ (cPc = "idle" /\ cPc' = "handle"),
             wr' = wr \/ wr' = [wr EXCEPT !.state = "value"],
             Caught => Caught' \/ wr.packed
      PROVE  MailInv'
  <2>1. Page' = Page /\ PageWords' = PageWords /\ Published' = Published BY <1>1, SamePage
  <2>2. /\ wr'.packed = wr.packed /\ wr'.kHz = wr.kHz /\ wr'.count = wr.count /\ wr'.freqs = wr.freqs
        /\ wr'.words = wr.words /\ (wr'.state = wr.state \/ wr'.state = "value")
    BY <1>1 DEF Types
  <2>3. (Still' <=> Still) /\ (cPc' \in {"freqs", "seq"} => cPc' = cPc) BY <1>1 DEF Still
  <2> QED BY <1>0, <1>1, <2>1, <2>2, <2>3 DEF MailInv
<1>2. CASE User
  <2>1. /\ UNCHANGED <<dPc, dSeq, service>>
        /\ wr' = wr \/ wr' = [wr EXCEPT !.state = "value"]
    BY <1>2, UserFacts
  <2>2. wr'.lseq = wr.lseq BY <2>1 DEF Types
  <2> QED BY <1>1, <2>1, <2>2 DEF service, lists, Caught
<1>3. CASE PollList
  <2>1. UNCHANGED <<service, wr>> /\ ~Caught
    BY <1>3 DEF PollList, StartPoll, ReadHead, HeadUnanswered, ReadFreqs, ReadWords, WordsUnanswered, Reading, Caught
  <2> QED BY <1>1, <2>1 DEF service, lists
<1>4. CASE Take
  BY <1>1, <1>4 DEF Take, lists, display, Caught
<1>5. CASE Handle
  <2>1. /\ cPc = "handle" /\ UNCHANGED <<display, events>> /\ Handled
    BY <1>5, HandleFacts
  <2>2. /\ wr'.packed = wr.packed /\ wr'.kHz = wr.kHz /\ wr'.count = wr.count /\ wr'.freqs = wr.freqs
        /\ wr'.words = wr.words /\ wr'.lseq = wr.lseq /\ (wr'.state = wr.state \/ wr'.state = "live")
    BY <2>1 DEF Types, Handled
  <2>3. Caught' <=> Caught BY <2>1, <2>2 DEF Caught, display
  <2>4. Still BY <2>1 DEF Still
  <2>5. CASE cPc' = "idle" /\ UNCHANGED <<listsMode, pageStart, saved, live>>
    <3>1. Page' = Page /\ PageWords' = PageWords BY <2>5, SamePage
    <3>2. Still' BY <2>5 DEF Still
    <3> QED BY <1>0, <2>2, <2>3, <2>4, <2>5, <3>1, <3>2 DEF MailInv
  <2>6. CASE cPc' = "idle" /\ listsMode' /\ saved' = <<>>
    <3>1. Fine' => wr.packed \/ Caught
      <4>1. CASE ~listsMode BY <2>4, <4>1 DEF MailInv
      <4>2. CASE listsMode /\ saved = <<>> BY <1>0, <4>2 DEF MailInv
      <4>3. CASE listsMode /\ saved # <<>>
        <5>1. taken.op = "delete" BY <2>1, <2>6, <4>3 DEF Handled
        <5>2. ~Mild
          <6> SUFFICES ASSUME Mild PROVE FALSE OBVIOUS
          <6>1. Held(live') \subseteq Held(saved') BY <2>1, <5>1 DEF Handled, ListsInv
          <6>2. live' \in Seq(Freqs) /\ Len(live') \in Row BY <2>1 DEF Handled
          <6>3. 1 \in DOMAIN live' BY <6>2, ViewsAssumption DEF Row
          <6> QED BY <2>6, <6>1, <6>3 DEF Held
        <5>3. Fine' => "blind" \notin events BY <1>0, <5>2 DEF Fine
        <5> QED BY <4>3, <5>1, <5>3 DEF PressInv, PageOps
      <4> QED BY <4>1, <4>2, <4>3
    <3> QED BY <2>2, <2>3, <2>6, <3>1 DEF MailInv
  <2>7. CASE cPc' = "head"
    <3>1. ~Still' BY <2>7 DEF Still
    <3>2. ~(listsMode' /\ saved' = <<>>) BY <2>1, <2>7 DEF Handled
    <3> QED BY <2>2, <2>7, <3>1, <3>2 DEF MailInv
  <2> QED BY <2>1, <2>5, <2>6, <2>7 DEF Handled
<1>6. CASE WriteHead
  <2>1. /\ cPc = "head" /\ cPc' = "freqs" /\ UNCHANGED <<saved, live, listsMode, pageStart>>
        /\ wr' = [wr EXCEPT !.state = IF listsMode THEN "lists" ELSE "live",
                            !.packed = ~listsMode, !.count = Len(Published),
                            !.words = IF listsMode THEN PageWords ELSE wr.words]
    BY <1>6 DEF WriteHead, Writing, lists
  <2>2. PageWords' = PageWords /\ Published' = Published BY <2>1, SamePage
  <2>3. /\ wr'.state = (IF listsMode THEN "lists" ELSE "live") /\ wr'.packed = ~listsMode
        /\ wr'.count = Len(Published) /\ (listsMode => wr'.words = PageWords)
    BY <2>1 DEF Types
  <2>4. ~(listsMode /\ saved = <<>>) BY <2>1 DEF ListsInv
  <2>5. (wr'.state = "lists" => ~wr'.packed) /\ ~Still' /\ listsMode' = listsMode /\ saved' = saved
    BY <2>1, <2>3 DEF Still, Types
  <2>6. cPc' # "seq" BY <2>1
  <2> QED BY ONLY <2>2, <2>3, <2>4, <2>5, <2>6 DEF MailInv
<1>7. CASE WriteFreqs
  <2>1. /\ cPc = "freqs" /\ cPc' = "seq" /\ UNCHANGED <<saved, live, listsMode, pageStart>>
        /\ wr' = [wr EXCEPT !.freqs = Published, !.kHz = listsMode]
    BY <1>7 DEF WriteFreqs, Writing, lists
  <2>2. PageWords' = PageWords /\ Published' = Published BY <2>1, SamePage
  <2>3. /\ wr'.state = wr.state /\ wr'.packed = wr.packed /\ wr'.count = wr.count /\ wr'.words = wr.words
        /\ wr'.freqs = Published /\ wr'.kHz = listsMode
    BY <2>1 DEF Types
  <2>4. ~(listsMode /\ saved = <<>>) BY <2>1 DEF ListsInv
  <2> QED BY <2>1, <2>2, <2>3, <2>4 DEF MailInv, Still
<1>8. CASE WriteSequence
  <2>1. /\ cPc = "seq" /\ cPc' = "idle" /\ UNCHANGED <<saved, live, listsMode, pageStart>>
        /\ wr' = [wr EXCEPT !.lseq = cSeq + 1]
    BY <1>8 DEF WriteSequence, Writing, lists
  <2>2. Page' = Page /\ PageWords' = PageWords BY <2>1, SamePage
  <2>3. /\ wr'.state = wr.state /\ wr'.packed = wr.packed /\ wr'.count = wr.count /\ wr'.words = wr.words
        /\ wr'.freqs = wr.freqs /\ wr'.kHz = wr.kHz
    BY <2>1 DEF Types
  <2>4. ~(listsMode /\ saved = <<>>) BY <2>1 DEF ListsInv
  <2>5. listsMode => Published = Page BY DEF Published
  <2> QED BY <2>1, <2>2, <2>3, <2>4, <2>5 DEF MailInv, Still
<1>9. CASE PushRow
  <2>1. /\ cPc = "idle" /\ cPc' = "idle" /\ ~listsMode /\ UNCHANGED <<saved, live, listsMode, pageStart>>
        /\ wr' = [wr EXCEPT !.words = WaterfallWords]
    BY <1>9 DEF PushRow, Writing, lists
  <2>2. wr'.state = wr.state /\ wr'.packed = wr.packed /\ wr'.kHz = wr.kHz BY <2>1 DEF Types
  <2> QED BY <2>1, <2>2 DEF MailInv, Still
<1>10. CASE Connect \/ Restart \/ Drop
  <2>1. /\ cPc' \in {"head", "down"} /\ ~listsMode' /\ wr'.packed = wr.packed
        /\ wr'.state = wr.state \/ wr'.state = "live"
    <3>1. CASE Connect
      <4>1. cPc' = "head" /\ ~listsMode' /\ wr' = [wr EXCEPT !.state = "live"]
        BY <3>1 DEF Connect, Writing, lists, ListsInv
      <4> QED BY <4>1 DEF Types
    <3>2. CASE Restart BY <3>2 DEF Restart
    <3>3. CASE Drop BY <3>3 DEF Drop, lists
    <3> QED BY <1>10, <3>1, <3>2, <3>3
  <2> QED BY <2>1 DEF MailInv, Still
<1>11. CASE UNCHANGED vars
  <2>1. UNCHANGED <<saved, live, listsMode, pageStart, cPc, wr, dPc, dSeq>> BY <1>11 DEF vars, service, lists, display
  <2> QED BY <1>1, <2>1 DEF Caught
<1> QED
  BY <1>2, <1>3, <1>4, <1>5, <1>6, <1>7, <1>8, <1>9, <1>10, <1>11 DEF Next, Service

\* What a poll has read whole stays in the mailbox until it is done.
LEMMA PollStep ==
    Types /\ ListsInv /\ MailInv /\ PollInv /\ [Next]_vars => PollInv'
<1> SUFFICES ASSUME Types, ListsInv, MailInv, PollInv, [Next]_vars PROVE PollInv'
  OBVIOUS
\* Steps of the service that leave what a poll reads of the list.
<1>1. ASSUME UNCHANGED <<mode, dSeq, dPc, shown, cursor>>,
             dRead' = dRead \/ dRead' = [dRead EXCEPT !.whole = dRead'.whole],
             dRead'.whole => dRead.whole,
             dPc # "keys" /\ dRead'.whole =>
                 /\ cPc \notin {"freqs", "seq"} => cPc' \notin {"freqs", "seq"}
                 /\ wr'.lseq = wr.lseq /\ wr'.packed = wr.packed /\ wr'.count = wr.count
                 /\ wr'.freqs = wr.freqs /\ wr'.kHz = wr.kHz
      PROVE  PollInv'
  <2>1. dRead'.seq = dRead.seq /\ dRead'.state = dRead.state /\ dRead'.count = dRead.count
    BY <1>1 DEF Types
  <2>2. dPc' = dPc /\ dSeq' = dSeq /\ shown' = shown /\ mode' = mode /\ cursor' = cursor BY <1>1
  <2>3. CASE dPc = "keys" BY <2>2, <2>3 DEF PollInv
  <2>4. CASE dPc # "keys" /\ ~dRead'.whole BY <2>1, <2>2, <2>4 DEF PollInv
  <2>5. CASE dPc # "keys" /\ dRead'.whole
    <3>1. cPc' \notin {"freqs", "seq"} /\ wr'.lseq = dRead'.seq BY <1>1, <2>1, <2>5 DEF PollInv
    <3> QED BY <1>1, <2>1, <2>2, <2>5, <3>1 DEF PollInv
  <2> QED BY <2>3, <2>4, <2>5
<1>2. CASE User
  BY <1>2, UserFacts DEF PollInv
<1>3. CASE StartPoll
  <2>1. /\ dPc' = "head" /\ wr.lseq # dSeq /\ wr' = wr /\ cPc' = cPc /\ dSeq' = dSeq
        /\ mode' = mode /\ cursor' = cursor /\ shown' = shown
        /\ dRead' = [NothingRead EXCEPT !.seq = wr.lseq, !.whole = cPc \notin {"freqs", "seq"}]
    BY <1>3 DEF StartPoll, Reading, service
  <2>2. dRead'.seq = wr.lseq /\ (dRead'.whole <=> cPc \notin {"freqs", "seq"})
    BY <2>1 DEF NothingRead
  <2> QED BY <2>1, <2>2 DEF PollInv
<1>4. CASE ReadHead
  <2>1. /\ dPc = "head" /\ dPc' = "freqs" /\ wr' = wr /\ cPc' = cPc /\ dSeq' = dSeq
        /\ mode' = mode /\ cursor' = cursor /\ shown' = shown
        /\ dRead' = [dRead EXCEPT
               !.state = wr.state,
               !.count = IF wr.packed /\ wr.state # "live" THEN Rows ELSE wr.count,
               !.whole = dRead.whole /\ wr.state # "value"]
    BY <1>4 DEF ReadHead, Reading, service, Whole
  <2>2. /\ dRead'.seq = dRead.seq /\ dRead'.state = wr.state /\ (dRead'.whole => dRead.whole)
        /\ dRead'.count = IF wr.packed /\ wr.state # "live" THEN Rows ELSE wr.count
    BY <2>1 DEF Types
  <2>3. dRead'.state = "lists" => ~wr'.packed /\ dRead'.count = wr'.count
    BY <2>1, <2>2 DEF MailInv
  <2> QED BY <2>1, <2>2, <2>3 DEF PollInv
<1>5. CASE HeadUnanswered \/ ReadWords \/ WordsUnanswered
  <2>1. dPc' = "keys" /\ (mode' = "confirm" => mode = "confirm" /\ cursor' = cursor /\ shown'.count = shown.count)
    BY <1>5 DEF HeadUnanswered, ReadWords, WordsUnanswered, Types
  <2> QED BY <2>1 DEF PollInv
<1>6. CASE ReadFreqs
  <2>1. PICK unanswered \in SUBSET (1 .. dRead.count) :
          shown' = [shown EXCEPT
               !.count = dRead.count,
               !.freqs = [r \in Row |->
                   IF r > dRead.count \/ r \in unanswered \/ r > Len(wr.freqs)
                   THEN shown.freqs[r]
                   ELSE IF wr.kHz = (dRead.state = "lists") THEN wr.freqs[r] ELSE NoFreq],
               !.whole = dRead.whole /\ unanswered = {} /\ (mode = "add" => dRead.state = "lists")]
    BY <1>6 DEF ReadFreqs, Whole
  <2>2. /\ dPc = "freqs" /\ wr' = wr /\ cPc' = cPc /\ dSeq' = dRead.seq
        /\ cursor' \in (IF mode = "confirm" THEN 1 .. dRead.count ELSE {cursor})
        /\ IF dRead.state = "lists" THEN dPc' = "words" /\ mode' = mode /\ dRead' = dRead
           ELSE dPc' = "keys" /\ mode' = IF mode \in BackToLive THEN "live" ELSE mode
    BY <1>6 DEF ReadFreqs, Reading, service
  <2>3. /\ shown'.count = dRead.count
        /\ shown'.whole => dRead.whole /\ unanswered = {}
        /\ \A r \in Row : r <= dRead.count /\ r <= Len(wr.freqs) /\ unanswered = {} =>
              shown'.freqs[r] = IF wr.kHz = (dRead.state = "lists") THEN wr.freqs[r] ELSE NoFreq
    <3>1. dRead.count \in Row /\ Len(wr.freqs) \in Nat BY DEF Types
    <3>2. shown'.count = dRead.count /\ (shown'.whole => dRead.whole /\ unanswered = {})
      BY <2>1 DEF Types
    <3>3. shown'.freqs = [r \in Row |->
                   IF r > dRead.count \/ r \in unanswered \/ r > Len(wr.freqs)
                   THEN shown.freqs[r]
                   ELSE IF wr.kHz = (dRead.state = "lists") THEN wr.freqs[r] ELSE NoFreq]
      BY <2>1 DEF Types
    <3>4. ASSUME NEW r \in Row, r <= dRead.count, r <= Len(wr.freqs), unanswered = {}
          PROVE  shown'.freqs[r] = IF wr.kHz = (dRead.state = "lists") THEN wr.freqs[r] ELSE NoFreq
      BY <3>1, <3>3, <3>4 DEF Row
    <3> QED BY <3>2, <3>4
  <2>4. CASE dRead.state = "lists"
    <3>1. dPc' = "words" /\ mode' = mode /\ dRead' = dRead BY <2>2, <2>4
    <3>2. mode' = "confirm" => cursor' <= shown'.count
      BY <2>2, <2>3, <3>1 DEF Types, Row
    <3>3. shown'.whole /\ dRead'.whole =>
             /\ shown'.count = wr'.count
             /\ \A r \in Row : r <= shown'.count /\ r <= Len(wr'.freqs) =>
                   shown'.freqs[r] = IF wr'.kHz THEN wr'.freqs[r] ELSE NoFreq
      <4>1. wr.kHz \in BOOLEAN BY DEF Types
      <4>2. (wr.kHz = (dRead.state = "lists")) <=> wr.kHz BY <2>4, <4>1
      <4>3. dRead.whole => dRead.count = wr.count BY <2>2, <2>4 DEF PollInv
      <4> QED BY <2>2, <2>3, <3>1, <4>2, <4>3
    <3>4. /\ dRead'.whole => cPc' \notin {"freqs", "seq"} /\ wr'.lseq = dRead'.seq
          /\ dRead'.whole => ~wr'.packed /\ dRead'.count = wr'.count
          /\ dRead'.state = "lists" /\ dSeq' = dRead'.seq
      BY <2>2, <2>4, <3>1 DEF PollInv
    <3> QED BY ONLY <3>1, <3>2, <3>3, <3>4 DEF PollInv
  <2>5. CASE dRead.state # "lists"
    <3>1. dPc' = "keys" /\ mode' # "confirm" BY <2>2, <2>5 DEF BackToLive
    <3> QED BY <3>1 DEF PollInv
  <2> QED BY <2>4, <2>5
<1>7. CASE Take \/ Drop \/ UNCHANGED vars
  <2>1. UNCHANGED <<display, wr>> /\ (cPc' \in {"freqs", "seq"} => cPc' = cPc)
    BY <1>7 DEF Take, Drop, vars, service
  <2> QED BY <1>1, <2>1 DEF display
<1>8. CASE Restart
  <2>1. UNCHANGED <<display, wr>> /\ cPc' = "down" BY <1>8 DEF Restart
  <2> QED BY <1>1, <2>1 DEF display
<1>9. CASE Handle
  <2>1. /\ UNCHANGED display /\ cPc' \in {"idle", "head"}
        /\ wr' = wr \/ wr' = [wr EXCEPT !.state = "live"]
    BY <1>9, HandleFacts DEF Handled
  <2>2. /\ wr'.lseq = wr.lseq /\ wr'.packed = wr.packed /\ wr'.count = wr.count
        /\ wr'.freqs = wr.freqs /\ wr'.kHz = wr.kHz
    BY <2>1 DEF Types
  <2> QED BY <1>1, <2>1, <2>2 DEF display
<1>10. CASE WriteHead \/ WriteFreqs \/ WriteSequence \/ PushRow \/ Connect
  <2>1. PICK here \in {"head", "freqs", "seq", "idle", "down"}, next \in {"freqs", "seq", "idle", "head"} :
            /\ Writing(here, next)
            /\ next \in {"freqs", "seq"} => here \in {"head", "freqs"}
            /\ here \in {"idle", "down"} => wr' = [wr EXCEPT !.words = WaterfallWords]
                                            \/ wr' = [wr EXCEPT !.state = "live"]
    BY <1>10 DEF WriteHead, WriteFreqs, WriteSequence, PushRow, Connect
  <2>2. /\ cPc = here /\ cPc' = next /\ UNCHANGED <<mode, dSeq, dPc, shown, cursor>>
        /\ dRead' = [dRead EXCEPT !.whole = dRead.whole /\ (dPc = "keys" \/ here # "head")]
    BY <2>1 DEF Writing
  <2>3. dRead'.whole = (dRead.whole /\ (dPc = "keys" \/ here # "head")) BY <2>2 DEF Types
  <2>4. dRead' = [dRead EXCEPT !.whole = dRead'.whole] BY <2>2, <2>3
  <2>5. ASSUME dPc # "keys", dRead'.whole PROVE here \in {"idle", "down"}
    BY <2>1, <2>2, <2>3, <2>5 DEF PollInv
  <2>6. here \in {"idle", "down"} =>
            /\ wr'.lseq = wr.lseq /\ wr'.packed = wr.packed /\ wr'.count = wr.count
            /\ wr'.freqs = wr.freqs /\ wr'.kHz = wr.kHz
    BY <2>1 DEF Types
  <2>7. here \in {"idle", "down"} => next \notin {"freqs", "seq"} BY <2>1
  <2> QED BY <1>1, <2>2, <2>3, <2>4, <2>5, <2>6, <2>7
<1> QED
  BY <1>2, <1>3, <1>4, <1>5, <1>6, <1>7, <1>8, <1>9, <1>10 DEF Next, Service, PollList

\* A poll leaves the mailbox and the service as they are.
LEMMA PollsOnlyRead ==
    ASSUME PollList
    PROVE  UNCHANGED <<wr, wrCmd, service, sends, crashes>> /\ ~Caught
BY DEF PollList, StartPoll, ReadHead, HeadUnanswered, ReadFreqs, ReadWords, WordsUnanswered, Reading, Caught

\* The service writes a list on no page of its own but the lists page.
LEMMA WritesFacts ==
    ASSUME WriteHead \/ WriteFreqs \/ WriteSequence \/ PushRow \/ Connect, ListsInv
    PROVE  /\ UNCHANGED <<mode, dSeq, dPc, shown, cursor, wrCmd, taken, lists, events, sends, crashes>>
           /\ cPc # "handle" /\ taken.op = "none"
           /\ Still => ~listsMode
<1>1. /\ UNCHANGED <<mode, dSeq, dPc, shown, cursor, wrCmd, taken, lists, events, sends, crashes>>
      /\ cPc # "handle" /\ (cPc = "idle" => ~listsMode)
  BY DEF WriteHead, WriteFreqs, WriteSequence, PushRow, Connect, Writing
<1> QED BY <1>1 DEF ListsInv, Still

\* A page read whole stays the service's page until a command leaves it; Back
\* is the only one that can be on its way to it.
LEMMA PageStep ==
    Types /\ ListsInv /\ MailInv /\ PollInv /\ PageInv /\ [Next]_vars => PageInv'
<1> SUFFICES ASSUME Types, ListsInv, MailInv, PollInv, PageInv, [Next]_vars,
                    Fine', mode' \in LibraryPages, shown'.whole, dPc' # "words"
             PROVE  Together' \/ Apart'
  BY DEF PageInv
<1>0. Fine BY MildBefore
\* A page that was there before the step.
<1>1. ASSUME UNCHANGED <<shown, lists>>, mode \in LibraryPages, dPc # "words",
             wrCmd' = wrCmd, taken' = taken,
             Caught /\ Still /\ listsMode => Caught' /\ Still'
      PROVE  Together' \/ Apart'
  <2>1. UNCHANGED <<saved, live, listsMode, pageStart, shown>> BY <1>1 DEF lists
  <2>2. Page' = Page /\ PageWords' = PageWords BY <2>1, SamePage
  <2>3. shown.whole BY <2>1
  <2>4. Together \/ Apart BY <1>0, <1>1, <2>3 DEF PageInv
  <2>5. CASE Together
    <3>1. Caught' /\ Still' BY <1>1, <2>5 DEF Together
    <3>2. ShownPage' BY <2>1, <2>2, <2>5 DEF Together, ShownPage
    <3> QED BY <1>1, <2>1, <2>5, <3>1, <3>2 DEF Together
  <2>6. CASE Apart BY <1>1, <2>1, <2>6 DEF Apart
  <2> QED BY <2>4, <2>5, <2>6
<1>2. CASE User
  <2>1. /\ dPc = "keys" /\ UNCHANGED <<dSeq, dPc, shown, service>>
        /\ wr' = wr \/ wr' = [wr EXCEPT !.state = "value"]
        /\ QuietKey \/ SendingKey
    BY <1>2, UserFacts
  <2>2. QuietKey BY <2>1 DEF SendingKey
  <2>3. wrCmd' = wrCmd /\ wr' = wr /\ mode \in LibraryPages BY <2>2 DEF QuietKey
  <2> QED BY <1>1, <2>1, <2>3 DEF service, Caught, Still
<1>3. CASE StartPoll \/ HeadUnanswered \/ ReadHead
  <2>1. UNCHANGED <<mode, shown, wrCmd, service>> /\ dPc # "words" /\ ~Caught
    BY <1>3, PollsOnlyRead DEF StartPoll, HeadUnanswered, ReadHead, PollList
  <2> QED BY <1>1, <2>1 DEF service
<1>4. CASE ReadFreqs
  <2>1. /\ dPc' = "words" \/ (dRead.state # "lists" /\ mode' = (IF mode \in BackToLive THEN "live" ELSE mode))
    BY <1>4 DEF ReadFreqs
  <2>2. shown'.whole => (mode = "add" => dRead.state = "lists")
    BY <1>4 DEF ReadFreqs, Types
  <2> QED BY <2>1, <2>2 DEF BackToLive, LibraryPages
<1>5. CASE WordsUnanswered
  <2>1. ~shown'.whole BY <1>5 DEF WordsUnanswered, Types
  <2> QED BY <2>1
<1>6. CASE ReadWords
  <2>1. /\ dPc = "words" /\ dPc' = "keys" /\ dSeq' = dSeq
        /\ UNCHANGED <<wr, wrCmd, service>>
        /\ shown' = [shown EXCEPT !.inLive = wr.words.inLive, !.offset = wr.words.offset,
                              !.total = wr.words.total, !.whole = shown.whole /\ dRead.whole /\ ~Overtaken]
    BY <1>6 DEF ReadWords, Reading, Whole
  <2>2. /\ shown.whole /\ dRead.whole /\ ~Overtaken
        /\ shown'.freqs = shown.freqs /\ shown'.count = shown.count
        /\ shown'.inLive = wr.words.inLive /\ shown'.offset = wr.words.offset /\ shown'.total = wr.words.total
    BY <2>1 DEF Types
  <2>3. Ground(wrCmd.op) /\ Ground(taken.op) /\ cPc # "head"
    BY <2>2 DEF Overtaken, Ground
  <2>4. /\ cPc \notin {"freqs", "seq"} /\ wr.lseq = dRead.seq /\ dSeq = dRead.seq
        /\ ~wr.packed /\ shown.count = wr.count
        /\ \A r \in Row : r <= shown.count /\ r <= Len(wr.freqs) =>
                shown.freqs[r] = IF wr.kHz THEN wr.freqs[r] ELSE NoFreq
    BY <2>1, <2>2 DEF PollInv
  <2>5. UNCHANGED <<saved, live, listsMode, pageStart, taken, cPc, wrCmd>> BY <2>1 DEF service, lists
  <2>6. CASE ~listsMode BY <2>3, <2>5, <2>6 DEF Apart
  <2>7. CASE listsMode
    <3>1. Still BY <2>3, <2>4, <2>7 DEF Still, ListsInv, Types
    <3>2. saved # <<>> BY <1>0, <2>1, <2>4, <2>7 DEF MailInv, Caught
    <3>3. wr.kHz /\ wr.count = Len(Page) /\ wr.freqs = Page /\ wr.words = PageWords
      BY <2>7, <3>1, <3>2 DEF MailInv
    <3>4. Len(Page) \in Row BY <3>2, PageFacts
    <3>5. shown.count = Len(Page) /\ \A r \in 1 .. Len(Page) : shown.freqs[r] = Page[r]
      <4>1. shown.count = Len(Page) BY <2>4, <3>3
      <4>2. ASSUME NEW r \in 1 .. Len(Page) PROVE shown.freqs[r] = Page[r]
        <5>1. r \in Row /\ r <= shown.count /\ r <= Len(wr.freqs)
          BY <3>3, <3>4, <4>1, ViewsAssumption DEF Row
        <5>2. shown.freqs[r] = wr.freqs[r] BY <2>4, <3>3, <5>1
        <5> QED BY <3>3, <5>2
      <4> QED BY <4>1, <4>2
    <3>6. Page' = Page /\ PageWords' = PageWords BY <2>5, SamePage
    <3>7. wr.words.inLive = PageWords.inLive /\ wr.words.offset = pageStart /\ wr.words.total = Len(saved)
      BY <3>3 DEF PageWords
    <3>8. ShownPage' BY <2>2, <2>5, <3>5, <3>6, <3>7 DEF ShownPage
    <3>9. Caught' /\ Still' BY <2>1, <2>4, <2>5, <3>1 DEF Caught, Still
    <3> QED BY <2>3, <2>5, <2>7, <3>8, <3>9 DEF Together
  <2> QED BY <2>6, <2>7
<1>7. CASE Take
  <2>1. /\ cPc = "idle" /\ wrCmd # NoCommand /\ wrCmd' = NoCommand /\ cPc' = "handle"
        /\ UNCHANGED <<display, wr, lists>>
        /\ taken' = wrCmd \/ wrCmd.op = "add"
    BY <1>7 DEF Take
  <2>2. UNCHANGED <<saved, live, listsMode, pageStart, shown, dPc, dSeq, mode, wr>> BY <2>1 DEF display, lists
  <2>3. Page' = Page /\ PageWords' = PageWords BY <2>2, SamePage
  <2>4. Together \/ Apart BY <1>0, <2>2 DEF PageInv
  <2>5. Ground(wrCmd'.op) /\ Ground(taken'.op)
    <3>1. Ground(wrCmd.op) BY <2>4 DEF Together, Apart
    <3>2. wrCmd.op # "add" BY <3>1 DEF Ground
    <3> QED BY <2>1, <3>1, <3>2 DEF Ground, NoCommand
  <2>6. CASE Together
    <3>1. ShownPage' BY <2>2, <2>3, <2>6 DEF Together, ShownPage
    <3>2. Caught' /\ Still' BY <2>1, <2>2, <2>6 DEF Together, Caught, Still
    <3> QED BY <2>2, <2>5, <2>6, <3>1, <3>2 DEF Together
  <2>7. CASE Apart BY <2>2, <2>5, <2>7 DEF Apart
  <2> QED BY <2>4, <2>6, <2>7
<1>8. CASE Handle
  <2>1. /\ cPc = "handle" /\ taken' = NoCommand /\ UNCHANGED <<display, wrCmd>> /\ Handled
    BY <1>8, HandleFacts
  <2>2. Together \/ Apart BY <1>0, <2>1 DEF PageInv, display
  <2>3. taken.op = "back" /\ Ground(wrCmd.op)
    <3>1. Ground(taken.op) /\ Ground(wrCmd.op) BY <2>2 DEF Together, Apart
    <3>2. taken.op # "none" BY <2>1 DEF ListsInv
    <3> QED BY <3>1, <3>2 DEF Ground
  <2>4. ~listsMode' BY <2>1, <2>3 DEF Handled
  <2> QED BY <2>1, <2>3, <2>4 DEF Apart, Ground, NoCommand
<1>9. CASE WriteHead \/ WriteFreqs \/ WriteSequence \/ PushRow \/ Connect
  BY <1>1, <1>9, WritesFacts
<1>10. CASE Restart
  <2>1. UNCHANGED <<display, wrCmd>> /\ listsMode' = FALSE /\ taken' = NoCommand BY <1>10 DEF Restart
  <2>2. Together \/ Apart BY <1>0, <2>1 DEF PageInv, display
  <2> QED BY <2>1, <2>2 DEF Together, Apart, Ground, NoCommand
<1>11. CASE Drop
  <2>1. UNCHANGED <<display, wrCmd, taken, lists>> /\ ~listsMode BY <1>11 DEF Drop
  <2> QED BY <1>1, <2>1 DEF display
<1>12. CASE UNCHANGED vars
  <2>1. UNCHANGED <<display, wr, wrCmd, service>> BY <1>12 DEF vars
  <2> QED BY <1>1, <2>1 DEF display, service, Caught, Still
<1> QED
  BY <1>2, <1>3, <1>4, <1>5, <1>6, <1>7, <1>8, <1>9, <1>10, <1>11, <1>12 DEF Next, Service, PollList

\* What a row of a page read whole names.
LEMMA RowNames ==
    ASSUME Types, ListsInv, ShownPage, NEW op \in Ops, NEW r \in 1 .. shown.count
    PROVE  Matches(OnRow(op, r))
<1>1. shown.count \in Row /\ shown.count = Len(Page) /\ saved \in Seq(Freqs) /\ pageStart \in Nat
  BY DEF Types, ShownPage
<1>2. saved # <<>>
  <2> SUFFICES ASSUME saved = <<>> PROVE FALSE OBVIOUS
  <2>1. Least(pageStart + Rows, Len(saved)) = 0 /\ Rows \in Nat /\ Rows >= 1
    BY <1>1, ViewsAssumption DEF Least
  <2>2. Page = SubSeq(saved, pageStart + 1, 0)
    <3>1. Page = SubSeq(saved, pageStart + 1, Least(pageStart + Rows, Len(saved))) BY ONLY DEF Page
    <3> QED BY ONLY <2>1, <3>1
  <2>3. Len(Page) = 0 BY <1>1, <2>2
  <2> QED BY <1>1, <2>1, <2>3 DEF Row
<1>3. r \in 1 .. Len(Page) BY <1>1
<1>4. Page[r] = saved[pageStart + r] /\ pageStart + r <= Len(saved) BY <1>2, <1>3, PageFacts
<1>5. shown.freqs[r] = Page[r] /\ shown.inLive = {q \in DOMAIN Page : Page[q] \in Held(live)}
  BY DEF ShownPage, PageWords
<1>6. r \in DOMAIN Page BY <1>2, <1>3, PageFacts
<1> QED BY <1>4, <1>5, <1>6 DEF OnRow, Matches

\* A command is pressed on the service's page, and no other one turns it.
LEMMA PressStep ==
    Types /\ ListsInv /\ MailInv /\ PollInv /\ PageInv /\ PressInv /\ [Next]_vars => PressInv'
<1> SUFFICES ASSUME Types, ListsInv, MailInv, PollInv, PageInv, PressInv, [Next]_vars, "blind" \notin events'
             PROVE  /\ wrCmd'.op \in PageOps =>
                          Ground(taken'.op) /\ (listsMode' => Still' /\ Caught' /\ Matches(wrCmd)')
                    /\ taken'.op \in PageOps => (listsMode' => Caught' /\ Matches(taken)')
  BY DEF PressInv
<1>0. "blind" \notin events /\ Fine BY MildBefore DEF Fine
<1>1. /\ wrCmd.op \in PageOps =>
             Ground(taken.op) /\ (listsMode => Still /\ Caught /\ Matches(wrCmd))
      /\ taken.op \in PageOps => (listsMode => Caught /\ Matches(taken))
  BY <1>0 DEF PressInv
<1>2. ~Ground("none") => FALSE BY DEF Ground
<1>3. "none" \notin PageOps /\ NoCommand.op = "none" /\ \A op \in PageOps : ~Ground(op)
  BY DEF PageOps, NoCommand, Ground
\* The lists and both commands stay.
<1>4. ASSUME UNCHANGED <<saved, live, listsMode, pageStart, wrCmd, taken>>,
             Still /\ Caught /\ listsMode => Still', Caught /\ listsMode => Caught'
      PROVE  /\ wrCmd'.op \in PageOps =>
                   Ground(taken'.op) /\ (listsMode' => Still' /\ Caught' /\ Matches(wrCmd)')
             /\ taken'.op \in PageOps => (listsMode' => Caught' /\ Matches(taken)')
  <2>1. Matches(wrCmd)' = Matches(wrCmd) /\ Matches(taken)' = Matches(taken)
    BY <1>4 DEF Matches, Held
  <2> QED BY <1>1, <1>4, <2>1
<1>5. CASE User
  <2>1. /\ dPc = "keys" /\ UNCHANGED <<dSeq, dPc, dRead, shown, service, crashes>>
        /\ wr' = wr \/ wr' = [wr EXCEPT !.state = "value"]
        /\ QuietKey \/ SendingKey
    BY <1>5, UserFacts
  <2>2. UNCHANGED <<saved, live, listsMode, pageStart, taken, cPc>> BY <2>1 DEF service, lists
  <2>3. wr'.lseq = wr.lseq BY <2>1 DEF Types
  <2>4. (Caught' <=> Caught) /\ (Still' <=> Still) BY <2>1, <2>2, <2>3 DEF Caught, Still
  <2>5. CASE QuietKey BY <1>4, <2>2, <2>4, <2>5 DEF QuietKey
  <2>6. CASE SendingKey
    <3>1. taken'.op \in PageOps => (listsMode' => Caught' /\ Matches(taken)')
      <4>1. Matches(taken)' = Matches(taken) BY <2>2 DEF Matches, Held
      <4> QED BY <1>1, <2>2, <2>4, <4>1
    <3>2. ASSUME wrCmd'.op \in PageOps
          PROVE  Ground(taken'.op) /\ (listsMode' => Still' /\ Caught' /\ Matches(wrCmd)')
      <4>1. mode \in LibraryPages /\ shown.whole /\ \E r \in 1 .. shown.count : wrCmd' = OnRow(wrCmd'.op, r)
        BY <2>6, <3>2 DEF SendingKey
      <4>2. PICK r \in 1 .. shown.count : wrCmd' = OnRow(wrCmd'.op, r) BY <4>1
      <4>3. Together \/ Apart BY <1>0, <2>1, <4>1 DEF PageInv
      <4>4. CASE Apart BY <2>2, <4>4 DEF Apart
      <4>5. CASE Together
        <5>1. wrCmd'.op \in Ops BY <3>2 DEF Ops
        <5>2. Matches(OnRow(wrCmd'.op, r)) BY <4>5, <5>1, RowNames DEF Together
        <5>3. Matches(wrCmd') BY <4>2, <5>2
        <5>4. Matches(wrCmd)' BY <2>2, <5>3 DEF Matches, Held
        <5> QED BY <2>2, <2>4, <4>5, <5>4 DEF Together
      <4> QED BY <4>3, <4>4, <4>5
    <3> QED BY <3>1, <3>2
  <2> QED BY <2>1, <2>5, <2>6
<1>6. CASE PollList
  BY <1>4, <1>6, PollsOnlyRead DEF service, lists
<1>7. CASE Take
  <2>1. /\ wrCmd' = NoCommand /\ UNCHANGED <<display, wr, saved, live, listsMode, pageStart>>
        /\ taken' = wrCmd \/ taken' = [wrCmd EXCEPT !.op = "gray"]
    BY <1>7 DEF Take, lists
  <2>2. CASE taken' = wrCmd
    <3>1. Matches(taken)' = Matches(wrCmd) BY <2>1, <2>2 DEF Matches, Held
    <3>2. Caught' <=> Caught BY <2>1 DEF Caught, display
    <3> QED BY <1>1, <1>3, <2>1, <2>2, <3>1, <3>2
  <2>3. CASE taken' = [wrCmd EXCEPT !.op = "gray"]
    <3>1. taken'.op = "gray" BY <2>3 DEF Types, Command
    <3> QED BY <1>3, <2>1, <3>1 DEF PageOps
  <2> QED BY <2>1, <2>2, <2>3
<1>8. CASE Handle
  <2>1. /\ cPc = "handle" /\ taken' = NoCommand /\ wrCmd' = wrCmd /\ Handled
    BY <1>8, HandleFacts
  <2>2. wrCmd.op \in PageOps => taken.op = "back"
    BY <1>1, <2>1 DEF Ground, ListsInv
  <2> QED BY <1>2, <1>3, <2>1, <2>2 DEF Handled
<1>9. CASE WriteHead \/ WriteFreqs \/ WriteSequence \/ PushRow \/ Connect
  <2>1. UNCHANGED <<wrCmd, taken, lists>> /\ taken.op = "none" /\ (Still => ~listsMode)
    BY <1>9, WritesFacts
  <2>2. wrCmd.op \in PageOps => ~listsMode BY <1>1, <2>1
  <2> QED BY <1>2, <1>3, <2>1, <2>2 DEF lists
<1>10. CASE Restart
  BY <1>1, <1>2, <1>3, <1>10 DEF Restart
<1>11. CASE Drop
  <2>1. UNCHANGED <<wrCmd, taken, lists>> /\ ~listsMode BY <1>11 DEF Drop
  <2> QED BY <1>4, <2>1 DEF lists
<1>12. CASE UNCHANGED vars
  BY <1>4, <1>12 DEF vars, service, lists, display, Still, Caught
<1> QED
  BY <1>5, <1>6, <1>7, <1>8, <1>9, <1>10, <1>11, <1>12 DEF Next, Service

\* The Display's page follows the lists.
LEMMA ModeStep ==
    Types /\ ListsInv /\ MailInv /\ PollInv /\ ModeInv /\ [Next]_vars => ModeInv'
<1> SUFFICES ASSUME Types, ListsInv, MailInv, PollInv, ModeInv, [Next]_vars, Mild'
             PROVE  ModeInv'
  BY DEF ModeInv
<1>0. Mild BY MildBefore
<1>1. /\ cPc # "down" /\ cSeq = wr.lseq /\ dSeq <= cSeq /\ (dPc # "keys" => dRead.seq <= cSeq)
      /\ dPc \in {"head", "freqs"} => dSeq < dRead.seq
      /\ wr.lseq # dSeq \/ cPc \in {"freqs", "seq"} => (wr.state = "lists" <=> ~wr.packed)
      /\ dPc \in {"freqs", "words"} /\ dRead.seq = wr.lseq /\ cPc \notin {"freqs", "seq"} =>
            (dRead.state = "lists" <=> ~wr.packed)
      /\ Caught /\ cPc \notin {"freqs", "seq"} =>
            /\ wr.packed => mode \notin LibraryPages
            /\ ~wr.packed => mode \notin {"live", "page"}
      /\ wrCmd.op = "add" /\ wr.state = "value" => cPc \notin {"freqs", "seq"} /\ ~wr.packed
      /\ taken.op = "add" => listsMode
  BY <1>0 DEF ModeInv
<1>2. dSeq \in Nat /\ cSeq \in Nat /\ dRead.seq \in Nat /\ wr.lseq \in Nat /\ wr.packed \in BOOLEAN
  BY DEF Types
\* The mailbox, the service's sequence and what it handles stay.
<1>3. CASE User
  <2>1. /\ dPc = "keys" /\ UNCHANGED <<dSeq, dPc, dRead, shown, service, crashes>>
        /\ wr' = wr \/ wr' = [wr EXCEPT !.state = "value"]
        /\ QuietKey \/ SendingKey
    BY <1>3, UserFacts
  <2>2. wr'.lseq = wr.lseq /\ wr'.packed = wr.packed BY <2>1 DEF Types
  <2>3. UNCHANGED <<cPc, cSeq, taken, listsMode>> BY <2>1 DEF service, lists
  <2>4. Caught' <=> Caught BY <2>1, <2>2 DEF Caught
  <2>5. CASE QuietKey
    <3>1. /\ wr' = wr /\ wrCmd' = wrCmd /\ (mode' \in LibraryPages <=> mode \in LibraryPages)
          /\ (mode' \in {"live", "page"} <=> mode \in {"live", "page"})
      BY <2>5 DEF QuietKey
    <3>2. Caught' /\ cPc' \notin {"freqs", "seq"} =>
            /\ wr'.packed => mode' \notin LibraryPages
            /\ ~wr'.packed => mode' \notin {"live", "page"}
      BY ONLY <1>1, <2>3, <2>4, <3>1
    <3> QED BY <1>1, <2>1, <2>3, <3>1, <3>2 DEF ModeInv
  <2>6. CASE SendingKey
    <3>1. /\ mode' \notin LibraryPages /\ (mode' \in {"live", "page"} => mode' = mode)
          /\ wrCmd'.op = "add" => mode = "add"
          /\ wr' # wr \/ wrCmd'.op = "add" => cPc \notin {"freqs", "seq"} /\ wr.lseq = dSeq
      BY <2>6 DEF SendingKey, Mild
    <3>2. Caught' /\ cPc' \notin {"freqs", "seq"} =>
            /\ wr'.packed => mode' \notin LibraryPages
            /\ ~wr'.packed => mode' \notin {"live", "page"}
      BY ONLY <1>1, <2>2, <2>3, <2>4, <3>1
    <3>3. wr'.lseq # dSeq' \/ cPc' \in {"freqs", "seq"} => (wr'.state = "lists" <=> ~wr'.packed)
      BY ONLY <1>1, <2>1, <2>2, <2>3, <3>1
    <3>4. wrCmd'.op = "add" /\ wr'.state = "value" => cPc' \notin {"freqs", "seq"} /\ ~wr'.packed
      BY <1>1, <2>1, <2>2, <2>3, <3>1 DEF Caught, LibraryPages
    <3> QED BY <1>1, <2>1, <2>2, <2>3, <3>2, <3>3, <3>4 DEF ModeInv
  <2> QED BY <2>1, <2>5, <2>6
<1>4. CASE PollList
  <2>1. UNCHANGED <<wr, wrCmd, cPc, cSeq, taken, listsMode>> /\ ~Caught
    BY <1>4, PollsOnlyRead DEF service, lists
  <2> DEFINE A == /\ dSeq' <= cSeq /\ (dPc' # "keys" => dRead'.seq <= cSeq)
                  /\ dPc' \in {"head", "freqs"} => dSeq' < dRead'.seq
             B == wr.lseq # dSeq' => (wr.state = "lists" <=> ~wr.packed)
             C == dPc' \in {"freqs", "words"} /\ dRead'.seq = wr.lseq /\ cPc \notin {"freqs", "seq"} =>
                      (dRead'.state = "lists" <=> ~wr.packed)
             D == dPc' = "keys" /\ dSeq' = wr.lseq /\ cPc \notin {"freqs", "seq"} =>
                      /\ wr.packed => mode' \notin LibraryPages
                      /\ ~wr.packed => mode' \notin {"live", "page"}
  <2>2. SUFFICES A /\ B /\ C /\ D
    BY <1>1, <2>1 DEF ModeInv, Caught
  <2>3. CASE StartPoll
    <3>1. /\ dPc' = "head" /\ wr.lseq # dSeq /\ dSeq' = dSeq
          /\ dRead' = [NothingRead EXCEPT !.seq = wr.lseq, !.whole = cPc \notin {"freqs", "seq"}]
      BY <2>3 DEF StartPoll
    <3>2. dRead'.seq = wr.lseq BY <3>1 DEF NothingRead
    <3> QED BY <1>1, <1>2, <3>1, <3>2
  <2>4. CASE ReadHead
    <3>1. /\ dPc = "head" /\ dPc' = "freqs" /\ dSeq' = dSeq
          /\ dRead' = [dRead EXCEPT
               !.state = wr.state,
               !.count = IF wr.packed /\ wr.state # "live" THEN Rows ELSE wr.count,
               !.whole = dRead.whole /\ wr.state # "value"]
      BY <2>4 DEF ReadHead, Whole
    <3>2. dRead'.seq = dRead.seq /\ dRead'.state = wr.state BY <3>1 DEF Types
    <3> QED BY <1>1, <1>2, <3>1, <3>2
  <2>5. CASE HeadUnanswered
    <3>1. dPc = "head" /\ dPc' = "keys" /\ dSeq' = dSeq BY <2>5 DEF HeadUnanswered
    <3> QED BY <1>1, <1>2, <3>1
  <2>6. CASE ReadFreqs
    <3>1. /\ dPc = "freqs" /\ dSeq' = dRead.seq
          /\ IF dRead.state = "lists" THEN dPc' = "words" /\ mode' = mode /\ dRead' = dRead
             ELSE dPc' = "keys" /\ mode' = IF mode \in BackToLive THEN "live" ELSE mode
          /\ mode = "add" /\ dRead.state # "lists" => "passed over" \in events'
      BY <2>6 DEF ReadFreqs
    <3>2. mode = "add" => dRead.state = "lists" BY <3>1 DEF Mild
    <3>3. B
      <4>1. dSeq < dRead.seq /\ dRead.seq <= wr.lseq BY <1>1, <3>1
      <4>2. wr.lseq # dSeq BY ONLY <1>2, <4>1
      <4> QED BY <1>1, <4>2
    <3>4. CASE dRead.state = "lists" BY <1>1, <1>2, <3>1, <3>3, <3>4
    <3>5. CASE dRead.state # "lists"
      <4>1. mode' \notin LibraryPages BY <3>1, <3>2, <3>5 DEF BackToLive, LibraryPages
      <4> QED BY <1>1, <1>2, <3>1, <3>3, <3>5, <4>1
    <3> QED BY <3>4, <3>5
  <2>7. CASE ReadWords
    <3>1. dPc = "words" /\ dPc' = "keys" /\ dSeq' = dSeq /\ mode' = "lists" BY <2>7 DEF ReadWords
    <3>2. dRead.state = "lists" /\ dSeq = dRead.seq BY <3>1 DEF PollInv
    <3> QED BY <1>1, <1>2, <3>1, <3>2
  <2>8. CASE WordsUnanswered
    BY <2>8 DEF WordsUnanswered, Mild
  <2> QED BY <1>4, <2>3, <2>4, <2>5, <2>6, <2>7, <2>8 DEF PollList
<1>5. CASE Take
  <2>1. /\ cPc = "idle" /\ cPc' = "handle" /\ wrCmd' = NoCommand
        /\ UNCHANGED <<mode, dSeq, dPc, dRead, wr, cSeq, listsMode>>
        /\ taken' = IF wrCmd.op = "add" /\ wr.state # "value" THEN [wrCmd EXCEPT !.op = "gray"] ELSE wrCmd
    BY <1>5 DEF Take, display, lists
  <2>2. taken'.op = "add" => wrCmd.op = "add" /\ wr.state = "value"
    BY <2>1 DEF Types, Command
  <2>3. taken'.op = "add" => listsMode' BY <1>1, <2>1, <2>2 DEF MailInv, Still
  <2>4. Caught' <=> Caught BY <2>1 DEF Caught
  <2>5. wrCmd'.op # "add" BY <2>1 DEF NoCommand
  <2> QED BY <1>1, <2>1, <2>3, <2>4, <2>5 DEF ModeInv
<1>6. CASE Handle
  <2>1. /\ cPc = "handle" /\ taken' = NoCommand /\ UNCHANGED <<display, wrCmd, cSeq>> /\ Handled
    BY <1>6, HandleFacts
  <2>2. UNCHANGED <<mode, dSeq, dPc, dRead>> /\ taken'.op # "add" /\ cPc' \in {"idle", "head"}
    BY <2>1 DEF display, NoCommand, Handled
  <2>3. CASE wr' = wr
    <3>1. Caught' <=> Caught BY <2>2, <2>3 DEF Caught
    <3> QED BY <1>1, <2>1, <2>2, <2>3, <3>1 DEF ModeInv
  <2>4. CASE wr' = [wr EXCEPT !.state = "live"] /\ ~listsMode
    <3>1. wr.packed BY <2>1, <2>4 DEF MailInv, Still
    <3>2. wr'.state = "live" /\ wr'.packed = wr.packed /\ wr'.lseq = wr.lseq BY <2>4 DEF Types
    <3>3. Caught' <=> Caught BY <2>2, <3>2 DEF Caught
    <3> QED BY <1>1, <2>1, <2>2, <3>1, <3>2, <3>3 DEF ModeInv
  <2> QED BY <2>1, <2>3, <2>4 DEF Handled
<1>7. CASE WriteHead \/ WriteFreqs \/ WriteSequence \/ PushRow \/ Connect
  <2>1. /\ UNCHANGED <<mode, dSeq, dPc, shown, cursor, wrCmd, taken, lists, events, sends, crashes>>
        /\ taken.op = "none"
    BY <1>7, WritesFacts
  <2>2. UNCHANGED <<mode, dSeq, dPc, wrCmd>> /\ taken'.op # "add" BY <2>1
  <2>3. dRead'.seq = dRead.seq /\ dRead'.state = dRead.state
    BY <1>7 DEF WriteHead, WriteFreqs, WriteSequence, PushRow, Connect, Writing, Types
  <2>4. CASE WriteHead
    <3>1. /\ cPc' = "freqs" /\ cSeq' = cSeq
          /\ wr' = [wr EXCEPT !.state = IF listsMode THEN "lists" ELSE "live",
                        !.packed = ~listsMode,
                        !.count = Len(Published),
                        !.words = IF listsMode THEN PageWords ELSE wr.words]
      BY <2>4 DEF WriteHead, Writing
    <3>2. /\ wr'.state = (IF listsMode THEN "lists" ELSE "live") /\ wr'.packed = ~listsMode
          /\ wr'.lseq = wr.lseq
      BY <3>1 DEF Types
    <3>3. wr'.state # "value" /\ (wr'.state = "lists" <=> ~wr'.packed) BY <3>2 DEF Types
    <3> QED BY ONLY <1>1, <2>2, <2>3, <3>1, <3>2, <3>3 DEF ModeInv
  <2>5. CASE WriteFreqs
    <3>1. cPc = "freqs" /\ cPc' = "seq" /\ cSeq' = cSeq /\ wr' = [wr EXCEPT !.freqs = Published, !.kHz = listsMode]
      BY <2>5 DEF WriteFreqs, Writing
    <3>2. wr'.state = wr.state /\ wr'.packed = wr.packed /\ wr'.lseq = wr.lseq BY <3>1 DEF Types
    <3> QED BY ONLY <1>1, <2>2, <2>3, <3>1, <3>2 DEF ModeInv
  <2>6. CASE WriteSequence
    <3>1. cPc = "seq" /\ cPc' = "idle" /\ cSeq' = cSeq + 1 /\ wr' = [wr EXCEPT !.lseq = cSeq + 1]
      BY <2>6 DEF WriteSequence, Writing
    <3>2. wr'.state = wr.state /\ wr'.packed = wr.packed /\ wr'.lseq = cSeq + 1 BY <3>1 DEF Types
    <3>3. dSeq' <= cSeq' /\ (dPc' # "keys" => dRead'.seq <= cSeq') /\ dSeq' # wr'.lseq
      BY <1>1, <1>2, <2>2, <2>3, <3>1, <3>2
    <3>4. dPc' # "keys" => dRead'.seq # wr'.lseq
      BY <1>1, <1>2, <2>2, <2>3, <3>2
    <3>5. ~Caught' BY <3>3 DEF Caught
    <3> QED BY ONLY <1>1, <2>2, <2>3, <3>1, <3>2, <3>3, <3>4, <3>5 DEF ModeInv
  <2>7. CASE PushRow
    <3>1. cPc = "idle" /\ cPc' = "idle" /\ cSeq' = cSeq /\ wr' = [wr EXCEPT !.words = WaterfallWords]
      BY <2>7 DEF PushRow, Writing
    <3>2. wr'.state = wr.state /\ wr'.packed = wr.packed /\ wr'.lseq = wr.lseq BY <3>1 DEF Types
    <3>3. Caught' <=> Caught BY <2>2, <3>2 DEF Caught
    <3> QED BY ONLY <1>1, <2>2, <2>3, <3>1, <3>2, <3>3 DEF ModeInv
  <2>8. CASE Connect BY <1>1, <2>8 DEF Connect, Writing
  <2> QED BY <1>7, <2>4, <2>5, <2>6, <2>7, <2>8
<1>8. CASE Restart \/ Drop
  BY <1>8 DEF Restart, Drop, Mild
<1>9. CASE UNCHANGED vars
  <2>1. UNCHANGED <<mode, dSeq, dPc, dRead, wr, wrCmd, cPc, cSeq, taken, listsMode>>
    BY <1>9 DEF vars, display, service, lists
  <2>2. Caught' <=> Caught BY <2>1 DEF Caught
  <2> QED BY <1>1, <2>1, <2>2 DEF ModeInv
<1> QED
  BY <1>3, <1>4, <1>5, <1>6, <1>7, <1>8, <1>9 DEF Next, Service

-----------------------------------------------------------------------------
(* What follows *)

Safety == Types /\ ListsInv /\ MailInv /\ PollInv /\ PageInv /\ PressInv /\ ModeInv

\* A run starts on the receiver page, its Live list published.
LEMMA Starts == Init => Safety
<1> SUFFICES ASSUME Init PROVE Safety OBVIOUS
<1> DEFINE n == Len(Live0)
<1>1. /\ n \in Row /\ 1 \in Row /\ 1 \in 1 .. n /\ Rows \in Nat /\ 3 * Rows \in Nat
      /\ Live0 \in Seq(Freqs) /\ \A r \in Row : r <= n => Live0[r] \in Freqs
  BY ViewsAssumption DEF Row
<1>2. NoCommand \in Command /\ NoCommand.op = "none" BY <1>1 DEF NoCommand, Command
<1>3. dRead \in [seq : Nat, state : {"live", "lists", "value"}, count : Row, whole : BOOLEAN]
  BY <1>1 DEF Init, NothingRead
<1>4. shown \in [freqs : [Row -> Freqs \cup {NoFreq}], count : Row, inLive : SUBSET Row,
                 offset : Nat, total : Nat, whole : BOOLEAN]
  <2> DEFINE g == [r \in Row |-> IF r <= n THEN Live0[r] ELSE NoFreq]
  <2>1. g \in [Row -> Freqs \cup {NoFreq}] BY <1>1
  <2>2. shown = [freqs |-> g, count |-> n, inLive |-> {}, offset |-> 0, total |-> 0, whole |-> TRUE]
    BY DEF Init
  <2> HIDE DEF g
  <2> QED BY <1>1, <2>1, <2>2
<1>5. /\ wr.state = "live" /\ wr.packed = TRUE /\ wr.kHz = FALSE /\ wr.lseq = 1
      /\ wr \in [state : {"live", "lists", "value"}, packed : BOOLEAN, count : Row,
                 freqs : Seq(Freqs), kHz : BOOLEAN, lseq : Nat,
                 words : [inLive : SUBSET Row, offset : Nat, total : Nat]]
  <2>1. wr = [state |-> "live", packed |-> TRUE, count |-> n, freqs |-> Live0,
              kHz |-> FALSE, words |-> WaterfallWords, lseq |-> 1]
    BY DEF Init
  <2> QED BY <1>1, <2>1, WaterfallType
<1>6. /\ mode = "live" /\ dSeq = 1 /\ dPc = "keys" /\ cursor = 1 /\ wrCmd = NoCommand /\ taken = NoCommand
      /\ cPc = "idle" /\ cSeq = 1 /\ listsMode = FALSE /\ pageStart = 0
      /\ saved = Saved0 /\ live = Live0 /\ selected = 1 /\ events = {} /\ sends = 0 /\ crashes = 0
  BY DEF Init
<1>7. Types
  <2>1. Saved0 \in Seq(Freqs) BY ViewsAssumption
  <2> QED BY <1>1, <1>2, <1>3, <1>4, <1>5, <1>6, <2>1 DEF Types, Modes, LibraryPages, Events
<1>8. ListsInv
  <2>1. Held(Live0) \subseteq Held(Saved0) BY ViewsAssumption DEF Held
  <2>2. Distinct(Live0) BY ViewsAssumption DEF Distinct
  <2> QED BY <1>1, <1>2, <1>6, <2>1, <2>2 DEF ListsInv, WellFormed
<1>9. MailInv BY <1>5, <1>6 DEF MailInv, Still
<1>10. PollInv BY <1>6 DEF PollInv
<1>11. PageInv BY <1>6 DEF PageInv, LibraryPages
<1>12. PressInv BY <1>2, <1>6 DEF PressInv, PageOps
<1>13. ModeInv BY <1>2, <1>5, <1>6 DEF ModeInv, LibraryPages
<1> QED BY <1>7, <1>8, <1>9, <1>10, <1>11, <1>12, <1>13 DEF Safety

\* No step breaks the invariant.
LEMMA Stays == Safety /\ [Next]_vars => Safety'
BY TypesStep, ListsStep, MailStep, PollStep, PageStep, PressStep, ModeStep DEF Safety

\* The invariant holds in every state.
LEMMA SafetyHolds == Spec => []Safety
BY Starts, Stays, PTL DEF Spec

\* Every variable keeps its type: the mailbox holds frequencies, the Live
\* selection is on an entry of the list.
THEOREM TypeCorrect == Spec => []TypeOK
<1>1. Safety => TypeOK
  BY DEF Safety, Types, TypeOK, Events
<1> QED BY <1>1, SafetyHolds, PTL

\* A command that names a row acts on the frequency the row showed.
THEOREM ActsAsPressed == Spec => []ActsOnWhatWasShown
<1>1. Safety => ActsOnWhatWasShown
  <2> SUFFICES ASSUME Safety, taken.op \in PageOps, listsMode, "blind" \notin events
               PROVE  /\ Index # 0 /\ Entry = taken.f
                      /\ taken.op = "toggle" => taken.inLive = (Entry \in Held(live))
    BY DEF ActsOnWhatWasShown
  <2>1. Types /\ Matches(taken) BY DEF Safety, PressInv
  <2>2. /\ pageStart + taken.row <= Len(saved) /\ saved[pageStart + taken.row] = taken.f
        /\ taken.op = "toggle" => taken.inLive = (taken.f \in Held(live))
    BY <2>1 DEF Matches
  <2>3. Index = pageStart + taken.row BY <2>1, <2>2, IndexFacts
  <2>4. pageStart \in Nat /\ taken.row >= 1 /\ taken.row \in Nat BY <2>1 DEF Types, Command, Row
  <2>5. Index # 0 BY <2>3, <2>4
  <2>6. Entry = taken.f BY <2>2, <2>3 DEF Entry
  <2> QED BY <2>2, <2>5, <2>6
<1> QED BY <1>1, SafetyHolds, PTL

\* With nothing on its way, the Display and the service are on the same page.
THEOREM ViewsMeet == Spec => []ViewsAgree
<1>1. Safety => ViewsAgree
  <2> SUFFICES ASSUME Safety, Settled, events \subseteq {"replaced", "blind"}
               PROVE  /\ mode \in {"live", "page"} => ~listsMode
                      /\ mode \in LibraryPages => listsMode
                      /\ listsMode /\ mode # "loading" /\ shown.whole =>
                            /\ SubSeq(shown.freqs, 1, shown.count) = Page
                            /\ shown.inLive = PageWords.inLive
                            /\ shown.offset = pageStart /\ shown.total = Len(saved)
    BY DEF ViewsAgree
  <2>1. /\ cPc = "idle" /\ wrCmd = NoCommand /\ dPc = "keys" /\ dSeq = wr.lseq /\ Mild /\ Fine
        /\ Types /\ ListsInv /\ MailInv /\ PollInv /\ PageInv /\ ModeInv
    BY DEF Settled, Safety, Mild, Fine
  <2>2. saved # <<>>
    <3>1. Held(live) \subseteq Held(saved) /\ Len(live) \in Row /\ live \in Seq(Freqs)
      BY <2>1 DEF ListsInv, Types
    <3>2. 1 \in DOMAIN live BY <3>1, ViewsAssumption DEF Row
    <3> QED BY <3>1, <3>2 DEF Held
  <2>3. wr.packed = ~listsMode /\ listsMode \in BOOLEAN
    BY <2>1, <2>2 DEF MailInv, Still, Types
  <2>4. /\ wr.packed => mode \notin LibraryPages
        /\ ~wr.packed => mode \notin {"live", "page"}
    BY <2>1 DEF ModeInv, Caught
  <2>5. ASSUME listsMode, mode # "loading", shown.whole
        PROVE  /\ SubSeq(shown.freqs, 1, shown.count) = Page
               /\ shown.inLive = PageWords.inLive
               /\ shown.offset = pageStart /\ shown.total = Len(saved)
    <3>1. mode \in LibraryPages BY <2>1, <2>3, <2>4, <2>5 DEF Types, Modes
    <3>2. ShownPage BY <2>1, <2>5, <3>1 DEF PageInv, Together, Apart
    <3>3. SubSeq(shown.freqs, 1, shown.count) = Page
      <4> DEFINE s == shown.freqs
                 c == shown.count
                 t == SubSeq(s, 1, c)
      <4>1. s \in [1 .. Rows -> Freqs \cup {NoFreq}] /\ c \in 1 .. Rows /\ Rows \in Nat
        BY <2>1, ViewsAssumption DEF Types, Row
      <4>2. s \in Seq(Freqs \cup {NoFreq}) /\ Len(s) = Rows BY <4>1
      <4>3. Page \in Seq(Freqs) /\ Len(Page) = c /\ \A r \in 1 .. c : s[r] = Page[r]
        BY <2>1, <2>2, <3>2, PageFacts DEF ShownPage
      <4> HIDE DEF s, c
      <4>4. t \in Seq(Freqs \cup {NoFreq}) /\ Len(t) = c /\ \A r \in 1 .. c : t[r] = s[r]
        BY <4>1, <4>2
      <4> HIDE DEF t
      <4>5. Page \in Seq(Freqs \cup {NoFreq}) BY <4>3
      <4>6. t = Page BY <4>3, <4>4, <4>5, SeqEqual
      <4> QED BY <4>6 DEF t, s, c
    <3> QED BY <3>2, <3>3 DEF ShownPage
  <2> QED BY <2>3, <2>4, <2>5 DEF LibraryPages
<1> QED BY <1>1, SafetyHolds, PTL

=============================================================================
