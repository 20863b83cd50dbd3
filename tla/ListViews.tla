----------------------------- MODULE ListViews -----------------------------
(***************************************************************************)
(* The pages of the Display and the lists the CM0 publishes for them:      *)
(* main.c's UI modes and poll_list, and app.py's lists_mode with the two   *)
(* publications of NativeSignalDisplay, build and build_library.           *)
(*                                                                         *)
(* A command names a row of the page on the Display; the CM0 takes it for  *)
(* a row of its own page.  Nothing but the order of commands and lists     *)
(* keeps the two the same.  wr_cmd is one word with the last command: it   *)
(* is here until the CM0 takes it (CommandChannel has the sequences,       *)
(* retries and acknowledgements that make it so).  A publication writes    *)
(* its signals one after the other and wr_lseq last; poll_list reads       *)
(* wr_lseq first and the others after it.                                  *)
(***************************************************************************)
EXTENDS Naturals, Sequences, FiniteSets, Subsequences

CONSTANTS Freqs,       \* frequencies, without the number below
          NoFreq,      \* a number that is no frequency of any list
          Rows,        \* MAX_LIST_ENTRIES, MAX_FREQS: rows of a page, and the Live limit
          LibraryMax,  \* the library's limit
          Saved0,      \* the library and the Live list a run starts with
          Live0,
          MaxSends,    \* bound: commands sent
          MaxCrashes   \* bound: restarts of the service

Row == 1 .. Rows
PageOps == {"toggle", "delete", "tune"}
Ops == PageOps \cup {"lists", "prev", "next", "back", "add", "gray", "select", "refresh", "quiet"}
NoCommand == [op |-> "none", row |-> 1, f |-> NoFreq, inLive |-> FALSE]
\* f and inLive say what the user saw: the frequency and the LIVE badge of the
\* row (for "add": the frequency typed).  The CM0 reads op and row only.
Command == [op : Ops \cup {"none"}, row : Row, f : Freqs \cup {NoFreq}, inLive : BOOLEAN]

\* The service starts with a Live list that validate() accepts, in a library
\* its constructor has completed from it (app.py 99).
ASSUME ViewsAssumption ==
    /\ NoFreq \notin Freqs
    /\ Rows \in Nat \ {0} /\ LibraryMax \in Nat \ {0}
    /\ Saved0 \in Seq(Freqs) /\ Live0 \in Seq(Freqs) /\ Len(Live0) \in Row
    /\ \A i \in DOMAIN Live0 : \E j \in DOMAIN Saved0 : Saved0[j] = Live0[i]
    /\ \A i, j \in DOMAIN Live0 : Live0[i] = Live0[j] => i = j
    /\ MaxSends \in Nat /\ MaxCrashes \in Nat

VARIABLES
    mode,     \* s_ui_mode, pages that differ for no list grouped (below)
    dSeq,     \* s_list_seq
    dPc,      \* "keys" or where poll_list is
    dRead,    \* poll_list's sequence, the state and count it has read, and Whole (history)
    shown,    \* s_freqs, s_count, s_library_live_mask, s_library_offset and _total
    cursor,   \* s_cursor while a deletion is confirmed
    wr,       \* the list signals of the mailbox
    wrCmd,    \* wr_cmd while the CM0 has not taken it
    cPc,      \* the service: "down", "connect", "idle", "handle", or writing
    cSeq,     \* _list_sequence
    taken,    \* the command being handled
    listsMode, pageStart,    \* lists_mode, library_page_start
    saved, live, selected,   \* saved_frequencies, frequency_list, selected
    events,   \* history: what happened that a page may not recover from
    sends, crashes

display == <<mode, dSeq, dPc, dRead, shown, cursor>>
lists == <<listsMode, pageStart, saved, live, selected>>
service == <<cPc, cSeq, taken, lists>>
vars == <<display, wr, wrCmd, service, events, sends, crashes>>

\* "live": the receiver pages (live, startup, status, refresh, fault), whose
\* keys fall through to the same switch; "page": settings, messages and their
\* pages, which a Live list leaves alone.
LibraryPages == {"lists", "confirm", "add"}
Modes == LibraryPages \cup {"live", "page", "loading"}

-----------------------------------------------------------------------------
(* Lists and pages *)

Held(s) == {s[i] : i \in DOMAIN s}
Position(s, f) == CHOOSE i \in DOMAIN s : s[i] = f
Without(s, i) == SubSeq(s, 1, i - 1) \o SubSeq(s, i + 1, Len(s))
InsertAfter(s, i, f) == SubSeq(s, 1, i) \o <<f>> \o SubSeq(s, i + 1, Len(s))
Least(a, b) == IF a <= b THEN a ELSE b

\* The first index (from 0) of the page a position (from 1) is on.
PageOf(i) == IF i = 0 THEN 0 ELSE ((i - 1) \div Rows) * Rows
LastPage(s) == PageOf(Len(s))

\* The entries a publication sends: a page of the library, or the Live list.
Page == SubSeq(saved, pageStart + 1, Least(pageStart + Rows, Len(saved)))
Published == IF listsMode THEN Page ELSE live

\* Row words of the waterfall, read as library metadata.
WaterfallWords == [inLive |-> Row, offset |-> Rows, total |-> 3 * Rows]

PageWords == [inLive |-> {r \in DOMAIN Page : Page[r] \in Held(live)},
              offset |-> pageStart, total |-> Len(saved)]

-----------------------------------------------------------------------------
(* The Display's keys.  Up, Down and taps reach every row of a page, so a    *)
(* key acts on some row; what it sends replaces what wr_cmd holds.           *)

SendWith(c, harm) ==
    /\ sends < MaxSends
    /\ sends' = sends + 1
    /\ wrCmd' = c
    /\ events' = events \cup harm
                  \cup (IF wrCmd = NoCommand THEN {} ELSE {"replaced"})
                  \cup (IF mode \in LibraryPages /\ ~shown.whole THEN {"blind"} ELSE {})
    /\ UNCHANGED <<service, crashes>>

Send(c) == SendWith(c, {})

\* A command with a value (add, threshold) leaves it in wr_state first, where
\* the state of a list still to be read may be.
SendValue(c) ==
    /\ SendWith(c, IF cPc \in {"freqs", "seq"} \/ wr.lseq # dSeq THEN {"unstated"} ELSE {})
    /\ wr' = [wr EXCEPT !.state = "value"]

Plain(op) == [NoCommand EXCEPT !.op = op]
OnRow(op, r) == [op |-> op, row |-> r, f |-> shown.freqs[r], inLive |-> r \in shown.inLive]

Keys(m) == dPc = "keys" /\ mode = m
Show(m) == mode' = m /\ UNCHANGED <<dSeq, dPc, dRead, shown>>
Quietly == UNCHANGED <<wr, wrCmd, service, events, sends, crashes>>

OpenLists ==
    /\ Keys("live")
    /\ Send(Plain("lists"))
    /\ Show("loading")
    /\ UNCHANGED <<cursor, wr>>

\* Green, Blue, the D-pad and taps tune an absolute row; Red refreshes.
LiveKeys ==
    /\ Keys("live")
    /\ \/ \E r \in 1 .. shown.count : Send(OnRow("select", r))
       \/ Send(Plain("refresh"))
    /\ UNCHANGED <<display, wr>>

\* Settings and messages: in, out, and their own commands (threshold, span,
\* CW, clear), which no list depends on.
OpenPage == Keys("live") /\ Show("page") /\ Quietly /\ UNCHANGED cursor
ClosePage == Keys("page") /\ Show("live") /\ Quietly /\ UNCHANGED cursor
PageKeys ==
    /\ Keys("page")
    /\ \/ SendValue(Plain("quiet"))
       \/ Send(Plain("quiet")) /\ UNCHANGED wr
    /\ UNCHANGED display

ListsKeys ==
    /\ Keys("lists")
    /\ \/ \E r \in 1 .. shown.count, op \in {"toggle", "tune"} : Send(OnRow(op, r))
       \/ shown.offset > 0 /\ Send(Plain("prev"))
       \/ shown.offset + shown.count < shown.total /\ Send(Plain("next"))
       \/ Send(Plain("back"))
    /\ Show("loading")
    /\ UNCHANGED <<cursor, wr>>

AskDelete ==
    /\ Keys("lists")
    /\ \E r \in 1 .. shown.count : cursor' = r
    /\ Show("confirm") /\ Quietly

ConfirmDelete ==
    /\ Keys("confirm")
    /\ Send(OnRow("delete", cursor))
    /\ Show("loading")
    /\ cursor' = 1 /\ UNCHANGED wr

CancelDelete == Keys("confirm") /\ Show("lists") /\ cursor' = 1 /\ Quietly

BeginAdd == Keys("lists") /\ Show("add") /\ Quietly /\ UNCHANGED cursor
CancelAdd == Keys("add") /\ Show("lists") /\ Quietly /\ UNCHANGED cursor

CommitAdd ==
    /\ Keys("add")
    /\ \E f \in Freqs : SendValue([Plain("add") EXCEPT !.f = f])
    /\ Show("loading")
    /\ UNCHANGED cursor

\* Gray or Back while a page is loading: "RETURNING TO LIVE".
BackWhileLoading ==
    /\ Keys("loading")
    /\ Send(Plain("back"))
    /\ UNCHANGED <<display, wr>>

-----------------------------------------------------------------------------
(* poll_list *)

NothingRead == [seq |-> 0, state |-> "live", count |-> 1, whole |-> TRUE]

\* No publication was under way when the sequence was read, and none has begun
\* since (WriteHead): what is read belongs to the sequence read.
Whole == dRead.whole

\* A later command than the one this list answers is on its way; its own list
\* will find the Display on another page than its loading page.  (Back brings
\* no library page.)
Overtaken == {wrCmd.op, taken.op} \ {"none", "back"} # {} \/ cPc = "head"

Reading == UNCHANGED <<wr, wrCmd, service, sends, crashes>>

StartPoll ==
    /\ dPc = "keys" /\ wr.lseq # dSeq
    /\ dPc' = "head"
    /\ dRead' = [NothingRead EXCEPT !.seq = wr.lseq, !.whole = cPc \notin {"freqs", "seq"}]
    /\ UNCHANGED <<mode, dSeq, shown, cursor, events>> /\ Reading

\* wr_state, wr_count, wr_sel.  In a Live list the count is packed with three
\* settings, unpacked only when the state says so.
ReadHead ==
    /\ dPc = "head"
    /\ dPc' = "freqs"
    /\ dRead' = [dRead EXCEPT
           !.state = wr.state,
           !.count = IF wr.packed /\ wr.state # "live" THEN Rows
                     ELSE wr.count,
           !.whole = Whole /\ wr.state # "value"]
    /\ UNCHANGED <<mode, dSeq, shown, cursor, events>> /\ Reading

\* One of the three is not answered: nothing has changed, the next poll retries.
HeadUnanswered ==
    /\ dPc = "head"
    /\ dPc' = "keys"
    /\ dRead' = NothingRead
    /\ UNCHANGED <<mode, dSeq, shown, cursor, events>> /\ Reading

\* The library pages a Live list brings back to Live: all but New Frequency,
\* whose Red key still leads to the lists page.
\* Mutant: not from the question whether to delete.
NotTheQuestion == {"lists", "loading"}
BackToLive == {"lists", "loading", "confirm"}

\* wr_f0 .. wr_f15 and the commit of the poll.  A number in the other list's
\* unit is no frequency; a row whose read is not answered, or is 0, keeps what
\* it showed before.
ReadFreqs ==
    /\ dPc = "freqs"
    /\ \E unanswered \in SUBSET (1 .. dRead.count) :
        /\ Cardinality(unanswered) <= 1
        /\ shown' = [shown EXCEPT
               !.count = dRead.count,
               !.freqs = [r \in Row |->
                   IF r > dRead.count \/ r \in unanswered \/ r > Len(wr.freqs)
                   THEN shown.freqs[r]
                   ELSE IF wr.kHz = (dRead.state = "lists") THEN wr.freqs[r] ELSE NoFreq],
               !.whole = Whole /\ unanswered = {} /\ (mode = "add" => dRead.state = "lists")]
    /\ dSeq' = dRead.seq
    /\ cursor' \in (IF mode = "confirm" THEN 1 .. dRead.count ELSE {cursor})
    /\ IF dRead.state = "lists"
       THEN dPc' = "words" /\ UNCHANGED <<mode, dRead>>
       ELSE /\ dPc' = "keys" /\ dRead' = NothingRead
            /\ mode' = IF mode \in BackToLive THEN "live" ELSE mode
    /\ events' = events \cup (IF mode = "add" /\ dRead.state # "lists" THEN {"passed over"} ELSE {})
    /\ Reading

\* wr_row0, wr_row1, wr_row2: the badges, the offset and the total of a library
\* page, which every page of the Display makes way for.
ReadWords ==
    /\ dPc = "words"
    /\ shown' = [shown EXCEPT !.inLive = wr.words.inLive, !.offset = wr.words.offset,
                              !.total = wr.words.total, !.whole = @ /\ Whole /\ ~Overtaken]
    /\ mode' = "lists" /\ cursor' = 1
    /\ dPc' = "keys" /\ dRead' = NothingRead
    /\ UNCHANGED <<dSeq, events>> /\ Reading

\* One of them is not answered: the list is taken, the page never drawn.
WordsUnanswered ==
    /\ dPc = "words"
    /\ dPc' = "keys" /\ dRead' = NothingRead
    /\ shown' = [shown EXCEPT !.whole = FALSE]
    /\ events' = events \cup {"unread"}
    /\ UNCHANGED <<mode, dSeq, cursor>> /\ Reading

-----------------------------------------------------------------------------
(* The service: _handle_action *)

\* An add whose value is no longer in wr_state runs as the old Gray key.
Take ==
    /\ cPc = "idle" /\ wrCmd # NoCommand
    /\ taken' = IF wrCmd.op = "add" /\ wr.state # "value"
                THEN [wrCmd EXCEPT !.op = "gray"] ELSE wrCmd
    /\ wrCmd' = NoCommand
    /\ cPc' = "handle"
    /\ UNCHANGED <<display, wr, cSeq, lists, events, sends, crashes>>

Handling(op) == cPc = "handle" /\ taken.op = op
Done == taken' = NoCommand /\ UNCHANGED <<display, wrCmd, cSeq, events, sends, crashes>>
Publish == cPc' = (IF listsMode' /\ saved' = <<>> THEN "idle" ELSE "head")
Idle == cPc' = "idle"

\* Mutant: the page's start is forgotten.
IndexOnFirstPage == IF taken.row <= Len(saved) THEN taken.row ELSE 0

\* The position of the row in the library, 0 when the page has no such row.
Index == IF pageStart + taken.row <= Len(saved) THEN pageStart + taken.row ELSE 0
Entry == saved[Index]

HandleLists ==
    /\ \/ Handling("lists")
       \/ Handling("gray") /\ ~listsMode
    /\ listsMode' = TRUE
    /\ pageStart' = IF live[selected] \in Held(saved)
                    THEN PageOf(Position(saved, live[selected])) ELSE 0
    /\ Done /\ UNCHANGED <<saved, live, selected, wr>>
    /\ Publish

\* Mutant: Back clears lists_mode without publishing the Live list.
BackUnpublished ==
    /\ Handling("back") \/ Handling("gray")
    /\ listsMode
    /\ listsMode' = FALSE
    /\ Done /\ UNCHANGED <<pageStart, saved, live, selected, wr>>
    /\ Idle

HandleBack ==
    /\ Handling("back") \/ Handling("gray")
    /\ listsMode
    /\ listsMode' = FALSE
    /\ Done /\ UNCHANGED <<pageStart, saved, live, selected, wr>>
    /\ Publish

HandlePaging ==
    /\ listsMode
    /\ \/ /\ Handling("prev")
          /\ pageStart' = IF pageStart >= Rows THEN pageStart - Rows ELSE 0
       \/ /\ Handling("next")
          /\ pageStart' = IF pageStart + Rows < Len(saved) THEN pageStart + Rows
                          ELSE Least(pageStart, LastPage(saved))
    /\ Done /\ UNCHANGED <<listsMode, saved, live, selected, wr>>
    /\ Publish

\* The Live list loses position i; the selection stays on its entry or moves to
\* the one that takes its place.
HandleToggle ==
    /\ Handling("toggle") /\ listsMode /\ Index # 0
    /\ \/ /\ Entry \in Held(live) /\ Len(live) > 1
          /\ LET i == Position(live, Entry)
             IN  /\ live' = Without(live, i)
                 /\ selected' = IF i < selected THEN selected - 1
                                ELSE Least(selected, Len(live) - 1)
       \/ /\ Entry \notin Held(live) /\ Len(live) < Rows
          /\ live' = Append(live, Entry) /\ UNCHANGED selected
       \/ /\ Len(live) = (IF Entry \in Held(live) THEN 1 ELSE Rows)
          /\ UNCHANGED <<live, selected>>
    /\ Done /\ UNCHANGED <<listsMode, pageStart, saved, wr>>
    /\ Publish

HandleDelete ==
    /\ Handling("delete") /\ listsMode /\ Index # 0
    /\ IF Entry \in Held(live) /\ Len(live) = 1
       THEN UNCHANGED <<live, selected, saved, pageStart>>
       ELSE /\ live' = IF Entry \in Held(live) THEN Without(live, Position(live, Entry)) ELSE live
            /\ selected' = Least(selected, Len(live'))
            /\ saved' = Without(saved, Index)
            /\ pageStart' = PageOf(Least(Index, Len(saved')))
    /\ Done /\ UNCHANGED <<listsMode, wr>>
    /\ Publish

HandleTune ==
    /\ Handling("tune") /\ listsMode /\ Index # 0
    /\ IF Entry \notin Held(live) /\ Len(live) >= Rows
       THEN UNCHANGED <<live, selected, listsMode>>
       ELSE /\ live' = IF Entry \in Held(live) THEN live ELSE Append(live, Entry)
            /\ selected' = Position(live', Entry)
            /\ listsMode' = FALSE
    /\ Done /\ UNCHANGED <<pageStart, saved, wr>>
    /\ Publish

\* On the lists page: into the library, whose last page is shown.
AddToLibrary ==
    /\ Handling("add") /\ listsMode
    /\ IF Len(saved) >= LibraryMax \/ taken.f \in Held(saved)
       THEN UNCHANGED <<saved, pageStart>>
       ELSE saved' = Append(saved, taken.f) /\ pageStart' = LastPage(saved')
    /\ Done /\ UNCHANGED <<listsMode, live, selected, wr>>
    /\ Publish

\* Otherwise: into the Live list, after the selected entry, and tuned.
AddToLive ==
    /\ Handling("add") /\ ~listsMode
    /\ IF Len(live) >= Rows \/ taken.f \in Held(live)
       THEN Idle /\ UNCHANGED <<live, selected>>
       ELSE /\ live' = InsertAfter(live, selected, taken.f)
            /\ selected' = selected + 1
            /\ cPc' = "head"
    /\ Done /\ UNCHANGED <<listsMode, pageStart, saved, wr>>

\* Mutant: the row is not checked against the Live list.
SelectUnchecked ==
    /\ Handling("select")
    /\ selected' = taken.row
    /\ Idle /\ Done /\ UNCHANGED <<listsMode, pageStart, saved, live, wr>>

HandleSelect ==
    /\ Handling("select")
    /\ selected' = IF taken.row <= Len(live) THEN taken.row ELSE selected
    /\ Idle /\ Done /\ UNCHANGED <<listsMode, pageStart, saved, live, wr>>

HandleRefresh ==
    /\ Handling("refresh") /\ ~listsMode
    /\ wr' = [wr EXCEPT !.state = "live"]
    /\ cPc' = "head" /\ Done /\ UNCHANGED lists

\* What changes no list and publishes none: page commands outside the lists
\* page, a row the page does not have, Refresh on the lists page.
HandleNothing ==
    /\ cPc = "handle"
    /\ \/ taken.op = "quiet"
       \/ taken.op \in PageOps \cup {"prev", "next", "back"} /\ ~listsMode
       \/ taken.op \in PageOps /\ listsMode /\ Index = 0
       \/ taken.op = "refresh" /\ listsMode
    /\ Idle /\ Done /\ UNCHANGED <<lists, wr>>

-----------------------------------------------------------------------------
(* The service: publications, rows, restarts *)

Writing(here, next) ==
    /\ cPc = here /\ cPc' = next
    /\ dRead' = [dRead EXCEPT !.whole = @ /\ (dPc = "keys" \/ here # "head")]
    /\ UNCHANGED <<mode, dSeq, dPc, shown, cursor, wrCmd, taken, lists, events, sends, crashes>>

WriteHead ==
    /\ Writing("head", "freqs")
    /\ wr' = [wr EXCEPT !.state = IF listsMode THEN "lists" ELSE "live",
                        !.packed = ~listsMode,
                        !.count = Len(Published),
                        !.words = IF listsMode THEN PageWords ELSE @]
    /\ UNCHANGED cSeq

WriteFreqs ==
    /\ Writing("freqs", "seq")
    /\ wr' = [wr EXCEPT !.freqs = Published, !.kHz = listsMode]
    /\ UNCHANGED cSeq

WriteSequence ==
    /\ Writing("seq", "idle")
    /\ cSeq' = cSeq + 1
    /\ wr' = [wr EXCEPT !.lseq = cSeq + 1]

\* A row of the waterfall, in the words of the library page.
PushRow ==
    /\ Writing("idle", "idle") /\ ~listsMode
    /\ wr' = [wr EXCEPT !.words = WaterfallWords]
    /\ UNCHANGED cSeq

\* connect(), then the first build of the new instance.
Connect ==
    /\ Writing("down", "head")
    /\ wr' = [wr EXCEPT !.state = "live"]
    /\ UNCHANGED cSeq

\* Any exception ends the service; the lists are in their files, the rest is
\* not.  A Live entry the library lacks is appended to it at the next start.
Restart ==
    /\ crashes < MaxCrashes /\ cPc # "down"
    /\ crashes' = crashes + 1
    /\ events' = events \cup {"restarted"}
    /\ cPc' = "down" /\ cSeq' = 0 /\ taken' = NoCommand
    /\ listsMode' = FALSE /\ pageStart' = 0 /\ selected' = 1
    /\ saved' = saved \o Picked(live, {i \in DOMAIN live : live[i] \notin Held(saved)})
    /\ UNCHANGED <<display, wr, wrCmd, live, sends>>

\* A row that is not written drops the adapter: the next one starts over at
\* sequence 0 with the lists the service has.
Drop ==
    /\ crashes < MaxCrashes /\ cPc = "idle" /\ ~listsMode
    /\ crashes' = crashes + 1
    /\ events' = events \cup {"restarted"}
    /\ cPc' = "down" /\ cSeq' = 0
    /\ UNCHANGED <<display, wr, wrCmd, taken, lists, sends>>

-----------------------------------------------------------------------------

Init ==
    /\ mode = "live" /\ dSeq = 1 /\ dPc = "keys" /\ cursor = 1
    /\ dRead = NothingRead
    /\ shown = [freqs |-> [r \in Row |-> IF r <= Len(Live0) THEN Live0[r] ELSE NoFreq],
                count |-> Len(Live0), inLive |-> {}, offset |-> 0, total |-> 0,
                whole |-> TRUE]
    /\ wr = [state |-> "live", packed |-> TRUE, count |-> Len(Live0), freqs |-> Live0,
             kHz |-> FALSE, words |-> WaterfallWords, lseq |-> 1]
    /\ wrCmd = NoCommand /\ taken = NoCommand
    /\ cPc = "idle" /\ cSeq = 1
    /\ listsMode = FALSE /\ pageStart = 0
    /\ saved = Saved0 /\ live = Live0 /\ selected = 1
    /\ events = {} /\ sends = 0 /\ crashes = 0

User == OpenLists \/ LiveKeys \/ OpenPage \/ ClosePage \/ PageKeys \/ ListsKeys \/ AskDelete
        \/ ConfirmDelete \/ CancelDelete \/ BeginAdd \/ CancelAdd \/ CommitAdd
        \/ BackWhileLoading

PollList == StartPoll \/ ReadHead \/ HeadUnanswered \/ ReadFreqs \/ ReadWords \/ WordsUnanswered

Handle == HandleLists \/ HandleBack \/ HandlePaging \/ HandleToggle \/ HandleDelete
          \/ HandleTune \/ AddToLibrary \/ AddToLive \/ HandleSelect \/ HandleRefresh
          \/ HandleNothing

Service == Take \/ Handle \/ WriteHead \/ WriteFreqs \/ WriteSequence \/ Connect

Next == User \/ PollList \/ Service \/ PushRow \/ Restart \/ Drop

\* The main loop of the Display polls every 250 ms, that of the service takes
\* a command every time round; a read that keeps being asked is answered.
Fairness == WF_vars(Service) /\ WF_vars(PollList) /\ SF_vars(ReadHead)

Spec == Init /\ [][Next]_vars /\ Fairness

-----------------------------------------------------------------------------
(* Properties *)

TypeOK ==
    /\ mode \in Modes /\ dPc \in {"keys", "head", "freqs", "words"}
    /\ dSeq \in Nat /\ cursor \in Row
    /\ dRead \in [seq : Nat, state : {"live", "lists", "value"}, count : Row,
                 whole : BOOLEAN]
    /\ shown \in [freqs : [Row -> Freqs \cup {NoFreq}], count : Row, inLive : SUBSET Row,
                  offset : Nat, total : Nat, whole : BOOLEAN]
    /\ wr.state \in {"live", "lists", "value"} /\ wr.freqs \in Seq(Freqs)
    /\ wrCmd \in Command /\ taken \in Command
    /\ cPc \in {"down", "idle", "handle", "head", "freqs", "seq"}
    /\ saved \in Seq(Freqs) /\ live \in Seq(Freqs) /\ selected \in 1 .. Len(live)
    /\ events \subseteq {"replaced", "unread", "restarted", "passed over", "unstated", "blind"}

\* A toggle, a confirmed deletion or a tune acts on the frequency its row
\* showed, and a toggle removes what bore the LIVE badge and adds what did not,
\* whatever page changes, torn reads and restarts lie between the press and the
\* CM0; unless a key was pressed on a page that was not read whole: a read was
\* not answered, the poll met the next publication, a later command was already
\* on its way when the page came up, or the list is the Live one.
ActsOnWhatWasShown ==
    cPc = "handle" /\ taken.op \in PageOps /\ listsMode /\ "blind" \notin events =>
        /\ Index # 0
        /\ Entry = taken.f
        /\ taken.op = "toggle" => taken.inLive = (Entry \in Held(live))

\* Nothing on its way between the two sides.
Settled == cPc = "idle" /\ wrCmd = NoCommand /\ dPc = "keys" /\ dSeq = wr.lseq

\* Once everything on its way has arrived, a Display on a receiver or settings
\* page never leaves the service on the lists page, where it sends no rows, and
\* the library page on the Display is the page the CM0 takes rows from; unless
\* the service restarted (its list sequence starts over), a read was not
\* answered, a Live list passed over the New Frequency page, or a value took the
\* place of a list's state before it was read.
ViewsAgree ==
    Settled /\ events \subseteq {"replaced", "blind"} =>
        /\ mode \in {"live", "page"} => ~listsMode
        /\ mode \in LibraryPages => listsMode
        /\ listsMode /\ mode # "loading" /\ shown.whole =>
            /\ SubSeq(shown.freqs, 1, shown.count) = Page
            /\ shown.inLive = PageWords.inLive
            /\ shown.offset = pageStart /\ shown.total = Len(saved)

\* A page that is loading comes up, or Live does, also when Back is pressed
\* before it is there; unless the command it waits for was replaced before the
\* CM0 took it, the service restarted, the last words of its list were not
\* answered, or the CM0 was off the lists page when New Frequency was committed
\* (a refused value is then answered by no list).
LoadingEnds ==
    mode = "loading" ~>
        \/ mode # "loading"
        \/ events \cap {"replaced", "restarted", "unread", "passed over"} # {}

=============================================================================
