-------------------------- MODULE FrequencyLibrary --------------------------
(***************************************************************************)
(* The CM0 service's two frequency lists: the Live hunt list (at most 16   *)
(* entries, one of them selected and tuned) and the Saved library (at most *)
(* 100 entries, shown in pages of 16).  Both are kept on disk, each in a   *)
(* file of its own that is replaced atomically.                            *)
(*                                                                         *)
(* A command first changes the lists in memory and then performs its       *)
(* writes one by one, in the order of the code: the two files, the         *)
(* receiver, the Display's mailbox.  The service may die before any of     *)
(* them; systemd starts it again from the files.                           *)
(***************************************************************************)
EXTENDS Naturals, Sequences, FiniteSets, Subsequences

CONSTANTS
    Freqs,      \* the frequencies used in one history
    Spans,      \* the receiver spans (ALLOWED_SPANS_HZ)
    LiveMax,    \* entries in the Live list (16)
    SavedMax,   \* entries in the Saved library (100)
    Page        \* rows of a library page (16)

ASSUME LibraryAssumption ==
    /\ LiveMax \in Nat \ {0}
    /\ SavedMax \in Nat \ {0}
    /\ Page \in Nat \ {0}
    /\ Spans # {}

VARIABLES
    live,       \* frequency_list.frequencies
    selected,   \* selected, counted from 1
    saved,      \* saved_frequencies
    listsMode,  \* lists_mode
    page,       \* library_page_start
    todo,       \* the writes the current command still has to make
    tuned,      \* the entry the receiver was started on
    shown,      \* the view last published to the Display
    diskLive,   \* the list file
    diskLib,    \* the library file
    marks       \* history: "added_live", "torn", see Restart and AddLive

lists == <<live, selected, saved>>
view  == <<listsMode, page>>
disk  == <<diskLive, diskLib>>
vars  == <<lists, view, todo, tuned, shown, disk, marks>>

-----------------------------------------------------------------------------

Entry == [f : Freqs, span : Spans]
Write == {"list", "library", "tune", "build", "publish", "sel"}

FreqsOf(s) == {s[i].f : i \in DOMAIN s}
FreqSeq(s) == [i \in DOMAIN s |-> s[i].f]
WithSpan(e, s) == [f |-> e.f, span |-> s]
Distinct(s) == \A i, j \in DOMAIN s : s[i].f = s[j].f => i = j
Without(s, i) == SubSeq(s, 1, i - 1) \o SubSeq(s, i + 1, Len(s))
InsertAfter(s, i, e) == SubSeq(s, 1, i) \o <<e>> \o SubSeq(s, i + 1, Len(s))
IndexOf(s, f) == CHOOSE i \in DOMAIN s : s[i].f = f
Least(a, b) == IF a <= b THEN a ELSE b

\* The page an index (from 1) falls on, as an offset.
PageOf(i) == ((i - 1) \div Page) * Page

LiveView ==
    [mode |-> "live", rows |-> FreqSeq(live), member |-> {}, offset |-> 0,
     total |-> 0, sel |-> selected]

LibraryView(offset) ==
    LET window == SubSeq(FreqSeq(saved), offset + 1, Least(offset + Page, Len(saved)))
    IN  [mode |-> "library", rows |-> window,
         member |-> FreqsOf(live) \cap {window[i] : i \in DOMAIN window},
         offset |-> offset, total |-> Len(saved), sel |-> 0]

\* load_or_seed and the constructor: the library file, then every Live entry
\* it does not hold.  Only SavedMax of them are written back.
Missing(lib, list) == Picked(list, {i \in DOMAIN list : list[i].f \notin FreqsOf(lib)})
Seeded(lib, list) == lib \o Missing(lib, list)
Kept(s) == SubSeq(s, 1, Least(Len(s), SavedMax))

TypeOK ==
    /\ live \in Seq(Entry) /\ saved \in Seq(Entry)
    /\ diskLive \in Seq(Entry) /\ diskLib \in Seq(Entry)
    /\ selected \in Nat
    /\ listsMode \in BOOLEAN
    /\ page \in Nat
    /\ todo \in Seq(Write)
    /\ tuned \in Entry
    /\ shown.mode \in {"live", "library"}
    /\ marks \subseteq {"added_live", "torn"}

\* The service starts with a valid list file and a library file that holds
\* at least its frequencies.
Init ==
    /\ live \in {s \in UNION {[1 .. n -> Entry] : n \in 1 .. LiveMax} : Distinct(s)}
    /\ saved = live
    /\ Len(saved) <= SavedMax
    /\ selected = 1
    /\ listsMode = FALSE
    /\ page = 0
    /\ todo = <<>>
    /\ tuned = live[1]
    /\ shown = LiveView
    /\ diskLive = live
    /\ diskLib = saved
    /\ marks = {}

-----------------------------------------------------------------------------
(* Live mode and the selection *)

\* The next command is polled when the writes of the last one are done.
Idle == todo = <<>>

Unsaved == UNCHANGED <<tuned, shown, disk>>

\* select:<n>, NEXT, PREV and the signals SIGUSR1/2 (_apply_pending_selection)
Select(i) ==
    /\ Idle
    /\ i \in DOMAIN live
    /\ selected' = i
    /\ todo' = <<"tune", "sel">>
    /\ UNCHANGED <<live, saved, view, marks>> /\ Unsaved

\* red in Live mode
Refresh ==
    /\ Idle /\ ~listsMode
    /\ todo' = <<"tune", "build">>
    /\ UNCHANGED <<lists, listsMode, page, marks>> /\ Unsaved

\* Mutant: only the Live entry gets the span.
SavedWithoutSpan(s) == saved

SavedWithSpan(s) ==
    [i \in DOMAIN saved |->
        IF saved[i].f = live[selected].f THEN WithSpan(saved[i], s) ELSE saved[i]]

\* The span of the selected entry, in both lists.
SetSpan(s) ==
    /\ Idle
    /\ live[selected].span # s
    /\ live' = [live EXCEPT ![selected] = WithSpan(@, s)]
    /\ saved' = SavedWithSpan(s)
    /\ todo' = <<"list", "library", "tune">>
    /\ UNCHANGED <<selected, view, marks>> /\ Unsaved

\* add:<f> outside the library: after the selected entry, which it becomes.
\* The Display offers Add on its lists page, but nothing here asks for that.
AddLive(f) ==
    /\ Idle /\ ~listsMode
    /\ Len(live) < LiveMax
    /\ f \notin FreqsOf(live)
    /\ selected' = selected + 1
    /\ live' = InsertAfter(live, selected, [f |-> f, span |-> live[selected].span])
    /\ todo' = <<"build", "tune", "list">>
    /\ marks' = marks \cup {"added_live"}
    /\ UNCHANGED <<saved, listsMode, page>> /\ Unsaved

-----------------------------------------------------------------------------
(* Library mode *)

ShowLists ==
    /\ Idle
    /\ listsMode' = TRUE
    /\ page' = IF live[selected].f \in FreqsOf(saved)
               THEN PageOf(IndexOf(saved, live[selected].f)) ELSE 0
    /\ todo' = <<"publish">>
    /\ UNCHANGED <<lists, marks>> /\ Unsaved

\* library_back and gray
ShowLive ==
    /\ Idle /\ listsMode
    /\ listsMode' = FALSE
    /\ todo' = <<"build">>
    /\ UNCHANGED <<lists, page, marks>> /\ Unsaved

\* Mutant: the first page is not the lowest.
PrevPageUnclamped == page - Page

PrevPage == IF page < Page THEN 0 ELSE page - Page

TurnPage ==
    /\ Idle /\ listsMode
    /\ \/ page' = PrevPage
       \/ page' = IF page + Page < Len(saved) THEN page + Page ELSE page
    /\ todo' = <<"publish">>
    /\ UNCHANGED <<lists, listsMode, marks>> /\ Unsaved

\* A command that names a row: the saved entry it stands for on this page.
Row(r) == Idle /\ listsMode /\ r \in 1 .. Page /\ page + r <= Len(saved)
At(r) == saved[page + r]

\* The command is refused with a notice and the page published again.
Refused ==
    /\ todo' = <<"publish">>
    /\ UNCHANGED <<lists, view, marks>> /\ Unsaved

\* Mutant: the selection stays at its index, whichever entry that is now.
SelectedWithoutAtIndex(i) == Least(selected, Len(live) - 1)

\* The selection once Live entry i is toggled off.
SelectedWithout(i) ==
    IF i < selected THEN selected - 1 ELSE Least(selected, Len(live) - 1)

\* Mutant: the list file is not written.
ToggledUnsaved == <<"publish">>

Toggled == <<"list", "publish">>

\* library_toggle of a Live row: the selection moves with its entry.
ToggleOff(r) ==
    /\ Row(r) /\ At(r).f \in FreqsOf(live)
    /\ LET i == IndexOf(live, At(r).f)
       IN  IF Len(live) <= 1 THEN Refused
           ELSE /\ live' = Without(live, i)
                /\ selected' = SelectedWithout(i)
                /\ todo' = IF i = selected THEN <<"tune", "list", "publish">> ELSE Toggled
                /\ UNCHANGED <<saved, view, marks>> /\ Unsaved

\* library_toggle of a row that is not in Live
ToggleOn(r) ==
    /\ Row(r) /\ At(r).f \notin FreqsOf(live)
    /\ IF Len(live) >= LiveMax THEN Refused
       ELSE /\ live' = Append(live, At(r))
            /\ todo' = Toggled
            /\ UNCHANGED <<selected, saved, view, marks>> /\ Unsaved

\* Mutants: a deleted last entry stays selected; Live keeps a deleted entry;
\* the receiver is not retuned.
SelectedAfterDeleteUnclamped == selected
LiveAfterDeleteKept(f) == live
DeletedUntuned == <<"list", "library", "publish">>

SelectedAfterDelete == Least(selected, Len(live) - 1)
LiveAfterDelete(f) == Without(live, IndexOf(live, f))
Deleted == <<"tune", "list", "library", "publish">>

\* library_delete: from Live (unless it is the last one there) and from Saved.
Delete(r) ==
    /\ Row(r)
    /\ IF At(r).f \in FreqsOf(live) /\ Len(live) <= 1 THEN Refused
       ELSE /\ IF At(r).f \in FreqsOf(live)
               THEN /\ live' = LiveAfterDelete(At(r).f)
                    /\ selected' = SelectedAfterDelete
                    /\ todo' = Deleted
               ELSE /\ todo' = <<"library", "publish">>
                    /\ UNCHANGED <<live, selected>>
            /\ saved' = Without(saved, page + r)
            /\ page' = IF saved' = <<>> THEN 0 ELSE PageOf(Least(page + r, Len(saved')))
            /\ UNCHANGED <<listsMode, marks>> /\ Unsaved

\* library_tune: into Live if necessary, selected, and back to the waterfall.
Tune(r) ==
    /\ Row(r)
    /\ IF At(r).f \in FreqsOf(live)
       THEN /\ selected' = IndexOf(live, At(r).f)
            /\ listsMode' = FALSE
            /\ todo' = <<"tune", "build">>
            /\ UNCHANGED <<live, saved, page, marks>> /\ Unsaved
       ELSE IF Len(live) >= LiveMax THEN Refused
       ELSE /\ live' = Append(live, At(r))
            /\ selected' = Len(live')
            /\ listsMode' = FALSE
            /\ todo' = <<"list", "tune", "build">>
            /\ UNCHANGED <<saved, page, marks>> /\ Unsaved

\* add:<f> in the library: at its end, with the span of the selected entry.
AddSaved(f) ==
    /\ Idle /\ listsMode
    /\ IF Len(saved) >= SavedMax \/ f \in FreqsOf(saved) THEN Refused
       ELSE /\ saved' = Append(saved, [f |-> f, span |-> live[selected].span])
            /\ page' = PageOf(Len(saved'))
            /\ todo' = <<"library", "publish">>
            /\ UNCHANGED <<live, selected, listsMode, marks>> /\ Unsaved

-----------------------------------------------------------------------------
(* The writes of a command, and a new life of the service *)

LibraryFits == Len(saved) <= SavedMax /\ Distinct(saved)

\* ListStore.save and FrequencyLibraryStore.save: os.replace of a whole file
DoList ==
    /\ todo # <<>> /\ Head(todo) = "list"
    /\ diskLive' = live
    /\ todo' = Tail(todo)
    /\ UNCHANGED <<lists, view, tuned, shown, diskLib, marks>>

DoLibrary ==
    /\ todo # <<>> /\ Head(todo) = "library"
    /\ LibraryFits
    /\ diskLib' = saved
    /\ todo' = Tail(todo)
    /\ UNCHANGED <<lists, view, tuned, shown, diskLive, marks>>

\* sdr.start(entry)
DoTune ==
    /\ todo # <<>> /\ Head(todo) = "tune"
    /\ tuned' = live[selected]
    /\ todo' = Tail(todo)
    /\ UNCHANGED <<lists, view, shown, disk, marks>>

DoBuild ==
    /\ todo # <<>> /\ Head(todo) = "build"
    /\ shown' = LiveView
    /\ todo' = Tail(todo)
    /\ UNCHANGED <<lists, view, tuned, disk, marks>>

\* _publish_library: an empty library publishes nothing.
DoPublish ==
    /\ todo # <<>> /\ Head(todo) = "publish"
    /\ IF saved = <<>> THEN UNCHANGED <<page, shown>>
       ELSE /\ page' = Least(page, PageOf(Len(saved)))
            /\ shown' = LibraryView(page')
    /\ todo' = Tail(todo)
    /\ UNCHANGED <<lists, listsMode, tuned, disk, marks>>

\* Mutant: the selection is not published.
DoSelUnpublished ==
    /\ todo # <<>> /\ Head(todo) = "sel"
    /\ todo' = Tail(todo)
    /\ UNCHANGED <<lists, view, tuned, shown, disk, marks>>

\* update_selection
DoSel ==
    /\ todo # <<>> /\ Head(todo) = "sel"
    /\ shown' = IF shown.mode = "live" THEN [shown EXCEPT !.sel = selected] ELSE shown
    /\ todo' = Tail(todo)
    /\ UNCHANGED <<lists, view, tuned, disk, marks>>

\* The service dies, at any write or between commands (a library that does not
\* fit raises ValueError and always ends it here), and is started again: both
\* files are read, the library is completed from the list.
Restart ==
    /\ live' = diskLive
    /\ selected' = 1
    /\ saved' = Seeded(diskLib, diskLive)
    /\ diskLib' = Kept(saved')
    /\ listsMode' = FALSE
    /\ page' = 0
    /\ todo' = <<"tune", "build">>
    /\ marks' = IF todo # <<>> /\ Head(todo) = "library" THEN marks \cup {"torn"} ELSE marks
    /\ UNCHANGED <<tuned, shown, diskLive>>

-----------------------------------------------------------------------------

Command ==
    \/ \E i \in 1 .. LiveMax : Select(i)
    \/ Refresh
    \/ \E s \in Spans : SetSpan(s)
    \/ \E f \in Freqs : AddLive(f) \/ AddSaved(f)
    \/ ShowLists \/ ShowLive \/ TurnPage
    \/ \E r \in 1 .. Page : ToggleOff(r) \/ ToggleOn(r) \/ Delete(r) \/ Tune(r)

DoWrite == DoList \/ DoLibrary \/ DoTune \/ DoBuild \/ DoPublish \/ DoSel

Next == Command \/ DoWrite \/ Restart

Spec == Init /\ [][Next]_vars

-----------------------------------------------------------------------------
(* Properties *)

\* The Live list always has 1..LiveMax different frequencies and the selection
\* points into it, in memory and after any restart: self.entry never raises.
LiveUsable ==
    /\ Len(live) \in 1 .. LiveMax /\ Distinct(live)
    /\ selected \in 1 .. Len(live)
    /\ Len(diskLive) \in 1 .. LiveMax /\ Distinct(diskLive)

\* Between commands the receiver captures the entry the selection points to,
\* with its span, however entries were added, moved and removed around it.
ReceiverOnSelected == Idle => tuned = live[selected]

\* Toggling another frequency in or out of Live never moves the receiver: what
\* is selected stays selected unless the command tunes, deletes or removes it.
ToggleKeepsSelection ==
    [][(saved' = saved /\ listsMode /\ listsMode' /\ live' # live)
         => LET f == live[selected].f
            IN  f \in FreqsOf(live') => live'[selected'].f = f]_vars

\* Every frequency in Live can be found in the library, unless one was added
\* to Live outside it.
LiveIsSaved == "added_live" \notin marks => FreqsOf(live) \subseteq FreqsOf(saved)

\* A frequency has one span: taking it out of Live and back, or restarting,
\* does not change it, unless a restart came between the two files.
OneSpan ==
    marks = {} =>
        \A i \in DOMAIN live, j \in DOMAIN saved :
            live[i].f = saved[j].f => live[i].span = saved[j].span

\* When a command is done nothing of it can be lost: the files hold the lists
\* (the library as much of it as it may hold).
Durable == Idle => diskLive = live /\ diskLib = Kept(saved)

\* When a command is done the Display was given the view it left, so that the
\* row the user sees is the row the next command means.
ShownIsCurrent ==
    Idle /\ (listsMode => saved # <<>>) =>
        IF listsMode THEN shown = LibraryView(page) ELSE shown = LiveView

=============================================================================
