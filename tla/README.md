# WaveRider (freewili-foxhunt): TLA+ models, checks and proofs

WaveRider turns a FREE-WILi into a hand-held signal hunter. A Python service on
the CM0 (Linux) processor tunes an RTL-SDR, computes waterfall rows and decodes
Morse; a native C app on the Display processor draws them and reads the
buttons. The two never talk directly: the *Main* processor keeps a mailbox of
32 named "app signals" (`wr_cmd`, `wr_ack`, `wr_seq`, ...), each holding one
number, which both sides set and poll. There are no transactions, no
notification and no order other than the one each writer keeps, and any of the
three processors can restart while the others go on. This directory models the
protocols that live on that mailbox, and the data the service keeps behind them.

Paths below are those of the repository: `src/freewili_foxhunt/*.py` (service)
and `native/waverider_display/main.c` (Display app).

## 1. Inventory

| Part | State | Operations | Correct when |
|---|---|---|---|
| Display command sender (`main.c` `send_command`, `retry_pending_command`, start-up resume) | `s_cmd_seq`, one pending word | number, write, rewrite every 50 ms, confirm | a press is delivered once, in order, with its own value, or visibly replaced; it always settles |
| CM0 display adapter (`display.py` `NativeSignalDisplay`) | `_last_command_sequence`, row and list sequences, published tuning, queued message frames | connect (cold/warm), build, poll_action, push_waterfall, show_message, build_library | survives reconnects; publishes the sequence last |
| Main mailbox (firmware, external) | 32 values | set, get, create | survives both clients, lost when Main resets |
| Service main loop (`app.py` `FoxhuntApp`) | Live list, selection, library, page, `lists_mode`, messages | ~25 actions, display drop and retry | the receiver, the lists, the files and the Display agree |
| Stores (`store.py`) | JSON files replaced atomically | load, seed, save, observe, clear | a crash loses at most the command in progress |
| Display feed (`main.c` `poll_frame`, `receive_message_chunk`) | last row sequence, staging buffer, message history | poll, take a row or a chunk | shows what was sent last; assembles only messages that were sent |
| Display user interface (`main.c` buttons, touch, `poll_list`) | mode, cursor, list, page | mode changes, selection | never stuck, never acts on another row than it shows |
| SDR threads (`rtl_iq.py`) | bounded queues, device, stop event | read, process, start, stop | no thread outlives its device; nothing of one tuning is taken under another; a dead capture is noticed (not always: see the divergences) |
| Morse decoder (`morse.py`) | window framing, debouncer, marks and gaps, speed | feed IQ, feed window, finish message, reset | publishes what was keyed or nothing; its clock is time on the air |
| Message store (`store.py`, drain in `app.py`) | records with variants and counts, one file | observe, save, load, clear, replay | every reception counts once; only repeated texts are shown; the file always loads |
| Transport (`cm0_transport.py`) | socket, two queues | send, wait, batch | a reply belongs to its request |
| Bridge recovery (`bridge_recovery.py`, `main.c` `recover_bridge_link`) | failure timers | reset Main, release a shell route | acts only on a dead link |
| Pocket alert, haptics, LEDs (`main.c`) | armed/fired state, timers | sample, fire | one alert per crossing |
| Spectrum (`rtl_iq.py` FFT, `spectrum.py`) | smoothed range | pure signal processing | - |
| Live deployment (`tools/fw2_deploy_live_fix.py`, `serial_put.py`) | installed, staged and backed-up files, the service | inhibit, stop, back up, put, install, roll back, start, check | modules whole, one version, the old one back after a failure |
| Control scripts (`bin/foxhuntctl`, `bin/foxhunt-guard`) | boot settings, service enablement | switch profile, guard | always a way back to the maintenance console |

How they interact: buttons -> `wr_cmd` -> service -> lists, files, receiver ->
mailbox -> Display. Rows and messages go the other way without any flow control.
The service is one loop (`app.py` 856-1043) plus two SDR threads; the Display is
one loop with several timers. systemd restarts the service after five seconds.

What is hard: retries racing acknowledgements; sequences that restart with a
process and values that survive it; signals read one by one while they are being
rewritten; signals that mean different things at different times (`wr_state` is
a view number *and* a command's value, `wr_freq` a frequency *and* a chunk
header); commands that make several writes and may die between them; indices
used across a removal. `PROJECT.json` lists each hazard at its line.

## 2. Modules

| Module | Role |
|---|---|
| `CommandDelivery` | what a button press is promised, without the mailbox |
| `CommandChannel` | the sequence/acknowledge protocol of button commands, both ends and the mailbox |
| `CommandChannelProofs` | its theorems |
| `FrequencyLibrary` | the Live list and the Saved library: commands, their writes, restarts |
| `FrequencyLibraryProofs` | its theorems |
| `RowFeed` | waterfall rows and message chunks on the shared row signals, message history |
| `RowFeedProofs` | its theorems |
| `ListViews` | the Display's pages, `poll_list`, and the lists the CM0 publishes for them |
| `ListViewsProofs` | its theorems |
| `IqStream` | the receiver's reader and processor threads, their queues, start, stop and close |
| `MorseDecoder` | blocks, windows, marks and gaps, the speed fit and the verdict on a text |
| `ReceiverProofs` | the theorems of `IqStream` and `MorseDecoder` |
| `SequenceMatcher` | the library's matching of two sequences, as `store.py` uses it |
| `MessageStore` | receptions, their clusters and votes, the file, popups and replays |
| `MessageStoreProofs` | its theorems |
| `LiveDeploy` | the deployment tool, command by command |
| `LiveDeployProofs` | its theorems |
| `Subsequences` | a subsequence by the positions it keeps |
| `Sums` | the sum of a function's values as a number of pairs |
| `Concatenations` | sequences one after another, by where each begins |
| `OperatorLemmas` | what these three return, for arguments of any size; induction, recursion and division |
| `MC*` | instances for TLC |

`Picked` (`Subsequences`) says what `SelectSeq` says, `Sum` (`Sums`) what a fold
with + and `Concatenated` (`Concatenations`) what one with `\o` says, without the
recursion that keeps a definition from being reasoned about; `PickedAssumption`,
`SumAssumption` and `ConcatenatedAssumption` in the instances let TLC compare each
with the recursive one on every small argument.

### CommandChannel

One action per step of the code. Display: `StagePayload` (the value of an *add*
or *threshold* goes to `wr_state`, `commit_add_frequency`,
`adjust_alert_threshold`), `SendCommand`, `Confirm`/`Retry`
(`retry_pending_command`), `DisplayStops`/`DisplayStarts` (start-up resume from
`wr_ack`, else `wr_cmd`). CM0: `CreateSignals`, `ConnectWarm`, `ConnectCold`
(`connect`), `Poll`, `Ack`, `AckFails`, `FetchPayload` (`poll_action`), `Run`,
`Crash`, `LinkLost`. `MainReset` empties the mailbox. Faults are switched on by
the constant `Faults`.

A command word carries, besides its wire sequence, the number of the press it
stands for, so that two presses with the same wire sequence can be told apart in
properties (no guard uses it). Commands are of four kinds: *quiet* (nothing is
published), *view* (running it rewrites `wr_state`), *threshold* and *add*
(their value is in `wr_state`). An add of the Live list publishes nothing when it is
refused, and one of the library always publishes: an *add* may do either.
`MaxPress < SeqMod` says that a history has less than one full lap of the 16-bit
sequence: the code tells new from old by inequality only and cannot do better.

`events` records what took the channel's memory: `wr_ack` lost or read as 0
(*forgot*), a command acknowledged unseen by a cold connect (*swallowed*), a
Display that restarted behind `wr_cmd` (*rewound*). The properties say exactly
which guarantee survives which event.

### FrequencyLibrary

A command changes the lists in memory in one step (nothing else in the process
reads them in between) and leaves a list of writes, `todo`, in the order of the
code: list file, library file, receiver, mailbox. Every write is a step of its
own and `Restart` is possible before each of them and between commands: it reads
the two files again and completes the library from the list, like `main` and
the constructor. `selected` counts from 1. An *add* is taken in either mode: the
Display offers it on its lists page, but the service may have left its own by then.
`marks` remembers the two histories in which the lists may disagree: an *add*
in Live mode, and a restart between the two files.
Not modelled: several list files (a default installation has one), the legacy
editor, capture pause and list activation, which no current Display command
reaches.

### RowFeed

CM0: `PushRow`, `PushChunk` (each including the `update_receiver` before it),
and `Lands`, which puts one set of the publication into Main; `Verify`, `Doubt`
(a reception drained from the decoder that verifies a message or takes its
verification back), `ClearStore`, `Drop`, `Connect` with the replay. Display:
`BeginRead`, `ReadNext`, `ReadFails`, `TakeFrame` (`poll_frame` and
`receive_message_chunk`), `Clear`, `Reload`. A signal's value is named by the
frame it comes from, so a read of two frames is visible; row words and
`wr_rssi`/`wr_peak` are not told apart from each other, and a chunk's content is its
frequency (chunk 0) or a piece of its text. Both sides are in Live mode: the
list pages, which share the row signals, are in `ListViews`. A
tuning value misread as a chunk header is taken to fail the header check. Records
of the same frequency and text count as one.

### ListViews

A key names a row of the page the Display shows; the CM0 takes it for a row of
its own page. Nothing but the order of commands and lists keeps the two the
same, and this module is about that order.

Display: one action per key of a page that changes the page or sends a command
(`OpenLists`, `ListsKeys`, `AskDelete`/`ConfirmDelete`/`CancelDelete`,
`BeginAdd`/`CommitAdd`/`CancelAdd`, `BackWhileLoading`; touch does the same), and
`poll_list` in the order of its reads: `StartPoll` (`wr_lseq`), `ReadHead`
(state, count, selection), `ReadFreqs` (`wr_f0`.. and the commit), `ReadWords`
(the badges, offset and total, which are waterfall words in Live mode), each of
which may go unanswered. Keys are read between polls, as in the main loop.
`mode` groups the modes that behave alike: the receiver pages are "live",
settings and messages "page". CM0: `Take` (`poll_action`), one action per branch
of `_handle_action` that concerns lists, and a publication in three writes:
head, frequencies, sequence. `Restart` ends the process, `Drop` the adapter only.
`wr_cmd` is one word with the last command, here until taken; that it arrives
once is `CommandChannel`'s subject. A page is published as the memory it is taken
from, files and receiver are `FrequencyLibrary`'s.

`events` and `shown.whole` are history. `shown.whole` says that the last poll of
the Display had every answer, read from one publication (`dRead.whole`, kept by
`StartPoll` and each `WriteHead`; the sequence alone does not tell, because a
restarted service may publish another page under the same one), and brought up
the page of the last command, not that of one before it (Lists, pressed again when a late
Live list ended the first loading page, has two lists to come: every page is
then one command behind, and a toggle pressed twice toggles back). `events` names what
the code does not recover from, and the properties say which guarantee survives
which: a press that replaced an unread one (*replaced*), a key pressed on a page
not read whole (*blind*), the last words of a list unanswered after its sequence
was stored (*unread*), a restart (*restarted*: the list sequence starts over), a
Live list that arrived on the New Frequency page (*passed over*), and a command's
value written over the state of a list still to be read (*unstated*). Each of
them was added for a counterexample, and none is excluded from the behaviours.

### IqStream

Each queue operation of `rtl_iq.py` is a step, and each test before one: `full()` and
the `get_nowait` or `put_nowait` after it (`Publish`, `Drop`, `Insert`; `MessageTest`,
`MessageDrop`, `MessageInsert`), `empty()` and the `get_nowait` after it (`Emptying`,
in `set_cw_enabled` and three times in `start`), the test of `cw_enabled` and the call
of `feed_iq` (`Decode`, `FeedDecoder`). When another thread empties the queue between
test and get, `queue.Empty` ends that thread or, in the main loop, the service. A
thread is `<<role, life>>` with a place in its loop and the item it holds; `start`
begins a life. Reader: `Read`, `Returns`, `Put`. Processor: `TakeBlock`, then
publishing, then decoding. Both: `OnError` and `SetStop`, the `except` clause. The main
loop takes rows (`TakeRow`), drains messages, switches the decoder (`Toggle`, `Reset`,
`Unmessage`), and stops, starts or closes the stream in the order of the code: `Stop`,
`JoinReader`, `JoinProcessor`, `CloseDevice`, `EmptyRows`, `EmptyMessages`,
`EmptyBlocks`, `TakeEntry`, `Open`. A join may time out (`Hung`, `overruns`), and the
thread then lives on beside the next life. Blocks and rows carry the frequency they
were heard on, rows also the entry they were analysed for; samples are not modelled.

### MorseDecoder

Not an abstraction of timing: the durations, ratios and thresholds are those of
`morse.py`, in tenths of a millisecond, and the fit of the speed, the cleaning of
runs, the reading and the scores are the code's, in integers. `FeedIq` is one
`feed_iq` of a whole block: how many samples the stride picks, how many windows
they fill, and for each window the debouncer and the timing decoder. The tone
search inside a window is replaced by its verdict: tone where the text is keyed,
or the contrary for a bounded number of windows (`noise`). `Carrier` is the
hysteresis of the processor thread, `Retune` the reset on another frequency. `morse`
has what the debouncer and the timing decoder hold, `published` the texts that left
them; the specification is `MorseSpec`, with `MorseInit` and `MorseNext`, because one
module of proofs extends `IqStream` as well. The sender is in the instance (`MCMorseDecoder`): five texts as the windows they are
heard in, at 30, 20, 13, 12 and 8 words per minute.

Two limits of the code shaped the texts. A text of dashes only is read as one of
dots three times as slow (`TTTT TTTT TTTT TTTT` at 24 to 30 words per minute is
published as `HHHH`), because the fit has nothing but the speed it was taught to
tell them apart; the texts hold both. Above 12 words per minute one misheard
window may change a letter; the code's answer to that is the repeat vote of the
message store.

### MessageStore

`Observe` is `MessageStore.observe` with the drain around it: the matching
records (`Matches`, `Similar`), the merge into the newest (`Merged`), the weighted
medoid and the vote letter by letter (`Consensus`), the verdict (`Verified`), the
order and the bound, the save with its failures before and after the file is
replaced (`SaveOutcomes`), and the popup. `ObserveRefused` is the validation that
fails when the clock was set back.

Texts have any length and are compared and aligned by the module `SequenceMatcher`,
which is Python's `difflib`: the longest common block first, then what lies before and
after it. The texts a record's receptions had therefore vote at places that may be
shifted against each other, and what is shown may be a text nobody received, with
letters from elsewhere: 123?56 twice and 912345 once give 123456, as `store.py` does
(the instance has these three, and `AlignmentAssumption` compares). Three things differ:
a text has fewer than 200 letters, beyond which `difflib` ignores popular ones; ratios
are exact, where the code's are floats (`Parts` is a common multiple of the
denominators); and where letters of one place tie, or medoids do, the order of the
dictionary decides, which depends on when the file was last loaded, and the model
leaves it open.

The history `heard` counts receptions per
frequency and text, `dropped` those of records the bound pushed out; `leftOut` has the
verified records the last replay passed over (a store of 100 records replays its last
16, `app.py` 259-264). No guard reads them. The file the service finds at its start
is one this program wrote: `Kept` says what `validate` checks and `observe` leaves.

### LiveDeploy

The tool's `main`, one action per command it sends over the routed serial line.
`Command` has the three outcomes of `serial_put.command`: acknowledged, refused or
not executed, executed but unanswered; `Quietly` is the rollback's `except: pass`.
Where an exception leads (out of the script, to the rollback, to `finally`) is a
parameter. `dest`, `prev`, `staging` and `candidate` hold, per file, the version
that is there, `Absent` or `Partial`. `LineLost` and `PowerCycle` may come at any
step. A command is atomic: a power cycle in the middle of a `cp` is left out.

## 3. Runs

| Run | Instance | Result |
|---|---|---|
| `cmd_channel` | 2 presses, sequences 1..3 from every start, 4 kinds, all 6 faults; 3.5 M states | passes |
| `cmd_settle` | 2 presses, one kind, 5 faults, with fairness; 92 k states | passes |
| `freq_library` | 4 frequencies, 2 spans, lists of 3, pages of 2, symmetry; 1.1 M states | passes |
| `row_feed` | 2 frequencies with a message of 2 chunks each, 3 frames, 3 events; 1.5 M states | passes |
| `list_views` | 3 saved frequencies on pages of 2, one Live, 3 commands, 1 restart, with fairness; 0.6 M states | passes |
| `iq_stream` | 2 frequencies, 2 lives, queues of 2 rows, 2 messages, 1 block, both switch positions; 0.8 M states | passes |
| `iq_live` | 1 frequency, 2 lives, queues of 1, 1 join that times out, with fairness; 0.5 M states | passes |
| `morse_decoder` | 5 texts, 8 to 30 words per minute, 2 sample rates; 0.13 M states | passes |
| `message_store` | 4 texts (right, with an erasure, shifted, with a wrong end), 2 frequencies, symmetry; 0.2 M states | passes |
| `live_deploy` | 3 modules and the unit file, 3 runs, 2 faults, 1 outage; 0.8 M states | passes |
| `cmd_reload` | 2 presses, reloads of the Display only | violation, see below |
| `deploy_restores` | 3 modules, 1 run, 1 fault | violation, see below |

What the properties say:

- `AtMostOnce`, `RunsInOrder` (refinement of `CommandDelivery`): no press runs
  twice or after a later one until `wr_ack` is forgotten.
- `ConfirmedWasTaken`: the Display never gives up a press the CM0 has not read.
- `PayloadNeverStale`: a command never runs with an *older* press's value.
- `PressesSettle` (liveness): every press leaves the retry loop.
- `LiveUsable`, `ReceiverOnSelected`, `ToggleKeepsSelection`, `LiveIsSaved`,
  `OneSpan`, `Durable`, `ShownIsCurrent`: the lists, the receiver, the files and
  the Display agree, at the limits and after a crash at any write.
- `CaughtUp`: a Display with nothing new to read shows exactly the frame sent
  last, however torn the reads before it were.
- `HistoryGenuine`, `AllArrive`: no message is assembled from chunks of two, and
  what was not skipped, preempted or cleared arrives, also after a reconnect.
- `ActsOnWhatWasShown`: a toggle, deletion or tune acts on the frequency (and
  the LIVE badge) its row showed when the key was pressed, through page changes
  and restarts, unless some key was pressed on a page not read whole.
- `ViewsAgree`: once everything has arrived both sides are on the same page with
  the same rows; no Display is left on a receiver page with rows stopped.
- `LoadingEnds` (liveness): a loading page comes up, also when Back crosses it.
  (The three hold up to the events each of them names.)

- `OfThisTuning`: what waits in the queues was heard on the frequency it will be
  shown and stored under, although the processor works off old blocks after a stop.
- `DeviceOwned`: a read is on the handle that is open, and only one reader lives.
  (Both as long as no join times out.)
- `QuietWhenOff`: with the decoder off at most one message waits, the one being decoded
  at the switch: the processor may still insert it after the queue was emptied.
- `Served` (liveness): the main loop gets row after row for as long as it serves, and
  closes when the capture fails, but for two ways in which it is never told of the
  failure, each named (`ErrorLost`, `ReaderDied`; see the divergences).
- `CloseEndsThreads` (liveness): closing ends all threads for good, those that outlived
  a join too.
- `ReadRight`, `WholeRead`: what is published is what was keyed, whole words of it,
  and the whole text once if the carrier stayed.
- `RunsMatchSignal`: marks and gaps are the runs of the windows heard, with single
  contradicting windows given back.
- `ClockIsAir`: no sample between two blocks is lost or counted twice.
- `FreshStart`: nothing received before a retune is published after it.
- `EveryReceptionCounts`: over merges, bound, failing saves and restarts the file
  accounts for each reception once.
- `FileLoads`: the file is always one the next start accepts.
- `ShownIsEarned`: a text is shown on a frequency only after three receptions there,
  and is one of them but for letters that receptions had at places aligned with it.
- `VerifiedIsShown`: a verified text is shown unless the last replay left it out.
- `NeverHalfWritten`, `OneVersion`, `ChangesWhileStopped`: modules are never cut
  short; a deployment that ends by itself leaves the new version, started unless it was
  only staged, or the old one after a clean rollback from complete backups; files change
  under a stopped service.

Why the bounds are enough: the channel has one slot, one pending word and one
last sequence, so two presses with a wrap and an earlier life of the mailbox
give every overlap of old and new; the proofs cover the rest. Lists of three
with pages of two have a first, middle and last entry, a full list, a second and
a partial page, and a fourth frequency to overflow them. Three frames are a
message followed by the first chunk of another, or a chunk between rows; three
events are two receptions with a retune, or a reception, a restart and a
time-out. `MaxFrames < RowMod` keeps a life of the service below one lap of the
row sequence.

Three commands are what a press on a page needs to meet another page: open, turn
or leave, act; the safety properties of `list_views` also hold with four
and a restart (7.9 M states) and with five and none (4.3 M states), which is too
long for a routine run. Pages of two over three frequencies have a full and a
partial page, and a fourth frequency fills the library.

Two lives of the receiver are an old and a new one; queues of one or two are full
and empty in turn, and the code's four differ only in how long a row is under way.
Three deployments are one that leaves backups, one that fails and one after it.
Three receptions, from no file or on top of two or three stored ones on each frequency,
verify a record, merge two and push one out of a store of two; a replay of one record
leaves one of two verified ones out.

Deadlock is checked for `FrequencyLibrary` alone; in the other modules the bounded
presses, frames, lives, receptions or runs are used up, or a receiver is closed,
and nothing more need happen.
`FrequencyLibrary` has no such bound.

Fairness (`cmd_settle`): both programs are loops that keep turning, so each of
their steps is weakly fair. Retry, confirm, poll, acknowledge and connect are
*strongly* fair because a fault may keep interrupting them; the comment at
`main.c` 2276 and the service unit's `Restart=on-failure` say that those faults
are transient. `LinkLost` is not fair: a service on its lists page publishes
nothing and does not notice that Main was reset, hence this run has no
`main_reset`.
Fairness (`list_views`): the service and `poll_list` keep turning (weak), and the
first three reads of a poll, which a time-out sends back to the start, are
answered at last (strong). Keys, rows and restarts are never forced.

Fairness (`iq_live`): every thread is scheduled, and the main loop keeps going round
(weak). It takes a row again and again although presses come between (strong: they
come at a hand's pace), it finds the message queue empty again and again (strong: a
message takes seconds to be heard), and the dongle delivers whole blocks again and
again (strong). Presses and errors are never forced, and a thread that hangs in a read or
a block is not assumed to return in time for its join.

### Known divergences

Two runs state a sentence of a comment or a document and find it violated
(`PROJECT.json` has the quotations): a Display reloaded before its command was
acknowledged reuses its sequence and loses the next press (`cmd_reload`); a
deployment that fails while it writes its backups deletes or ages modules in its
rollback (`deploy_restores`).

The models contain the following as well. The properties exempt them by name
(marks, events) or are worded around them:

- A command is durable across a CM0 reconnect but its value is not: `connect` sets
  `wr_state` before the command is polled (`display.py` 880-896).
- A time-out of the `wr_ack` read while reconnecting counts as sequence 0 and runs the
  last command again (`display.py` 895; event *forgot*).
- A full library grows past its limit at a restart, and then every save of it ends
  the service (`app.py` 97; mark *added_live*).
- A poll that overlaps a publication takes signals of two frames (`main.c` 2189; mark
  *torn*), although ARCHITECTURE.md 91 says that partial frames are never rendered.
- Clear does not stop chunks on their way, which bring a message back (`app.py` 587).
- A frequency saved on the New Frequency page goes into the Live list when the CM0
  has left its lists page meanwhile (`app.py` 639; event *passed over*).
- A capture error published into `rows` (two places, the oldest is dropped) can be
  pushed out by rows of the blocks still queued; both threads end, the main loop waits
  for ever and the status stays *live* (`rtl_iq.py` 251, 283). CHANGELOG.md 27-28
  promises a "visible overrun failure": the code does not keep that, and `Served`
  exempts the case by name (`ErrorLost`).
- A `queue.Full` or `queue.Empty` inside an `except` clause ends a thread without
  `stop_event` (`rtl_iq.py` 282; place *dead*). When it is the reader the capture is
  over and nobody is told; `Served` exempts that too (`ReaderDied`).
- A `queue.Empty` between `empty()` and `get_nowait()` of the main loop ends the service:
  in `set_cw_enabled` (`rtl_iq.py` 363) when the processor makes room for a message, in
  `start` (208-213) only beside a thread that outlived its join.
- A thread that outlives its join may read the next life's device beside its successor
  (`rtl_iq.py` 333-343): `OfThisTuning`, `DeviceOwned` and `QuietWhenOff` are stated for
  joins that end in time, `Served` and `CloseEndsThreads` for all.
- A message decoded at the moment the decoder is switched off is queued after the queue
  was emptied, and shown (`rtl_iq.py` 317-325, 361-364).
- A reception shifted by a letter can fill an erasure with a letter no reception had at
  that place (`store.py` 337-351); the text is verified by the agreement of its letters
  with the receptions, 72 percent, not by three equal ones (`store.py` 492).
- When reads of a list's last words fail after its sequence was stored, the Display
  stays on the loading page until Back or Lists is pressed, and an unanswered `wr_f`
  keeps the frequency of the page before in its row (`main.c` 2127, 2136; events
  *unread*, *blind*).
- A record once verified can lose its verification to later noisy receptions and is
  then not replayed (`store.py` 492), although USER_GUIDE.md 61 lets it remain until
  Clear; the Display that has it keeps it.
- A clock set back behind a record's first reception ends the service at each
  matching reception until the clock has caught up (`store.py` 178).
- A popup is suppressed by its text alone: the same text verified on another
  frequency within 30 s is stored but not shown until a reconnect (`app.py` 223).
- The maintenance inhibit is created before the `try` that removes it: when its
  acknowledgement is lost it stays until the next boot. A failing stop or start and a
  lost line leave the service stopped; a runtime that is not live is not rolled back.

## 4. Proofs

TLAPS proves for every value of the constants that satisfies the modules'
assumptions:

- `CommandChannelProofs`: `TypeCorrect`, `RunsAtMostOnce`, `NoStalePayload`,
  `ConfirmedIsTaken` and `ImplementsDelivery` (Spec => CommandDelivery's Spec).
  The properties are not inductive. `IInv` adds, while `wr_ack` is not
  forgotten: a press that ran and is still in `wr_cmd` is the acknowledged one;
  an idle CM0's last sequence is `wr_ack`, a busy one's is the command it holds,
  which has not run; all copies of a press are the same word; and `LapInv`: the
  distances on the ring of sequences from `wr_ack` and `wr_cmd` to the Display's
  counter are those of the presses, which with `MaxPress < SeqMod` makes "other
  sequence" mean "new press". `ValueInv` says that a payload command under way is
  never younger than the value in `wr_state`. One lemma per conjunct that several actions
  disturb, one step per action.
- `FrequencyLibraryProofs`: every property of the component, for lists of any size.
  `TypeCorrect` and `LiveStaysUsable` from `ListInv` (both lists and both files
  usable, selection in range); `ReceiverFollows` from `TuneInv` (a "tune" write is
  still to come, or the receiver is on the selected entry); `NothingLost` from
  `DurableInv` (each file is what memory has, or its write is still to come) and
  `ShownFollows` from `ShownInv` (the same of the Display's view); `LiveStaysSaved`
  from `SavedInv` (the library has no frequency twice, in memory and on disk);
  `SpanStaysOne` from `SpanInv` (the files agree as well, but for the moment between
  the two); the action property `ToggleStays` from the type and the list parts. Removals and the completion of
  the library at a start are subsequences: the lemmas on `Picked` carry them.
- `ListViewsProofs`: `TypeCorrect`, `ActsAsPressed` and `ViewsMeet`, for lists, pages,
  presses and restarts of any number. `Safety` is one invariant of seven parts:
  `Types`; `ListsInv` (the lists have no frequency twice, the Live one is saved);
  `MailInv` (what the mailbox holds between publications and after each of the three
  writes of one); `PollInv` (what a poll has of it at each read); `PageInv` (a page
  read whole is the service's page, or the service has left its lists, and nothing on
  its way changes that); `PressInv` (a command on its way names a row of the
  service's page, and no list is under way); `ModeInv` (which page of the Display goes
  with the list it has read last).
- `MessageStoreProofs`: `BooksBalance`, `FileIsValid`, `ShownEarned` and
  `VerifiedShown`, for any texts, records, receptions, failed saves and restarts, and
  whatever the order of the counts. `StoreInv`: the records in memory are those of the
  file, and each has as much evidence as receptions, and if it is verified three of them
  and a text that is one of those received but for letters received at a place aligned
  with theirs. The proofs use nothing of `SequenceMatcher` but that its results are what
  they are: what it aligns is compared with the code by TLC alone. `BooksInv`: the counts of the file with those pushed out are those
  heard. `ShownInv` follows from both, since no record counts more than its
  frequency; `VisibleInv` adds that the text that suppresses its repeats is on the
  Display. A merge and the bound move receptions between records, so the lemmas are
  about sums: reordered (`SumSame`), split (`SumSplit`), exchanged (`SumSwap`, all in `OperatorLemmas`);
  `ObservedCounts` says that an observation adds one reception and loses none.
- `LiveDeployProofs`: `NeverHalf`, `StoppedChanges` and `EndsOnOneVersion`, for any
  number of modules, runs, faults and outages. `IInv` adds to the type that only
  `staging` and `candidate` may hold a partial file, that the candidate about to be
  moved is the version whose digest was compared, and that from the backup to the end
  of the rollback the service is stopped unless the line is down for good (a power
  cycle starts it, and the shell is gone with it). For `EndsOnOneVersion`, `VersionInv`
  says how far the new version has come at each place of the script and that it runs
  where it was checked, and `RestoreInv`
  that a rollback from complete backups has restored what it has passed.
- `ReceiverProofs`, on `IqStream`: `TypeCorrect`, `Tuned`, `Owned` and `Quiet`, for queues of any
  size and any number of frequencies, lives and overruns. `TypeInv` says besides
  the types what a thread may hold at each place of its loop. `Inv` adds that only
  a processor publishes rows and messages and, while no join timed out, four
  facts that rest on each other: `OwnInv` (only threads of this life run; the
  readers have ended from `joinProcessor` on, all threads from `closeDevice` on),
  `EmptiedInv` (while `start` empties the queues, those it is through with stay empty),
  `HeardInv` (the device is tuned to the entry, and blocks, rows, messages, the
  decoder and what each thread holds were heard on it: `start` empties the
  queues after both joins and before the next tuning) and `QuietInv` (with the
  decoder off there is no message, or one and no thread about to put another).
- `ReceiverProofs`, on `MorseDecoder`: `ClockIsAirAlways`, `RunsAreSignal` and
  `StartsFresh`, for any texts and timings, any noise, any carrier and any sample
  rates that are multiples of the audio rate (`MorseAssumption`; `sample_rate_for` has
  no other). `MorseInv` has two parts. `ClockInv` says that the first sample the next
  block picks lies whole strides after the reset and that each stride in between gave
  an audio sample (all but the first, which has none before it); `BlockFacts` says
  what a block adds to that, by the uniqueness of quotient and remainder (`Division`).
  `DebounceInv` says that at most one window heard is in doubt, that it contradicts
  the tone, and that marks, gaps and the current run are the turns of the others since
  the last attempt. Its step is a recursion over the windows of a block. What a window
  more does to `Label` and `Turns` is shown first: it leaves the labels before it as
  they were, but for a window it makes sure; a window that agrees adds no turn, a
  contradicting one that is followed by an agreeing one neither, and two contradicting
  ones are a turn at the first. `Lasting` then grows by one run. A window has 20 ms
  and a click less than 12, so the click test of `feed` never applies here.
  `StartsFresh` needs only `FreshInv`: where nothing is sent, nothing is keyed and the
  decoder is as the reset left it.

  These proofs go by induction over data, the windows heard. Induction over a number
  (`Induction` in `OperatorLemmas`) takes the set of those that have the property, and
  follows from the least number that has it not; a recursive function is first
  shown to have a solution (`Recursion`), after which it says of itself what its
  definition says.
- `RowFeedProofs`: `CaughtUpAlways`, for frames of any number of words, any messages
  and histories of less than one lap of the row sequence. `IInv` holds until the
  adapter is replaced and has five parts: the sequences follow the count of frames
  (`SequenceInv`); between publications Main holds the last frame whole
  (`StillInv`); during one, the sets still to land complete it, `wr_seq` last
  (`BatchInv`, which needs that a row skips its tuning only when Main holds it);
  a read begun under the current sequence has found what is there (`ReadInv`);
  and a Display with the current sequence shows that frame (`ShownInv`). The
  lemmas on batches (`BatchShape`, `RowBatch`, `ChunkBatch`, `LeavesRest`) say what
  the sets of a publication leave in each signal, and what is left after each.

  `TypeCorrect` rests on `Types`, which also holds after the adapter was replaced, when
  the row sequence starts over. `HistoryStaysGenuine` and `AllArriveAlways` follow from
  invariants that hold over replacements as well, each built on the ones before it:
  `NumberInv` (every frame that exists, awaited, being published, in the mailbox or
  shown, has its own number, and the awaited ones are above the last shown);
  `HeardInv` (chunks are of messages heard, of which there are finitely many);
  `OrderInv` (a later chunk on its way, queued or published, has a chunk of its message
  ahead of it, the first one or the one shown last, with nothing but that message's
  chunks in between);
  `GenuineInv` (what is staged is of one message heard, that of the last frame if it was
  a chunk, and each entry of the history is such a message whole). The last two hold while
  no torn frame was taken and no first chunk missed. `ArriveInv` says of a stored message
  that is due: it is in the history, or its chunks are at consecutive frame numbers,
  those taken staged and the others on their way (`Run`). It needs that the history
  has room for all that was heard, so that no entry is pushed out (`NoneDropped`).
  TLC checked each of these invariants on the instance before it was proved.

The attempts changed four models. `ListViews` told a page read whole by comparing
sequences, which a restarted service repeats; it now keeps the answer as history.
`VerifiedIsShown` had held only because the instance replayed more records than its
store can have; the property now names those a replay leaves out (`leftOut`), and the
instance has them. The replay, the stored records and the staging of `RowFeed` were a
fold, a `SelectSeq` and a merge of functions with `@@`; they are now said by what they
give, and the instance has the same states. So are the windows of a block and the
turns of a signal in `MorseDecoder`: folds before, recursive functions of a number now.

Only model-checked: liveness (`PressesSettle`, `LoadingEnds`, `Served`,
`CloseEndsThreads`), which is beyond the prover; and two invariants of `MorseDecoder`,
`ReadRight` and `WholeRead`. Those two speak of the texts in the instance and of how
they were keyed: for any text they do not hold (dashes alone are read as slower dots,
and above 12 words per minute a misheard window may change a letter), so there is
nothing to prove for every value of the constants.

## 5. Plan

What is left, in this order: `BridgeRecovery` and the pocket alert (timers, and what
resets Main); `Transport` (reply matching); the control scripts (profile switch and boot
guard).

## 6. Not modelled

- `cm0_transport.py` reply matching, `bridge_recovery.py` with the Display's link
  timer, the pocket alert, `foxhuntctl` and `foxhunt-guard`: small protocols of their
  own, on the plan.
- FFT, spectrum reduction, waterfall scale and the Goertzel tone search: floating
  point on samples, which TLC cannot enumerate; their results enter as verdicts.
- Status file, lists CLI and the display adapters the service does not create: plain
  input and output.
- Drawing, build, installers and the other developer tools.
