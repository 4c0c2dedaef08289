# Formal models of experimental_concurrency

This directory holds TLA+ models of the benchmark suite in `src/`: what its
threads do to each other between two clock readings, what its console output
does to the console, what its main program does with the results, and what the
plotting script makes of them. TLC checks each model on small instances, TLAPS
proves every invariant of these runs for all sizes.

1. [The system](#1-the-system)
2. [Modules and the code they stand for](#2-modules-and-the-code-they-stand-for)
3. [Runs](#3-runs)
4. [Fairness](#4-fairness)
5. [Proofs](#5-proofs)
6. [Where code and documentation disagree](#6-where-code-and-documentation-disagree)
7. [Abstractions, and what is not modelled](#7-abstractions-and-what-is-not-modelled)
8. [Plan](#8-plan)

To check one run or one proof, in this directory:

    tlc -config MCLatencyRound.cfg MCLatencyRound
    tlapm LatencyRoundProofs.tla

## 1. The system

The program measures C++20 synchronization primitives on Windows. `main()` runs
benchmarks one after another, each of them takes n = 50'000 samples, and the
samples go to a JSON file that a Python script plots.

| Component | State | Operations | Interacts with |
|---|---|---|---|
| Latency benchmarks: `atomic_flag_test`, `atomic_flag_clear`, `semaphore`, `scoped_lock`, `spinlock`, `thread_start` | file-scope `ready_signal`, the primitive, `t1_atomic`; locals of `measure()` | `measure()` in main, `thread_fun()` in one thread per sample | `easy_atomic`; called by `add_payload()` |
| `easy_atomic` (`tools.h`) | `std::atomic<std::optional<T>>` | `store_and_notify_one()`, `wait_for_non_nullopt_and_exchange()` | the time stamp's mailbox in both of the above and below |
| Spinlocks (`spinlock_latency.cpp`) | one atomic flag | `lock()`, `unlock()` of `atomic_flag_spinlock` and `tas_lock` | the spinlock benchmark |
| Pairwise core latency (`map_threads.cpp`, `measure()` and `get_latency()`) | `start_signal`, `latch`, `platform`, `t1_atomic` | two threads pinned to two cores hand `platform` back and forth | called once per cell of the map |
| Thread map (`map_threads()`) | the core main is believed on, its affinity, the times, the grid | shuffle, `pick_another_thread()`, measure, mark | the scheduler, `grid_reporter` |
| Contention benchmarks: `mutex`, `atomic_add`, `atomic_flag`, `atomic_large` | two latches per sample, `start_signal`, the flag, the shared integer | `measure()` in main, `thread_fun()` in `hardware_concurrency()/2-1` threads | called by `add_payload()` |
| `grid_reporter` | nothing but a core count: all its state is the console's | constructor, two marks, destructor | oof's sequences, relative cursor moves |
| oof (`oof.h`) | `screen`: cells and last frame; `pixel_screen`: pixels on top of a screen | writing, `get_string()`; sequences and their sizes | the console |
| Suite (`main()`, `add_payload()`, `progress_reporter`) | results by description, payload, progress, the cursor's visibility | one benchmark after another, one file at the end | all benchmarks, the console, `json_write()` |
| JSON output (`json_write.cpp`) | the text and a count of entries | results to text, entry by entry | the file |
| Plots (`analysis/plot.py`) | none | percentile, CDFs and a heat map from the file | the file |

What is hard here, and the hazards of `PROJECT.json` list line by line:

- **Ordering of signals.** A thread tells main that it is ready *before* it goes
  to sleep on the primitive; main releases, notifies, and clears signals while
  the thread may be anywhere in between. Notifications wake only those already
  asleep. What keeps every benchmark from hanging is that `wait()` compares
  and sleeps in one step and that each store comes before its notification.
- **State that survives a sample.** All signals have static storage and are
  used 50'000 times. A flag, a stamp or a permit left over from sample k spoils
  sample k+1, silently: the number is merely too small.
- **Lifetimes.** Latches are locals that threads hold by reference, and in the
  contention benchmarks they are destroyed before the threads are joined.
- **Data races by design.** `++value` on a plain int, `store(load() + 1)`.
- **The scheduler.** main tries to stay off the cores under measurement.
- **Relative drawing.** `grid_reporter` and `screen` leave out what they believe
  the console already has; one wrong belief shifts everything after it.
- **Small machines.** `hardware_concurrency()/2-1` is 0 or -1; with two cores
  the map has nowhere to move main to.
- **One file at the end.** An exception or `terminate()` loses all results, and
  so does one comma that Python does not expect.
- **Off by one.** Columns from 1 and from 0, percentiles and medians of an even
  number of samples, an `int` that overflows, pixels that begin in half a line.

What makes each component correct:

| Component | Correct when |
|---|---|
| Latency benchmarks | each sample is stamp minus this round's t0, the stamp taken behind the primitive; rounds are independent; every primitive is used within its contract; all rounds end |
| `easy_atomic` | no stamp is overwritten or read twice, the exchange finds one |
| Spinlocks | mutual exclusion, and no waiting for a free lock |
| Core latency | a sample divides exactly 2·pings handoffs; both players are pinned before t0; nobody hangs; the latch outlives its users |
| Thread map | the plotted map has the one time of every pair in both its cells; main off both cores; the grid tells the truth |
| Contention | the interval holds all the work; exact counters exact, lossy ones within bounds; everybody is woken |
| `grid_reporter`, `progress_reporter`, `screen`, `pixel_screen` | the console shows what the program has drawn, nothing else is touched |
| Suite | what is written to its end is complete, and nothing is touched before; the cursor is given back |
| JSON output, plots | the file is read back as it was written, and the beginning of one is not taken for results; a curve shows for each x the share of the samples at most x |

## 2. Modules and the code they stand for

`PROJECT.json` maps every definition to its lines. A step is one access to shared
state: a store and its notification are two steps, so are the wait of a mailbox
and its exchange, and so are the read and the write of a non-atomic `++`.
Program counters (`mainAt`, `threadAt`, `at`) name the *next* access. Where
several files share one skeleton, the benchmark or the class is a variable
(`bench`, `kind`) that `Init` chooses and no step changes, so one run covers all
of them.

| Module | Models | Built from |
|---|---|---|
| `WaitNotify` | `std::atomic<T>::wait`/`notify_*`: compare-and-sleep in one step, wake-ups only by notification or spuriously, `wait()` returns only on a changed value | – |
| `Handoff` | abstract: what a latency sample promises | – |
| `LatencyRound` | the six latency files: `measure()`, `thread_fun()`, join, the loop of `add_payload()` | `WaitNotify`; implements `Handoff` |
| `PingPong` | `measure()`, `get_latency()`, `thread_fun0/1` of `map_threads.cpp` | `WaitNotify`; implements `Handoff` |
| `ThreadMap` | `map_threads()`, `pick_another_thread()`, `get_logical_processor_number()`, `set_thread_affinity()`, the grid's states, and `plot_heatmap()` of what is published; the scheduler is the environment. One `Measure` step stands for a whole `PingPong` | – |
| `Contention` | the four contention files | `WaitNotify` |
| `AbstractLock` | abstract: a lock that does not promise an order | – |
| `Spinlocks` | both spinlock classes, any number of threads | implements `AbstractLock` |
| `EscapeSequences` | oof's sequences, the length of the string written for each, and the length `get_sequence_string_size()` computes | – |
| `EscapeSizes` | a vector of sequences, filled step by step | `EscapeSequences` |
| `Terminal` | the console (not in the repository), as a record and what each sequence does to it: cells, cursor, visibility, formatting; moves clamp at the edge, a move by 0 is a move by 1, deferred wrap, scrolling | – |
| `Screen` | `oof::screen` and its renderer | `EscapeSequences`, `Terminal` |
| `PixelScreen` | `oof::pixel_screen` | `Screen` |
| `GridReporter` | `grid_reporter`, called from the map | `ThreadMap`, `EscapeSequences`, `Terminal` |
| `Suite` | `main()`, `add_payload()`, the calls of `progress_reporter`, when the file is written. One `Measure` or `Throw` step stands for a sample | – |
| `ProgressReporter` | `progress_reporter` on the console, called from the suite | `Suite`, `EscapeSequences`, `Terminal` |
| `Statistics` | `get_50th_percentile()`, `numpy`'s percentile, `get_cdf()` | – |
| `Plots` | `json_write()`, reading the file, `stacked_hist()` | `Statistics` |
| `LatencyRoundProofs`, `PingPongProofs`, `ContentionProofs`, `SpinlocksProofs`, `ThreadMapProofs` (with `GridReporter`), `SuiteProofs` (with `ProgressReporter` and `Plots`), `ScreenProofs` (with `PixelScreen`) | theorems (section 5) | their modules |
| `TerminalProofs` | lemmas about what a string of sequences does to a console, used by the last three | `Terminal`, `EscapeSequences` |

The modules compose at the interfaces the code has. Where two components work on
a common state step by step they are checked together: `GridReporter` extends
`ThreadMap` and joins each of its steps with what the reporter sends to the
console, `ProgressReporter` does so with `Suite`, and `PixelScreen` puts a frame
of pixels into the cells of a `Screen` that is drawn on a `Terminal`. Where a
component calls another that starts from a fixed state and comes back to it, one
step of the caller stands for the call: a sample of `Suite` is a round of
`LatencyRound` or `Contention`, a cell of `ThreadMap` is a `PingPong`. What state
each call starts from is `RoundsAreIndependent`, `CallsAreIndependent` and
`SamplesAreIndependent`, all three checked and proved. It is the same one for
every round, call and sample, with two exceptions that `Contention` keeps: the
counter of `contention_mutex` runs on, and the flag of `contention_atomic_flag`,
which nothing clears, is down in the first sample and set in every later one, so
that only the first is a sample whose threads wait for it. `Handoff` is
implemented twice, by two protocols that share no code but `easy_atomic`.

The benchmarks' files differ in the order and choice of their steps. Each file
is a record that gives, for each step of its `measure()` or `thread_fun()`, the
next one (`scoped_lock_measure`, `atomic_flag_thread_fun`, ...); what a step does
is an action, written once.

`Statistics` says what sorting yields by counting: the k-th value in order is the
one with fewer than k values below it and at least k up to it (`Ranked`). The
names in `Plots` that `Suite` has too are its own (`PlotInit`, `PlotNext`,
`stage`), because `SuiteProofs` extends both.

Operators whose comment begins with "Mutant:" are plausible bugs, placed before
the definition they would replace. They belong to no specification; `PROJECT.json`
pairs each with a property that fails when the code is changed that way.

## 3. Runs

All runs check for deadlock but `escape_sizes`, whose vector has a maximal
length. Eight end with no error, four find the disagreements of section 6.

| Run | States | Instance | Shows |
|---|---|---|---|
| `latency_round` | 650 | 3 rounds, all six benchmarks | rounds leak nothing, samples are positive and of this round, contracts of the primitives, no lost notification, `Handoff` implemented |
| `ping_pong` | 982 | 3 pings, 3 calls | exactly 2·pings handoffs per sample, pinned before t0, latch lifetime, main's last `store(0)` swallows nothing, `Handoff` implemented |
| `thread_map` | 280'567 | 0 to 3 cores, every order, any migration, two latencies, on consoles of 4×6 and 3×6 | the plotted map has every pair's time twice, main off the pair once moved, the grid's states, that the console shows them and the cursor returns, and that two cores terminate the program |
| `contention` | 120'653 | -1 to 3 threads, 2 increments each, 4 in all, 2 samples, an `int` of 4 bits, four benchmarks | the interval holds all work, counters, latch lifetimes, what samples have in common, everybody woken |
| `spinlocks` | 1'023 | 4 threads, both classes | mutual exclusion, `AbstractLock` implemented with its fairness |
| `screens` | 84'539 | screens of 2×2, 3×1 and 1×3 cells with any writes and up to 3 pixels beginning on either half of a line, on a 4×4 console | the console shows the last frame, only changes are drawn, every frame shows every pixel in its half |
| `suite` | 9'568 | 4 samples, machines with 0, 1, 2 and 4 cores, consoles of 3×8 and 1×9, any report left out, exceptions at any sample, results of an earlier run or none, a write that fails or stops | a file written to its end is complete and nothing is touched before, every line shows its benchmark's last percentage, the cursor, the end |
| `plots` | 810'819 | up to 2 benchmarks with 2 to 4 samples of 3 values, entries in any order, files cut anywhere | the file is JSON with the results in it, a file that is cut is refused, each point of a curve is the share of samples at most its x, the median splits |
| `main_off_measured_cores` | | 4 cores | section 6 |
| `flag_loses_increments` | | 2 threads | section 6 |
| `escape_sizes` | | values of one to three digits, 2 sequences | section 6 |
| `curves_go_back` | | 2 samples of 2 values | section 6 |

Why these bounds are enough:

- *Rounds, calls, samples.* A leftover of one round shows in the next, and one
  of that in the third; the first round differs from the others (prepared flags,
  the tossed sample), so two or three cover first, middle and last. For the
  latency benchmarks, the map's calls and the contention benchmarks theorems
  say the same of any number.
- *Pings.* With three there is a first, a middle and a last handoff of each
  player.
- *Cores.* With zero and one nothing is measured, with two there is no spare
  core, three have exactly one. The claims about the map are proved for any
  number, those about its grid for up to 128. `main_off_measured_cores` needs a
  fourth core to be found early.
- *Contending threads.* Two is the smallest number that can race and three the
  smallest where a third party stands by, at the lock, on the flag or at the end
  latch. Two increments each are what `LossIsBounded` needs: a thread may
  overwrite all that another has done between two of its own. Four increments in
  all (`MaxIncrements`) leave one each for three threads. With `MaxInt` = 7 the
  counter of `contention_mutex`, which is never reset, overflows in the second
  sample, as the real one does from 43 threads on.
- *Consoles.* What the console shows is proved for every size that has room; the
  instances are those where something could go wrong. The screens are smaller
  than the window on every side, so that writing outside shows; they include one
  of a single column and one of a single line. A grid of three cores and the
  line after it just fit in four lines and do not in three, where nothing is
  promised about the picture; any start line makes the window scroll. The
  suite's lines do not fit on either console, so every benchmark after the first
  scrolls, on the smaller one at once.
- *Suite.* With four samples the percentage passes through one, two and three
  digits, and leaving out a report may leave out any of them. Descriptions of
  one and of two letters put the percentage in different columns.
- *Plots.* The three invariants are proved for any samples. Two samples are the
  least `get_cdf()` is defined for, two to four have even and odd middles and
  ties at either end. The axis ends at the 75th percentile instead of the 99th,
  or it would always be the largest of so few samples; `curves_go_back` keeps
  99.

Symmetry is not used, because most runs check liveness.

## 4. Fairness

- **Benchmarks** (`LatencyRound`, `PingPong`, `Contention`): weak fairness of the
  steps of main and of each thread. The code relies on the operating system to
  run every runnable thread eventually, spinning ones included; a thread asleep
  in `wait()` has no step enabled, so nothing is assumed of it until it is
  notified. Spurious wake-ups may happen at any time but are never promised:
  a notification lost is a hang, and `ImplementsHandoff` and
  `SamplesComplete` would fail.
- **Mutexes and semaphores** need no more: there is one other party at a time in
  the latency benchmarks, and in `Contention` each thread locks a bounded number
  of times, so somebody else's turns run out.
- **Spinlocks**: weak fairness of each thread's steps inside `lock()` and
  `unlock()`, and none on calling them. This justifies that a free lock with
  waiters is taken by *somebody*; neither class is starvation free and
  `AbstractLock` does not say so.
- **ThreadMap**, **Suite**, and both together with their consoles
  (`GridReporter`, `ProgressReporter`): main keeps running. Neither the
  scheduler's migrations nor an exception has to happen. The console takes
  what it is sent in the same step.
- **Screen**, **PixelScreen**, **EscapeSizes**, **Plots** state safety only and
  assume none.

## 5. Proofs

Eight modules, checked by TLAPS to the last leaf, for all values of the
constants. The assumptions are the named `ASSUME`s of the modules, which TLC
evaluates for every run:

- at least one round, ping, call, increment and sample, a `nullopt` that is no
  number and a `destroyed` that is none either (`LatencyRound`, `PingPong`,
  `Contention`), and an `int` that goes from -MaxInt - 1 to MaxInt and can count
  the increments of one sample (`Contention`);
- a `nobody` that is no thread (`Spinlocks`), core counts that are naturals and
  latencies that are positive (`ThreadMap`), more than one sample per benchmark
  (`Suite`);
- windows of at least one line and column (`GridReporter`, `ProgressReporter`,
  `Screen`), descriptions with a length (`ProgressReporter`), screens of at least
  one cell, a cell that is a letter with a format, and texts whose letters give
  cells (`Screen`, `PixelScreen`);
- finitely many benchmarks, at least two samples each, samples that are integers,
  and a percentile from 0 to 100 (`Plots`).

Six theorems about a console have a hypothesis in addition, because the code
keeps its promise only there, and all instances of the runs satisfy it:

| Theorem | Hypothesis | Why |
|---|---|---|
| `GridOnConsole`, `CursorIsHome` | core_count ≤ 128 | the amount of a relative move is a byte, and a row of n cores is 2n - 1 letters; the affinity mask has 64 bits |
| `ProgressOnConsole` | `WideEnough`: a description, colon, blank and the four letters of 100% fit the window | otherwise the console breaks the line, and the column the percentage is written to is in the next one |
| `LastFrameOnConsole`, `PixelsOnConsole` | `ScreensFit`: screens lie in the window and in the first 256 lines and columns | a place outside is clamped by the console or does not fit a byte |
| `OnlyChangesOnConsole` | `ScreensFit`, and what other programs have left on the console is no cell of this one (`OtherIsNoCell`) | otherwise what is on the console does not say who wrote it |

**`LatencyRoundProofs`** – `TypeCorrect`, `RoundsIndependent`,
`StampsFollowRelease`, `MailboxIsOfOne`, `ContractsKept` and `RoundsAreHandoffs`,
for every number of rounds and all six benchmarks. None of the four safety
invariants is inductive: whether main may release the mutex depends on where the
thread is, and that the thread is there on what the signals held earlier. The
inductive invariant is

    IInv == TypeOK /\ Programs /\ Positions /\ Values /\ Mailbox /\ Readings /\ Sleeping

*Programs*: which steps each benchmark consists of. *Positions*: how far main
and thread can be apart; the thread is behind the primitive only when main is
past the release. *Values*: what each signal and each primitive holds, as a
function of the two positions; this is where the semaphore's range and the
mutex's owner come from. *Mailbox*: when it is full, and that the stamp is this
round's. *Readings*: the order of the clock readings. *Sleeping*: who can sleep
where, which bounds what a notification can do. Each action has a lemma or a step
that preserves all seven; the typing part needs the others (the semaphore stays
within {0, 1} only by *Values*), so they are proved together.
`RoundsAreHandoffs` is the safety half of the refinement the run checks: with
`IInv` and *Counted* (there is room for another sample until main is done) each
action is mapped to one step of `Handoff` or to none.

**`PingPongProofs`** – `TypeCorrect`, `SamplesExact`, `PlayersStartTogether`,
`LatchIsAlive`, `CallsIndependent`, `EveryStoreCounts` and `CallsAreHandoffs`,
for every number of pings and calls. `SamplesAreSingleHandoffs` needs the whole
game: the sample is right because the clock has counted the stores of both
players, because the second player cannot be ahead, and because no store of the
last call is still to come. The invariant has *Positions*; *Starting* (the latch
counts the players not pinned, also the one that does not exist yet); *Game*
(`platform` is the difference of the two players' stores, which makes it either
equal or one ahead); *Clock* (the time since t0 is the sum of the stores); and
*Sleeping*.

**`ContentionProofs`** – `TypeCorrect`, `WorkIsTimed`, `LatchesAreAlive`,
`SamplesIndependent`, `NothingIsLost` and `LossBounded`, for any number of
threads, increments and samples, and any width of the `int`. The heart is
*Latches*: as long as a latch is alive its counter is the cardinality of the set
of threads that have not counted down. When main is past a wait the set is
empty, so *Positions* knows where all the threads are; this is why nobody is
left in the loop at t1, and why the latches, destroyed before the join, are not
missed. `LatchesAreAlive` and `SamplesIndependent` need one more invariant
(`EndInv`): who is about to notify the end has brought the end latch to zero, so
all others are through, and the flag is set from the first sample's
`test_and_set()` on. *Progress* ties each thread's loop counter to its position and the start
signal to main's. A lemma (`WorkerMoves`) says what any step of a thread does to
the two sets; with it, each action of a thread and of main is one case.

The counters need a second invariant, `CInv`. The increments made so far are a set
of pairs of a thread and an index (*Increments*), so that their number is a
cardinality and not a sum over threads; one more is made where a thread stores,
and at t1 the set is the whole product. *Exact*: under the mutex the value a
thread has loaded is still the counter when it stores, because only the owner is
between load and unlock; the counter is the number of all increments of all
samples, wrapped to the `int`. *Bounded*, for the two benchmarks that lose
increments: every value held is at most the number of increments made, and a
thread in its second iteration has loaded at least 1, since its own first store
came before. Hence the last store of the sample leaves at least 2, which is the
part of `LossIsBounded` that is not obvious: all of the increments but two can be
lost.

**`SpinlocksProofs`** – `TypeCorrect`, `Exclusive` and `SpinlocksAreLocks`, for
every set of threads. `MutualExclusion` is not inductive: a thread that found the
flag clear may join one that is inside, unless the flag says so. The
strengthening is *TakenIffInside*: the member is true exactly while a thread is
inside. Three lemmas (a step outside, entering, leaving) cover all actions.
`SpinlocksAreLocks` maps the holder to the thread inside and shows that every
step is an AbstractLock step or changes nothing it shows.

**`ThreadMapProofs`** – `TypeCorrect`, `OffOnceMoved`, `GridIsTruthful`,
`PlotIsWhole` and `OnlyTwoCoresTerminate`, for every number of cores, any order
of the indices and any scheduler. The invariant adds to the types and the grid:
*PairUnderWay* (a measured index has its row less than its column),
*Whereabouts* (main is pinned to the core the code remembers, once it has been
pinned, and that core has been compared with the pair), *Measured* (an index has
a time if and only if the loop has been at it and it is above the diagonal). The
lemmas *Decode*, *Encode* and *InRange* are the arithmetic of
`std::div(index, core_count)`. `OnlyTwoCoresTerminate` says that neither
`pick_another_thread()` nor `set_thread_affinity()` gives up on a machine with
any other number of cores.

On the console: `GridReporterImplementsThreadMap` (so all of the above holds
with the reporter at work), `GridOnConsole` and `CursorIsHome`, for every number
of cores, window and first line. The invariant `ConsoleInv` says that between
two calls the cursor is in the first column of the grid's first line, and that
every cell shows the state of its pair. What the constructor draws is proved by
induction over the columns of a row (`RowDisplayed`) and over the rows
(`RowsDisplayed`), in a window that may scroll under it; what a mark draws, by
showing that for each of its two letters the moves to the left and up undo the
letter and those to the right and down (`RelativeWrite`), and that only the two
cells of the pair are written (`OnlyThePair`).

**`TerminalProofs`** holds what these proofs share. `Display` folds a string of
sequences into a console with a recursive function; `DisplayUnfolds` derives its
equations, and from them come that an empty string changes nothing and that a
string is displayed one part after the other (`DisplayJoined`). A lemma for each
sequence says what `Apply` does to a console whose cursor is at a known place,
and `DisplayKeeps` that nothing that is sent moves the cursor out of the window.
The induction is over a set of naturals (`Induction`), from the theorem that <
is well-founded, since the library's induction theorem cannot be used here.

**`SuiteProofs`** – `FileComplete`, for every number of samples: a file that is
written to its end has n samples of each benchmark, whatever reports are left
out, and until then the file is what it was. The
invariant says which benchmarks have been put away, and that the results have an
entry for no other: without the latter `emplace()` could leave an old entry in
place. `ProgressReporterImplementsSuite` carries this over to the suite with its
console, and `ProgressOnConsole` is about that console: the lines of the
benchmarks that are over, counted back from the line of the cursor and as far as
they have not scrolled away, show 100%; nothing is below it; and the current
line has the description and the last percentage reported (*Rows*, *Waiting*,
*Running*). A percentage overwrites the last one without clearing it. This
leaves no digit behind because what is reported never falls behind the last
report (*ReportedInv*), and a greater percentage is never shorter
(`PercentTextGrows`).

The last three sections of the module are about the results. *Statistics*: the
counts below and up to a value of a finite family grow with the value, so each
rank has exactly one value (`RankedExists`), sorting keeps every count and every
value, and the first occurrence of a value in sorted order plus the number of
its occurrences is the count up to it. `MedianInTheMiddle` and `CurvesAreShares`
follow; in the latter the point that continues a curve to the end of the axis is
a share too, wherever `np.insert` puts it, so the theorem holds although the
curves may go back (section 6). *Reading*: `ResultsReadBack` has the invariant
that the text written so far, read from its beginning, takes the reader past the
entries written, with exactly their samples (*WriteInv*); an entry is read by
induction over its numbers, and the separator after it leaves the reader where a
name may come, or the end. Only the last token of a file takes a reader to the
end (`OpenStays`), so the beginning of a text is never read as results
(`UnendedIsOpen`).

**`ScreenProofs`** – `TypeCorrect`, `LastFrameOnConsole`, `PixelsOnConsole` and
`OnlyChangesOnConsole`, for screens and pixel screens of any size at any place,
any cells and any sequence of writes and frames. The types matter here: the
renderer divides an index by the width, and a text may not leave its line. A
frame is unfolded to one step per cell (`FrameUnfolds`). The induction over the
cells says that those up to the current one are shown, that the console's format
is the one the renderer remembers, and that its cursor is behind the last cell
written (*Reached*); a cell that is skipped is right because the last frame has
drawn it. With this the invariant of the specification is that the console shows
`m_old_cells` whenever there is a last frame (*ShownInv*). `PixelsOnConsole`
adds the arithmetic of halflines: which pixel is in which half of which line.
`OnlyChangesOnConsole` counts the letters of a frame by the same induction.

No invariant of a run that passes is left without a theorem. Model-checked only:

- liveness: `ImplementsHandoff` (twice) and `ImplementsLock` with their fairness,
  `SamplesComplete`, `MapCompletes`, `SuiteEnds`. ENABLED and fairness are out of
  the prover's reach. The safety half of the three refinements is proved
  (`RoundsAreHandoffs`, `CallsAreHandoffs`, `SpinlocksAreLocks`).
- the four violations of section 6, which are counterexamples.

## 6. Where code and documentation disagree

- **main can be on a measured core** (`main_off_measured_cores`).
  `map_threads.cpp:143` says "Make sure that we're not running on the two targeted
  threads." The code reads its core once, at line 125, and pins main only when
  the recorded core is one of the pair. Until the first such pair main is not
  pinned, the scheduler may move it, and the comparison uses an old core. From
  the first move on the comment is true; this is `OffOnceMoved`.
- **The flag loses increments** (`flag_loses_increments`). `readme.md:80` and 83
  describe threads that increment a shared integer, signalled one after another by
  a flag. Nothing clears the flag after `contention_atomic_flag.cpp:46`, so every
  `wait(false)` passes at once, and `++value` at line 24 races. In every later
  sample the flag is set from the beginning. `LossIsBounded` says how much is
  left at least.
- **The computed sizes are not exact** (`escape_sizes`). `oof.h:123` promises the
  exact size. `get_sequence_string_size()` counts the digits of a line or column,
  the string has that number plus one: one short for 9 and 99. `bg_index` has no
  case of its own, `set_index_color` is counted differently from how it is
  written. The function reserves memory, so the effect is a reallocation.
- **The curves go back** (`curves_go_back`). `readme.md:8` calls the plots
  cumulative distributions, and `plot.py:87` labels them with the probability of
  values ≤ x. Where the slowest sample lies within the axis, `get_cdf()` adds the
  end of the axis to the curve before the last point (`plot.py:59`), so that the
  line runs to 100 % at the end of the axis and back to the slowest sample.
  `PointsAreShares` says that all the other points are right.

## 7. Abstractions, and what is not modelled

- *Clock.* `LatencyRound` ticks once per reading, so the order of readings is all
  it has; `PingPong` ticks once per handoff, so that a correct sample is 1.
  Neither says how long anything takes.
- *Memory.* All accesses are sequentially consistent, the default the code uses
  everywhere but in the two spinlocks (acquire, release, and relaxed loops that
  only read). For a single atomic object this makes no difference to mutual
  exclusion; that the protected data is visible is not modelled.
- *Data races.* `++value` is a read and a write; the build could produce no
  worse on the platforms the program supports.
- *std::latch, std::mutex, std::binary_semaphore, jthread* are modelled by
  their contracts from how the code uses them. A latch's `count_down()` is a
  decrement and a notification, so that the notification can come late:
  in `Contention` the last one may run when the latch is already destroyed.
  `LatchesOutliveTheirUse` does not rule this out, because the code does not; it
  says that it is the only such access, and that at most one thread per sample
  makes it, when all others are through.
- *The counter's width.* `contention_mutex` never resets its `int`; with 43
  threads 50'000 samples overflow it, which the language leaves undefined. The
  model wraps around (`AsInt`), as the compilers the project is built with do,
  and `CountIsExact` is meant modulo the number of ints.
- *Bytes.* oof's line, column and amount are bytes (`Byte` in `EscapeSequences`),
  but the runs use consoles much smaller than 256. The theorems name where this
  matters (section 5).
- *`write_into()`* refuses a text that would just reach the last column; the model
  has that guard as it is.
- *Random order* is any order; the seed is fixed in the code, so this is more
  than the program can do.
- *Windows.* `SetThreadAffinityMask()` succeeds and moves the thread at once;
  machines have at most 64 processors, one per bit of the mask.
- *numpy and json.* The percentile is the `interpolation="higher"` the script
  asks for, reading the file is the grammar of JSON as far as the file can use it.
- *`terminate()`* in `pick_another_thread()` and exceptions of thread creation end
  the program. `set_thread_affinity()` terminates it too when there is no such
  core; the model has the branch, and the proofs show that it is never taken.
- *The file.* `json_write()` looks neither at whether `json_out.txt` could be
  opened nor at whether all of the text was written. `Suite` has both: the file
  is then what an earlier run left (or missing), or `Truncated`. `Plots` has the
  second in detail, for a text that ends after any token; one that ends within a
  token has lost its closing brace as well and is refused for the same reason. The
  results of an earlier run look like those of this one to `plot.py`; neither the
  code nor a property tells them apart. A crash of the machine is not modelled.
- *Samples and texts.* A sample in `Suite` is only the benchmark it was taken by,
  in `Plots` a small number; a description is a few letters, the JSON text a
  sequence of tokens, a percentage its digits. One sample per benchmark, for which
  `report()` would divide zero by zero, is left out: `main()` takes 50'000.

Not modelled: the body of `thread_start_cost` (two readings around one call),
`mutex_lock_unlock_latency_st` and `minimum_sleep` (not called,
single-threaded), the metrics `plot.py` prints and the drawing it leaves to
matplotlib, build files. Three modelled parts are not called by the current
`main()` either: the thread map, `atomic_flag_clear_latency` and
`contention_atomic_large`.

## 8. Plan

Done, in this order: the latency benchmarks with their abstract specification and
proofs (they are what the repository is about), the core latency and the map, the
contention benchmarks, the spinlocks with their proofs, the console, the suite,
the map's proofs; then the compositions of map and suite with the console, the
file and the plots, larger contention instances with an `int` that overflows, and
the proofs about the core latency, the contention benchmarks, the suite and both
refinements of `Handoff`; then the proofs about the counters, the consoles of the
map, the suite and the screens, the file and the plots, and that the map and the
suite with their consoles implement those without.

Next:

1. That some step is enabled for whoever a sleeping thread waits for, as an
   invariant of each benchmark: the part of the liveness properties that needs no
   fairness.
2. How much `contention_atomic_flag` can lose when its threads start together, as
   they do after the first sample.
3. The two benchmarks `main()` does not call, if it calls them again.
