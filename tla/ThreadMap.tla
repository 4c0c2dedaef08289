------------------------------ MODULE ThreadMap ------------------------------
(***************************************************************************)
(* map_threads(): the latency between every two cores, in random order,    *)
(* measured from a main thread that tries to keep off the two cores.  A    *)
(* cell is measured by get_latency(), which is the module PingPong; here   *)
(* it is one step, during which the scheduler may move the main thread.    *)
(*                                                                         *)
(* The number of cores is a variable that Init chooses.                    *)
(***************************************************************************)
EXTENDS Integers

CONSTANTS CoreCounts,   \* values of std::thread::hardware_concurrency()
          Latencies     \* values get_latency() returns

ASSUME CoreCountsAssumption == CoreCounts \subseteq Nat
ASSUME LatenciesAssumption == Latencies \subseteq Nat \ {0} /\ Latencies # {}

VARIABLES core_count,
          mainAt,           \* next step of map_threads()
          runs_on,          \* the core the scheduler has put main on
          affinity,         \* the cores main is allowed to run on
          current_thread,   \* the core map_threads() believes main runs on
          todo,             \* indices the loop has not reached
          index,            \* index of the loop's current iteration
          times,            \* result per index, 0 when not measured
          grid,             \* what the console shows per (column, row)
          data              \* data["thread_map"]

vars == <<core_count, mainAt, runs_on, affinity, current_thread, todo, index,
          times, grid, data>>

\* hardware_concurrency() may be 0 (unknown); the machine still has a core.
Cores == 0 .. (IF core_count = 0 THEN 0 ELSE core_count - 1)
Indices == 0 .. core_count * core_count - 1
Cells == (0 .. core_count - 1) \X (0 .. core_count - 1)

\* const auto [cpu_b, cpu_a] = std::div(index, core_count)
CpuA(n) == n % core_count
CpuB(n) == n \div core_count

cpu_a == CpuA(index)
cpu_b == CpuB(index)

Init ==
    /\ core_count \in CoreCounts
    /\ mainAt = "read_processor"
    /\ affinity = Cores
    /\ runs_on \in affinity
    /\ current_thread = -1
    /\ todo = {}
    /\ index = -1
    /\ times = <<>>
    /\ grid = <<>>
    /\ data = <<>>

MainGoes(from, to) ==
    /\ mainAt = from
    /\ mainAt' = to
    /\ UNCHANGED core_count

\* Mutant: processors are counted from one.
get_logical_processor_number_plus_one == runs_on + 1

\* A processor's number within the machine; it may be out of date at once.
get_logical_processor_number == runs_on

\* Mutant: the scheduler leaves main where it is.
set_thread_affinity_later(cpu) ==
    IF cpu < core_count
    THEN affinity' = {cpu} /\ UNCHANGED runs_on
    ELSE UNCHANGED <<runs_on, affinity>>

\* set_thread_affinity({cpu}) moves the calling thread there for good, and
\* terminates the program when the machine has no such processor.
set_thread_affinity(cpu) ==
    IF cpu < core_count
    THEN affinity' = {cpu} /\ runs_on' = cpu
    ELSE UNCHANGED <<runs_on, affinity>>
-----------------------------------------------------------------------------
\* Up to the head of the loop: get_logical_processor_number(), the grid, and
\* get_random_indices().  Any order of the indices can come out of a shuffle.
Prologue ==
    /\ MainGoes("read_processor", "loop")
    /\ current_thread' = get_logical_processor_number
    /\ grid' = [c \in Cells |-> "-"]
    /\ times' = [n \in Indices |-> 0]
    /\ todo' = Indices
    /\ UNCHANGED <<runs_on, affinity, index, data>>

\* Mutant: the diagonal is not skipped.
TakeIndexWithDiagonal ==
    \E n \in todo :
        /\ MainGoes("loop", IF CpuB(n) > CpuA(n) THEN "loop" ELSE "mark")
        /\ index' = n
        /\ todo' = todo \ {n}
        /\ UNCHANGED <<runs_on, affinity, current_thread, times, grid, data>>

\* The next iteration; only one of the two indices of a pair is measured.
TakeIndex ==
    \E n \in todo :
        /\ MainGoes("loop", IF CpuB(n) >= CpuA(n) THEN "loop" ELSE "mark")
        /\ index' = n
        /\ todo' = todo \ {n}
        /\ UNCHANGED <<runs_on, affinity, current_thread, times, grid, data>>

\* Mutant: only one of the two cells is written.
MarkOne(state) ==
    grid' = [c \in Cells |-> IF c = <<cpu_a, cpu_b>> THEN state ELSE grid[c]]

\* mark_cores_as_inprogress() and mark_cores_as_done() write both cells.
Mark(state) ==
    grid' = [c \in Cells |->
                 IF c \in {<<cpu_a, cpu_b>>, <<cpu_b, cpu_a>>}
                 THEN state ELSE grid[c]]

MarkInProgress ==
    /\ MainGoes("mark", "pick")
    /\ Mark("in_progress")
    /\ UNCHANGED <<runs_on, affinity, current_thread, todo, index, times, data>>

\* Mutant: only one of the two cores is checked.
StayOnOwnPair ==
    /\ MainGoes("pick", "measure")
    /\ current_thread # cpu_a
    /\ UNCHANGED <<runs_on, affinity, current_thread, todo, index, times,
                   grid, data>>

\* pick_another_thread(): no need to move
StayPut ==
    /\ MainGoes("pick", "measure")
    /\ current_thread \notin {cpu_a, cpu_b}
    /\ UNCHANGED <<runs_on, affinity, current_thread, todo, index, times,
                   grid, data>>

\* The cores pick_another_thread() may return.
Spare == {c \in 0 .. core_count - 1 : c \notin {current_thread, cpu_a, cpu_b}}

\* Mutant: main moves but map_threads() keeps its old idea of where it is.
MoveAwayUnnoticed ==
    \E new_thread \in Spare :
        /\ \A c \in Spare : new_thread <= c
        /\ MainGoes("pick", IF new_thread < core_count THEN "measure"
                            ELSE "terminated")
        /\ current_thread \in {cpu_a, cpu_b}
        /\ set_thread_affinity(new_thread)
        /\ UNCHANGED <<current_thread, todo, index, times, grid, data>>

\* ... the lowest spare core, where main is sent
MoveAway ==
    \E new_thread \in Spare :
        /\ \A c \in Spare : new_thread <= c
        /\ MainGoes("pick", IF new_thread < core_count THEN "measure"
                            ELSE "terminated")
        /\ current_thread \in {cpu_a, cpu_b}
        /\ set_thread_affinity(new_thread)
        /\ current_thread' = new_thread
        /\ UNCHANGED <<todo, index, times, grid, data>>

\* ... or std::terminate()
Abort ==
    /\ MainGoes("pick", "terminated")
    /\ current_thread \in {cpu_a, cpu_b}
    /\ Spare = {}
    /\ UNCHANGED <<runs_on, affinity, current_thread, todo, index, times,
                   grid, data>>

\* times[index] = get_latency(cpu_a, cpu_b)
Measure ==
    /\ MainGoes("measure", "mark_done")
    /\ \E t \in Latencies : times' = [times EXCEPT ![index] = t]
    /\ UNCHANGED <<runs_on, affinity, current_thread, todo, index, grid, data>>

MarkDone ==
    /\ MainGoes("mark_done", "loop")
    /\ Mark("done")
    /\ UNCHANGED <<runs_on, affinity, current_thread, todo, index, times, data>>

\* data["thread_map"] = times
Publish ==
    /\ todo = {}
    /\ MainGoes("loop", "done")
    /\ data' = times
    /\ UNCHANGED <<runs_on, affinity, current_thread, todo, index, times, grid>>

MainStep ==
    \/ Prologue \/ TakeIndex \/ MarkInProgress \/ StayPut \/ MoveAway \/ Abort
    \/ Measure \/ MarkDone \/ Publish

\* The scheduler may move main at any time to any core it is allowed on.
Migrate ==
    /\ mainAt \notin {"done", "terminated"}
    /\ runs_on' \in affinity \ {runs_on}
    /\ UNCHANGED <<core_count, mainAt, affinity, current_thread, todo, index,
                   times, grid, data>>

Terminating ==
    /\ mainAt \in {"done", "terminated"}
    /\ UNCHANGED vars

Next == MainStep \/ Migrate \/ Terminating

\* Main keeps running, on whatever core.
Spec == Init /\ [][Next]_vars /\ WF_vars(MainStep)
-----------------------------------------------------------------------------
(* Properties *)

\* The variables keep their types; every core main runs on or is believed on
\* exists.
TypeOK ==
    /\ core_count \in CoreCounts
    /\ mainAt \in {"read_processor", "loop", "mark", "pick", "measure",
                   "mark_done", "done", "terminated"}
    /\ runs_on \in affinity
    /\ affinity \subseteq Cores
    /\ current_thread \in Cores \cup {-1}
    /\ todo \subseteq Indices
    /\ index \in Indices \cup {-1}
    /\ mainAt # "read_processor" =>
         /\ times \in [Indices -> Nat]
         /\ grid \in [Cells -> {"-", "in_progress", "done"}]
         /\ current_thread \in Cores

\* The index whose measurement a cell of the grid shows.
Row(c) == IF c[1] < c[2] THEN c[1] ELSE c[2]
Column(c) == IF c[1] < c[2] THEN c[2] ELSE c[1]
IndexOf(c) == Row(c) * core_count + Column(c)

\* Mutant: the matrix is shown as it is.
HeatmapUnmirrored ==
    [c \in Cells |-> data[c[1] * core_count + c[2]]]

\* plot_heatmap(): the published times by row and column, each cell the larger
\* of itself and its mirror image.
Heatmap ==
    LET m == [c \in Cells |-> data[c[1] * core_count + c[2]]]
    IN [c \in Cells |-> IF m[c] < m[<<c[2], c[1]>>] THEN m[<<c[2], c[1]>>]
                        ELSE m[c]]

\* The plot shows, for every two different cores, the one time that was
\* measured for them, in both of their cells: map_threads() measures above the
\* diagonal and plot_heatmap() mirrors there.  The diagonal stays 0.
HeatmapIsWhole ==
    mainAt = "done" =>
        \A c \in Cells :
            IF c[1] = c[2] THEN Heatmap[c] = 0
            ELSE Heatmap[c] = times[IndexOf(c)] /\ Heatmap[c] # 0

\* Once map_threads() has moved main, it knows where main is, and main is
\* never on a core under measurement, however the scheduler behaves.
MovedOffMeasuredCores ==
    affinity # Cores =>
        /\ runs_on = current_thread
        /\ mainAt = "measure" => runs_on \notin {cpu_a, cpu_b}

\* What the code's comment says: main is not on a core under measurement.
OffMeasuredCores ==
    mainAt = "measure" => runs_on \notin {cpu_a, cpu_b}

\* The grid shows the state of the run: a pair is done in both cells when its
\* time is known, and in progress only while it is measured.
GridShowsProgress ==
    mainAt # "read_processor" =>
        \A c \in Cells :
            grid[c] = IF /\ mainAt \in {"pick", "measure", "mark_done",
                                        "terminated"}
                         /\ IndexOf(c) = index
                      THEN "in_progress"
                      ELSE IF times[IndexOf(c)] # 0 THEN "done" ELSE "-"

\* The map is completed on every machine but one: with two cores there is
\* nowhere to go, and pick_another_thread() terminates the program.
MapCompletes == <>(mainAt = IF core_count = 2 THEN "terminated" ELSE "done")
=============================================================================
