--------------------------- MODULE ThreadMapProofs ---------------------------
(***************************************************************************)
(* Proofs about ThreadMap, for every number of cores, every order of the   *)
(* indices and whatever the scheduler does: main keeps off the measured    *)
(* cores once it has been moved, the published map is complete, and the    *)
(* grid tells the truth.                                                   *)
(*                                                                         *)
(* The second half is about GridReporter, for every size of the console:   *)
(* it implements ThreadMap, the cursor comes back from every write, and    *)
(* the console shows the grid.                                             *)
(***************************************************************************)
EXTENDS GridReporter, TerminalProofs
-----------------------------------------------------------------------------
(* The arithmetic of index = row * core_count + column *)

\* std::div() of an index computed from a row and a column yields the two.
LEMMA Decode ==
  ASSUME NEW k \in Nat \ {0}, NEW y \in Nat, NEW x \in 0 .. k - 1
  PROVE  /\ (y * k + x) % k = x
         /\ (y * k + x) \div k = y
  OBVIOUS

\* A row and a column make an index of the map.
LEMMA InRange ==
  ASSUME NEW k \in Nat \ {0}, NEW y \in 0 .. k - 1, NEW x \in 0 .. k - 1
  PROVE  y * k + x \in 0 .. k * k - 1
  OBVIOUS

\* An index is made of the row and the column std::div() yields.
LEMMA Encode ==
  ASSUME NEW k \in Nat \ {0}, NEW n \in Nat
  PROVE  /\ n \div k \in Nat
         /\ n % k \in 0 .. k - 1
         /\ n = (n \div k) * k + (n % k)
  OBVIOUS

\* Rows and columns are numbers.
LEMMA RowAndColumn ==
  ASSUME core_count \in Nat, NEW n \in Indices
  PROVE  CpuA(n) \in Int /\ CpuB(n) \in Int
  BY Encode DEF Indices, CpuA, CpuB

\* Every cell of the grid has an index.
LEMMA CellIndex ==
  ASSUME core_count \in Nat, NEW c \in Cells
  PROVE  IndexOf(c) \in Indices
  <1>1. /\ core_count \in Nat \ {0}
        /\ Row(c) \in 0 .. core_count - 1
        /\ Column(c) \in 0 .. core_count - 1
    BY DEF Cells, Row, Column
  <1>2. Row(c) * core_count + Column(c) \in 0 .. core_count * core_count - 1
    BY <1>1, InRange, Zenon
  <1>3. QED
    BY <1>2 DEF IndexOf, Indices

\* Two cells show an index whose row is less than its column.
LEMMA CellsOfIndex ==
  ASSUME core_count \in Nat, NEW c \in Cells, NEW n \in Indices,
         CpuB(n) < CpuA(n)
  PROVE  IndexOf(c) = n <=> c \in {<<CpuA(n), CpuB(n)>>, <<CpuB(n), CpuA(n)>>}
  <1>1. /\ core_count \in Nat \ {0}
        /\ Row(c) \in Nat
        /\ Column(c) \in 0 .. core_count - 1
        /\ n \in Nat
    BY DEF Cells, Row, Column, Indices
  <1>2. CpuA(IndexOf(c)) = Column(c) /\ CpuB(IndexOf(c)) = Row(c)
    BY <1>1, Decode DEF IndexOf, CpuA, CpuB
  <1>3. n = CpuB(n) * core_count + CpuA(n)
    BY <1>1, Encode DEF CpuA, CpuB
  <1>4. CpuA(n) \in Int /\ CpuB(n) \in Int
    BY <1>1, Encode DEF CpuA, CpuB
  <1>5. c = <<c[1], c[2]>> /\ c[1] \in Int /\ c[2] \in Int
    BY DEF Cells
  <1>6. ASSUME IndexOf(c) = n
        PROVE  c \in {<<CpuA(n), CpuB(n)>>, <<CpuB(n), CpuA(n)>>}
    BY <1>2, <1>5, <1>6 DEF Row, Column
  <1>7. ASSUME c \in {<<CpuA(n), CpuB(n)>>, <<CpuB(n), CpuA(n)>>}
        PROVE  IndexOf(c) = n
    <2>1. Row(c) = CpuB(n) /\ Column(c) = CpuA(n)
      BY <1>4, <1>7 DEF Row, Column
    <2>2. QED
      BY <2>1, <1>3 DEF IndexOf
  <1>8. QED
    BY <1>6, <1>7
-----------------------------------------------------------------------------
(* The inductive invariant *)

\* The steps within an iteration that has not been skipped.
InIteration == {"mark", "pick", "measure", "mark_done", "terminated"}

\* Such an iteration is for a pair of different cores.
PairUnderWay ==
    mainAt \in InIteration => index \in Indices /\ cpu_b < cpu_a

\* Where main is: it runs anywhere until it has been moved, then on the core
\* map_threads() remembers, which is checked before every measurement.
Whereabouts ==
    /\ affinity # Cores => affinity = {current_thread}
    /\ mainAt = "measure" => current_thread \notin {cpu_a, cpu_b}

\* An index is measured if and only if the loop has been at it and its row is
\* less than its column.  The one under way need not be measured yet.
Measured ==
    mainAt # "read_processor" =>
        /\ \A n \in todo : times[n] = 0
        /\ \A n \in Indices \ todo :
             \/ mainAt \in InIteration \ {"mark_done"} /\ n = index
             \/ CpuB(n) < CpuA(n) <=> times[n] # 0
        /\ mainAt \in InIteration => index \notin todo
        /\ mainAt = "done" => todo = {} /\ data = times

IInv ==
    /\ TypeOK
    /\ PairUnderWay
    /\ Whereabouts
    /\ Measured
    /\ GridShowsProgress
-----------------------------------------------------------------------------
\* The initial state satisfies it.
LEMMA InitIInv == Init => IInv
  BY CoreCountsAssumption
  DEF Init, IInv, TypeOK, PairUnderWay, Whereabouts, Measured,
      GridShowsProgress, InIteration, Cores

\* The scheduler moves main, or nothing happens.
LEMMA MigrateStep ==
  ASSUME IInv, UNCHANGED <<core_count, mainAt, affinity, current_thread, todo,
                           index, times, grid, data>>,
         runs_on' \in affinity
  PROVE  IInv'
  <1>1. TypeOK'
    BY DEF IInv, TypeOK, Cores, Indices, Cells
  <1>2. PairUnderWay' /\ Whereabouts' /\ Measured'
    BY DEF IInv, PairUnderWay, Whereabouts, Measured, Cores, Indices, Cells,
           InIteration, cpu_a, cpu_b, CpuA, CpuB
  <1>3. GridShowsProgress'
    BY DEF IInv, GridShowsProgress, Cells, IndexOf, Row, Column
  <1>4. QED
    BY <1>1, <1>2, <1>3 DEF IInv

\* Nothing is measured when the loop begins.
LEMMA PrologueStep == IInv /\ Prologue => IInv'
  <1> SUFFICES ASSUME IInv, Prologue PROVE IInv'
    OBVIOUS
  <1> USE DEF Prologue, MainGoes, get_logical_processor_number
  <1>1. TypeOK'
    BY DEF IInv, TypeOK, Cores, Indices, Cells
  <1>2. PairUnderWay' /\ Whereabouts' /\ Measured'
    BY DEF IInv, TypeOK, PairUnderWay, Whereabouts, Measured, Cores, Indices,
           InIteration
  <1>3. ASSUME NEW c \in Cells PROVE grid'[c] = "-" /\ times'[IndexOf(c)] = 0
    <2>1. IndexOf(c) \in Indices
      BY CellIndex, CoreCountsAssumption DEF IInv, TypeOK
    <2>2. QED
      BY <2>1
  <1>4. GridShowsProgress'
    BY <1>3 DEF GridShowsProgress, Cells, IndexOf, Row, Column
  <1>5. QED
    BY <1>1, <1>2, <1>4 DEF IInv

\* The next index is skipped or a pair to be measured.
LEMMA TakeIndexStep == IInv /\ TakeIndex => IInv'
  <1> SUFFICES ASSUME IInv, NEW n \in todo,
                      MainGoes("loop", IF CpuB(n) >= CpuA(n)
                                       THEN "loop" ELSE "mark"),
                      index' = n, todo' = todo \ {n},
                      UNCHANGED <<runs_on, affinity, current_thread, times,
                                  grid, data>>
               PROVE  IInv'
    BY DEF TakeIndex
  <1> USE DEF MainGoes
  <1>1. TypeOK'
    BY DEF IInv, TypeOK, Cores, Indices, Cells
  <1>2. /\ core_count \in Nat
        /\ n \in Indices
        /\ CpuA(n) \in Int
        /\ CpuB(n) \in Int
    BY CoreCountsAssumption, RowAndColumn DEF IInv, TypeOK
  <1>3. PairUnderWay'
    BY <1>2 DEF PairUnderWay, InIteration, cpu_a, cpu_b, CpuA, CpuB, Indices
  <1>4. Whereabouts'
    BY DEF IInv, Whereabouts, Cores
  <1>5. Measured'
    BY <1>2 DEF IInv, Measured, InIteration, Indices, CpuA, CpuB
  <1>6. GridShowsProgress'
    BY DEF IInv, GridShowsProgress, Cells, IndexOf, Row, Column
  <1>7. QED
    BY <1>1, <1>3, <1>4, <1>5, <1>6 DEF IInv

\* A mark changes the two cells of the index under way, and no other.
LEMMA MarkedCells ==
  ASSUME IInv, mainAt \in InIteration, NEW state, Mark(state), NEW c \in Cells
  PROVE  grid'[c] = IF IndexOf(c) = index THEN state ELSE grid[c]
  <1>1. core_count \in Nat /\ index \in Indices /\ CpuB(index) < CpuA(index)
    BY CoreCountsAssumption DEF IInv, TypeOK, PairUnderWay, cpu_a, cpu_b
  <1>2. IndexOf(c) = index <=> c \in {<<cpu_a, cpu_b>>, <<cpu_b, cpu_a>>}
    BY <1>1, CellsOfIndex DEF cpu_a, cpu_b
  <1>3. QED
    BY <1>2 DEF Mark

\* The pair's two cells turn to in progress as it gets under way.
LEMMA MarkInProgressStep == IInv /\ MarkInProgress => IInv'
  <1> SUFFICES ASSUME IInv, MarkInProgress PROVE IInv'
    OBVIOUS
  <1> USE DEF MarkInProgress, MainGoes
  <1>1. \A c \in Cells :
          grid'[c] = IF IndexOf(c) = index THEN "in_progress" ELSE grid[c]
    BY MarkedCells DEF InIteration
  <1>2. grid' \in [Cells -> {"-", "in_progress", "done"}]
    BY <1>1 DEF Mark, IInv, TypeOK
  <1>3. TypeOK'
    BY <1>2 DEF IInv, TypeOK, Cores, Indices, Cells
  <1>4. PairUnderWay' /\ Whereabouts' /\ Measured'
    BY DEF IInv, PairUnderWay, Whereabouts, Measured, Cores, Indices,
           InIteration, cpu_a, cpu_b, CpuA, CpuB
  <1>5. GridShowsProgress'
    BY <1>1 DEF IInv, GridShowsProgress, Cells, IndexOf, Row, Column
  <1>6. QED
    BY <1>3, <1>4, <1>5 DEF IInv

\* pick_another_thread() leaves main on a core it knows, off the pair.
LEMMA PickStep == IInv /\ (StayPut \/ MoveAway \/ Abort) => IInv'
  <1> SUFFICES ASSUME IInv, StayPut \/ MoveAway \/ Abort PROVE IInv'
    OBVIOUS
  <1> USE DEF MainGoes
  <1>1. /\ mainAt = "pick" /\ mainAt' \in {"measure", "terminated"}
        /\ UNCHANGED <<core_count, todo, index, times, grid, data>>
    BY DEF StayPut, MoveAway, Abort
  <1>2. /\ runs_on' \in affinity'
        /\ affinity' \subseteq Cores
        /\ current_thread' \in Cores
        /\ Whereabouts'
    <2>1. core_count \in Nat
      BY CoreCountsAssumption DEF IInv, TypeOK
    <2>2. CASE StayPut
      BY <2>2 DEF StayPut, IInv, TypeOK, Whereabouts, Cores, cpu_a, cpu_b,
                  CpuA, CpuB
    <2>3. CASE MoveAway
      <3>1. PICK new_thread \in Spare :
              /\ set_thread_affinity(new_thread)
              /\ current_thread' = new_thread
        BY <2>3 DEF MoveAway
      <3>2. affinity' = {new_thread} /\ runs_on' = new_thread
        BY <2>1, <3>1 DEF set_thread_affinity, Spare
      <3>3. QED
        BY <1>1, <2>1, <3>1, <3>2 DEF Spare, Whereabouts, Cores, cpu_a, cpu_b,
                                      CpuA, CpuB
    <2>4. CASE Abort
      BY <2>4 DEF Abort, IInv, TypeOK, Whereabouts, Cores
    <2>5. QED
      BY <2>2, <2>3, <2>4
  <1>3. TypeOK'
    BY <1>1, <1>2 DEF IInv, TypeOK, Cores, Indices, Cells
  <1>4. PairUnderWay' /\ Measured'
    BY <1>1 DEF IInv, PairUnderWay, Measured, Indices, InIteration, cpu_a,
                cpu_b, CpuA, CpuB
  <1>5. GridShowsProgress'
    BY <1>1 DEF IInv, GridShowsProgress, Cells, IndexOf, Row, Column
  <1>6. QED
    BY <1>2, <1>3, <1>4, <1>5 DEF IInv

\* Only the index under way gets a time.
LEMMA MeasureStep == IInv /\ Measure => IInv'
  <1> SUFFICES ASSUME IInv, MainGoes("measure", "mark_done"),
                      NEW t \in Latencies,
                      times' = [times EXCEPT ![index] = t],
                      UNCHANGED <<runs_on, affinity, current_thread, todo,
                                  index, grid, data>>
               PROVE  IInv'
    BY DEF Measure
  <1> USE DEF MainGoes
  <1>1. /\ times \in [Indices -> Nat]
        /\ index \in Indices
        /\ cpu_b < cpu_a
        /\ index \notin todo
        /\ t \in Nat \ {0}
    BY LatenciesAssumption DEF IInv, TypeOK, PairUnderWay, Measured,
                               InIteration
  <1>2. TypeOK'
    BY <1>1 DEF IInv, TypeOK, Cores, Indices, Cells
  <1>3. PairUnderWay' /\ Whereabouts'
    BY DEF IInv, PairUnderWay, Whereabouts, Cores, Indices, InIteration,
           cpu_a, cpu_b, CpuA, CpuB
  <1>4. Measured'
    BY <1>1 DEF IInv, TypeOK, Measured, Indices, InIteration, cpu_a, cpu_b,
                CpuA, CpuB
  <1>5. ASSUME NEW c \in Cells, IndexOf(c) # index
        PROVE  times'[IndexOf(c)] = times[IndexOf(c)]
    BY <1>1, <1>5
  <1>6. GridShowsProgress'
    BY <1>5 DEF IInv, GridShowsProgress, Cells, IndexOf, Row, Column
  <1>7. QED
    BY <1>2, <1>3, <1>4, <1>6 DEF IInv

\* The pair is shown as done when its time is known.
LEMMA MarkDoneStep == IInv /\ MarkDone => IInv'
  <1> SUFFICES ASSUME IInv, MarkDone PROVE IInv'
    OBVIOUS
  <1> USE DEF MarkDone, MainGoes
  <1>1. \A c \in Cells :
          grid'[c] = IF IndexOf(c) = index THEN "done" ELSE grid[c]
    BY MarkedCells DEF InIteration
  <1>2. grid' \in [Cells -> {"-", "in_progress", "done"}]
    BY <1>1 DEF Mark, IInv, TypeOK
  <1>3. TypeOK'
    BY <1>2 DEF IInv, TypeOK, Cores, Indices, Cells
  <1>4. PairUnderWay' /\ Whereabouts' /\ Measured'
    BY DEF IInv, PairUnderWay, Whereabouts, Measured, Cores, Indices,
           InIteration, CpuA, CpuB
  <1>5. times[index] # 0
    BY DEF IInv, PairUnderWay, Measured, InIteration, cpu_a, cpu_b
  <1>6. GridShowsProgress'
    BY <1>1, <1>5 DEF IInv, GridShowsProgress, Cells, IndexOf, Row, Column
  <1>7. QED
    BY <1>3, <1>4, <1>6 DEF IInv

\* The loop is over: every index has been taken.
LEMMA PublishStep == IInv /\ Publish => IInv'
  <1> SUFFICES ASSUME IInv, Publish PROVE IInv'
    OBVIOUS
  <1> USE DEF Publish, MainGoes
  <1>1. TypeOK'
    BY DEF IInv, TypeOK, Cores, Indices, Cells
  <1>2. PairUnderWay' /\ Whereabouts' /\ Measured'
    BY DEF IInv, PairUnderWay, Whereabouts, Measured, Cores, Indices,
           InIteration, CpuA, CpuB
  <1>3. GridShowsProgress'
    BY DEF IInv, GridShowsProgress, Cells, IndexOf, Row, Column
  <1>4. QED
    BY <1>1, <1>2, <1>3 DEF IInv

\* Every step preserves the invariant.
LEMMA StepIInv == IInv /\ [Next]_vars => IInv'
  <1> SUFFICES ASSUME IInv, [Next]_vars PROVE IInv'
    OBVIOUS
  <1>1. CASE MainStep
    BY <1>1, PrologueStep, TakeIndexStep, MarkInProgressStep, PickStep,
       MeasureStep, MarkDoneStep, PublishStep DEF MainStep
  <1>2. CASE Migrate
    BY <1>2, MigrateStep DEF Migrate
  <1>3. CASE Terminating \/ UNCHANGED vars
    <2>1. runs_on \in affinity
      BY DEF IInv, TypeOK
    <2>2. QED
      BY <1>3, <2>1, MigrateStep DEF Terminating, vars
  <1>4. QED
    BY <1>1, <1>2, <1>3 DEF Next
-----------------------------------------------------------------------------
(* The theorems *)

\* The invariant holds in every state.
THEOREM Invariance == Spec => []IInv
  BY InitIInv, StepIInv, PTL DEF Spec

\* The variables keep their types: main runs on, and is believed on, cores
\* that exist.
THEOREM TypeCorrect == Spec => []TypeOK
  <1>1. IInv => TypeOK
    BY DEF IInv
  <1>2. QED
    BY <1>1, Invariance, PTL

\* pick_another_thread() keeps main off the measured cores from its first
\* move on, for every number of cores and every scheduler.
THEOREM OffOnceMoved == Spec => []MovedOffMeasuredCores
  <1>1. IInv => MovedOffMeasuredCores
    BY DEF IInv, TypeOK, Whereabouts, MovedOffMeasuredCores
  <1>2. QED
    BY <1>1, Invariance, PTL

\* The grid never shows a pair as done whose time is not known.
THEOREM GridIsTruthful == Spec => []GridShowsProgress
  <1>1. IInv => GridShowsProgress
    BY DEF IInv
  <1>2. QED
    BY <1>1, Invariance, PTL

\* A program that map_threads() has terminated ran on two cores.
TwoCores == mainAt = "terminated" => core_count = 2

\* Every machine but that with two cores has a core to move main to, and
\* set_thread_affinity() is never given one that does not exist.
THEOREM OnlyTwoCoresTerminate == Spec => []TwoCores
  <1>1. Init => TwoCores
    BY DEF Init, TwoCores
  <1>2. IInv /\ TwoCores /\ [Next]_vars => TwoCores'
    <2> SUFFICES ASSUME IInv, TwoCores, [Next]_vars, mainAt' = "terminated",
                        mainAt # "terminated"
                 PROVE  core_count' = 2
      BY DEF Next, MainStep, Prologue, TakeIndex, MarkInProgress, StayPut,
             MoveAway, Abort, Measure, MarkDone, Publish, MainGoes, Migrate,
             Terminating, vars, TwoCores
    <2>1. MoveAway \/ Abort
      BY DEF Next, MainStep, Prologue, TakeIndex, MarkInProgress, StayPut,
             Measure, MarkDone, Publish, MainGoes, Migrate, Terminating, vars
    <2>2. core_count \in Nat
      BY CoreCountsAssumption DEF IInv, TypeOK
    <2>3. CASE MoveAway
      BY <2>2, <2>3 DEF MoveAway, MainGoes, Spare
    <2>4. CASE Abort
      <3>1. /\ current_thread \in {cpu_a, cpu_b}
            /\ Spare = {}
            /\ UNCHANGED core_count
            /\ index \in Indices /\ cpu_b < cpu_a
        BY <2>4 DEF Abort, MainGoes, IInv, PairUnderWay, InIteration
      <3>2. /\ core_count \in Nat \ {0}
            /\ index \in Nat
            /\ cpu_a \in 0 .. core_count - 1
            /\ cpu_b \in Nat
        <4>1. core_count \in Nat \ {0} /\ index \in Nat
          BY <2>2, <3>1 DEF Indices
        <4>2. QED
          BY <4>1, Encode DEF cpu_a, cpu_b, CpuA, CpuB
      <3>3. \A c \in 0 .. core_count - 1 : c = cpu_a \/ c = cpu_b
        BY <3>1 DEF Spare
      <3>4. cpu_a = 1 /\ cpu_b = 0
        BY <3>1, <3>2, <3>3
      <3>5. core_count <= 2
        <4>1. core_count > 2 => 2 \in 0 .. core_count - 1
          BY <3>2
        <4>2. QED
          BY <3>2, <3>3, <3>4, <4>1
      <3>6. QED
        BY <3>1, <3>2, <3>4, <3>5
    <2>5. QED
      BY <2>1, <2>3, <2>4
  <1>3. QED
    BY <1>1, <1>2, Invariance, PTL DEF Spec

\* The published times above the diagonal are measured, the others are 0.
LEMMA TimesOfMap ==
  ASSUME IInv, mainAt = "done",
         NEW a \in 0 .. core_count - 1, NEW b \in 0 .. core_count - 1
  PROVE  /\ data[a * core_count + b] \in Nat
         /\ data[a * core_count + b] = times[a * core_count + b]
         /\ data[a * core_count + b] # 0 <=> a < b
  <1>1. core_count \in Nat \ {0}
    BY CoreCountsAssumption DEF IInv, TypeOK
  <1>2. a * core_count + b \in Indices
    BY <1>1, InRange DEF Indices
  <1>3. /\ CpuB(a * core_count + b) = a
        /\ CpuA(a * core_count + b) = b
    BY <1>1, Decode DEF CpuA, CpuB
  <1>4. QED
    BY <1>2, <1>3 DEF IInv, TypeOK, Measured, InIteration

\* The heat map shows every measured time twice, mirrored at the diagonal.
THEOREM PlotIsWhole == Spec => []HeatmapIsWhole
  <1>1. ASSUME IInv, mainAt = "done", NEW c \in Cells
        PROVE  IF c[1] = c[2] THEN Heatmap[c] = 0
               ELSE Heatmap[c] = times[IndexOf(c)] /\ Heatmap[c] # 0
    <2> DEFINE at(y, x) == data[y * core_count + x]
    <2>1. /\ core_count \in Nat \ {0}
          /\ c[1] \in 0 .. core_count - 1
          /\ c[2] \in 0 .. core_count - 1
          /\ c = <<c[1], c[2]>>
          /\ <<c[2], c[1]>> \in Cells
      BY <1>1, CoreCountsAssumption DEF IInv, TypeOK, Cells
    <2>2. ASSUME NEW y \in 0 .. core_count - 1, NEW x \in 0 .. core_count - 1
          PROVE  /\ at(y, x) \in Nat
                 /\ at(y, x) = times[y * core_count + x]
                 /\ at(y, x) # 0 <=> y < x
      BY <1>1, <2>1, TimesOfMap
    <2>3. Heatmap[c] = IF at(c[1], c[2]) < at(c[2], c[1])
                       THEN at(c[2], c[1]) ELSE at(c[1], c[2])
      BY <2>1 DEF Heatmap
    <2> HIDE DEF at
    <2>4. CASE c[1] = c[2]
      BY <2>1, <2>2, <2>3, <2>4
    <2>5. CASE c[1] < c[2]
      <3>1. IndexOf(c) = c[1] * core_count + c[2]
        BY <2>5 DEF IndexOf, Row, Column
      <3>2. /\ at(c[1], c[2]) = times[IndexOf(c)] /\ at(c[1], c[2]) # 0
            /\ at(c[1], c[2]) \in Nat /\ at(c[2], c[1]) = 0
        BY <2>1, <2>2, <2>5, <3>1
      <3>3. QED
        BY <2>1, <2>3, <2>5, <3>2
    <2>6. CASE c[2] < c[1]
      <3>1. IndexOf(c) = c[2] * core_count + c[1]
        BY <2>1, <2>6 DEF IndexOf, Row, Column
      <3>2. /\ at(c[2], c[1]) = times[IndexOf(c)] /\ at(c[2], c[1]) # 0
            /\ at(c[2], c[1]) \in Nat /\ at(c[1], c[2]) = 0
        BY <2>1, <2>2, <2>6, <3>1
      <3>3. QED
        BY <2>1, <2>3, <2>6, <3>2
    <2>7. QED
      BY <2>1, <2>4, <2>5, <2>6
  <1>2. IInv => HeatmapIsWhole
    BY <1>1 DEF HeatmapIsWhole
  <1>3. QED
    BY <1>2, Invariance, PTL
-----------------------------------------------------------------------------
(* Writing a letter into a cell and coming back *)

\* The moves and the letters are sequences.
LEMMA GridSequences ==
  /\ \A n \in Nat : /\ IsSequence(move("move_left", n))
                    /\ IsSequence(move("move_right", n))
                    /\ IsSequence(move("move_up", n))
                    /\ IsSequence(move("move_down", n))
  /\ \A x : /\ IsSequence(char(x))
            /\ IsSequence(fg_rgb(x))
            /\ IsSequence(cursor_visibility(x))
  /\ IsSequence(newline)
  /\ IsSequence(reset_formatting)
  <1>1. \A n \in Nat : /\ IsSequence(move("move_left", n))
                       /\ IsSequence(move("move_right", n))
                       /\ IsSequence(move("move_up", n))
                       /\ IsSequence(move("move_down", n))
    BY DEF IsSequence, Moves
  <1>2. \A x : /\ IsSequence(char(x))
               /\ IsSequence(fg_rgb(x))
               /\ IsSequence(cursor_visibility(x))
    BY DEF IsSequence
  <1>3. IsSequence(newline)
    BY DEF IsSequence, newline
  <1>4. IsSequence(reset_formatting)
    BY DEF IsSequence
  <1>5. QED
    BY <1>1, <1>2, <1>3, <1>4

\* relative_write() sends sequences, whatever the place.
LEMMA RelativeWriteIsText ==
  ASSUME NEW right \in Nat, NEW down \in Nat, NEW x
  PROVE  IsText(relative_write(right, down, x))
  <1> DEFINE a == IF right > 0 THEN <<move("move_right", right)>> ELSE <<>>
             b == IF down > 0 THEN <<move("move_down", down)>> ELSE <<>>
             c == <<char(x), move("move_left", right + 1)>>
             d == IF down > 0 THEN <<move("move_up", down)>> ELSE <<>>
  <1>1. IsText(a) /\ IsText(b) /\ IsText(d)
    BY GridSequences, ShortTexts
  <1>2. IsText(c)
    <2>1. IsSequence(char(x)) /\ IsSequence(move("move_left", right + 1))
      BY GridSequences
    <2>2. QED
      BY <2>1, ShortTexts
  <1>3. relative_write(right, down, x) = ((a \o b) \o c) \o d
    BY DEF relative_write
  <1> HIDE DEF a, b, c, d
  <1>4. IsText(a \o b)
    BY <1>1, TextJoined
  <1>5. IsText((a \o b) \o c)
    BY <1>2, <1>4, TextJoined
  <1>6. QED
    BY <1>1, <1>3, <1>5, TextJoined

\* The line a move down ends in.
LineBelow(l, down, h) == AtMost(l + down, h - 1)

\* A place that the moves reach, whose numbers fit bytes, with the line in the
\* window or the cursor in its first line.
CanWrite(h, w, l, right, down) ==
    /\ h \in Nat \ {0} /\ w \in Nat \ {0} /\ l \in 0 .. h - 1
    /\ right \in 0 .. 254 /\ down \in 0 .. 255
    /\ right + 1 < w
    /\ l = 0 \/ l + down <= h - 1

\* The cursor comes back from such a place to where it started.
LEMMA RelativeWrite ==
  ASSUME NEW h, NEW w, NEW g, NEW l, NEW f, NEW v, NEW right, NEW down, NEW x,
         CanWrite(h, w, l, right, down)
  PROVE  Display(Showing(h, w, g, l, 0, f, v), relative_write(right, down, x)) =
           Showing(h, w, Written(g, LineBelow(l, down, h), right, x, f),
                   l, 0, f, v)
  <1> DEFINE a == IF right > 0 THEN <<move("move_right", right)>> ELSE <<>>
             b == IF down > 0 THEN <<move("move_down", down)>> ELSE <<>>
             c == <<char(x), move("move_left", right + 1)>>
             d == IF down > 0 THEN <<move("move_up", down)>> ELSE <<>>
             m == LineBelow(l, down, h)
             shown == Written(g, m, right, x, f)
             t == Showing(h, w, g, l, 0, f, v)
             t1 == Showing(h, w, g, l, right, f, v)
             t2 == Showing(h, w, g, m, right, f, v)
             t3 == Showing(h, w, shown, m, right + 1, f, v)
             t4 == Showing(h, w, shown, m, 0, f, v)
             t5 == Showing(h, w, shown, l, 0, f, v)
  <1>0. /\ h \in Nat \ {0} /\ w \in Nat \ {0} /\ l \in 0 .. h - 1
        /\ right \in 0 .. 254 /\ down \in 0 .. 255
        /\ right + 1 < w
        /\ l = 0 \/ l + down <= h - 1
    BY DEF CanWrite
  <1>1. IsString(a) /\ IsString(b) /\ IsString(c) /\ IsString(d)
    BY ShortStrings
  <1>2. relative_write(right, down, x) = ((a \o b) \o c) \o d
    BY DEF relative_write
  <1>3. /\ m \in 0 .. h - 1 /\ right \in 0 .. w - 1
        /\ right + 1 \in 0 .. w - 1 /\ 0 \in 0 .. w - 1
    BY <1>0 DEF LineBelow, AtMost
  <1>4. /\ Inside(l, h) = l /\ Inside(m, h) = m
        /\ AtMost(0, w - 1) = 0 /\ Inside(0, w) = 0
        /\ AtMost(right, w - 1) = right /\ Inside(right, w) = right
        /\ AtMost(right + 1, w - 1) = right + 1
    BY <1>0, <1>3 DEF Inside, AtMost, AtLeast
  <1>5. Display(t, a) = t1
    <2>1. Display(t, a) = IF right > 0 THEN Apply(t, move("move_right", right))
                          ELSE t
      BY DisplayOptional
    <2>2. CASE right > 0
      <3>1. Apply(t, move("move_right", right)) =
              Showing(h, w, g, Inside(l, h), Forth(AtMost(0, w - 1), right, w),
                      f, v)
        BY ApplyRight
      <3>2. right \in 1 .. 255
        BY <1>0, <2>2
      <3>3. Amount(right) = right
        BY <3>2, AmountKept
      <3>4. Forth(0, right, w) = right
        BY <1>0, <1>3, <3>3 DEF Forth, Inside, LineBelow, AtMost, AtLeast
      <3>5. QED
        BY <1>4, <2>1, <2>2, <3>1, <3>4
    <2>3. CASE right = 0
      BY <2>1, <2>3
    <2>4. QED
      BY <1>0, <2>2, <2>3
  <1>6. Display(t1, b) = t2
    <2>1. Display(t1, b) = IF down > 0 THEN Apply(t1, move("move_down", down))
                           ELSE t1
      BY DisplayOptional
    <2>2. CASE down > 0
      <3>1. Apply(t1, move("move_down", down)) =
              Showing(h, w, g, Forth(l, down, h),
                      Inside(AtMost(right, w - 1), w), f, v)
        BY ApplyDown
      <3>2. down \in 1 .. 255
        BY <1>0, <2>2
      <3>3. Amount(down) = down
        BY <3>2, AmountKept
      <3>4. Forth(l, down, h) = m
        BY <1>0, <1>3, <3>3 DEF Forth, Inside, LineBelow, AtMost, AtLeast
      <3>5. QED
        BY <1>4, <2>1, <2>2, <3>1, <3>4
    <2>3. CASE down = 0
      <3>1. m = l
        BY <1>0, <2>3 DEF LineBelow, AtMost
      <3>2. QED
        BY <2>1, <2>3, <3>1
    <2>4. QED
      BY <1>0, <2>2, <2>3
  <1>7. Display(t2, c) = t4
    <2>1. right # w
      BY <1>0, <1>3
    <2> HIDE DEF m
    <2>2. Apply(t2, char(x)) = t3
      BY <2>1, ApplyLetter
    <2>3. Apply(t3, move("move_left", right + 1)) =
            Showing(h, w, shown, Inside(m, h),
                    Back(AtMost(right + 1, w - 1), right + 1, w), f, v)
      <3> HIDE DEF shown
      <3>1. QED
        BY ApplyLeft
    <2>4. Back(right + 1, right + 1, w) = 0
      <3>1. right + 1 \in 1 .. 255
        BY <1>0
      <3>2. Amount(right + 1) = right + 1
        BY <3>1, AmountKept
      <3>3. QED
        BY <1>0, <1>3, <3>2 DEF Back, Inside, LineBelow, AtMost, AtLeast
    <2>5. Display(t2, c) =
            Apply(Apply(t2, char(x)), move("move_left", right + 1))
      BY DisplayTwo
    <2>6. QED
      BY <1>4, <2>2, <2>3, <2>4, <2>5
  <1>8. Display(t4, d) = t5
    <2>1. Display(t4, d) = IF down > 0 THEN Apply(t4, move("move_up", down))
                           ELSE t4
      BY DisplayOptional
    <2>2. CASE down > 0
      <3>1. Apply(t4, move("move_up", down)) =
              Showing(h, w, shown, Back(m, down, h),
                      Inside(AtMost(0, w - 1), w), f, v)
        <4> HIDE DEF shown, m
        <4>1. QED
          BY ApplyUp
      <3>2. down \in 1 .. 255
        BY <1>0, <2>2
      <3>3. Amount(down) = down
        BY <3>2, AmountKept
      <3>4. Back(m, down, h) = l
        BY <1>0, <1>3, <3>3 DEF Back, Inside, LineBelow, AtMost, AtLeast
      <3>5. QED
        BY <1>4, <2>1, <2>2, <3>1, <3>4
    <2>3. CASE down = 0
      <3>1. m = l
        BY <1>0, <2>3 DEF LineBelow, AtMost
      <3>2. QED
        BY <2>1, <2>3, <3>1
    <2>4. QED
      BY <1>0, <2>2, <2>3
  <1> HIDE DEF a, b, c, d, t, t1, t2, t4, t5
  <1>9. IsString(a \o b) /\ Display(t, a \o b) = t2
    BY <1>1, <1>5, <1>6, DisplayJoined
  <1>10. IsString((a \o b) \o c) /\ Display(t, (a \o b) \o c) = t4
    BY <1>1, <1>7, <1>9, DisplayJoined
  <1>11. Display(t, ((a \o b) \o c) \o d) = t5
    BY <1>1, <1>8, <1>10, DisplayJoined
  <1>12. QED
    BY <1>2, <1>11 DEF t, t5

\* What is shown after the cells of a pair of cores have been written.
Marked(g, h, l, a, b, color) ==
    LET f == WithForeground(DefaultFormat, color)
    IN Written(Written(g, LineBelow(l, b, h), 2 * a, "X", f),
               LineBelow(l, a, h), 2 * b, "X", f)

\* Both cells of a pair are written in one color, and the cursor is back.
LEMMA MarkCoresDisplayed ==
  ASSUME NEW h, NEW w, NEW g, NEW l, NEW v, NEW a, NEW b, NEW color,
         CanWrite(h, w, l, 2 * a, b), CanWrite(h, w, l, 2 * b, a)
  PROVE  Display(Showing(h, w, g, l, 0, DefaultFormat, v),
                 MarkCores(a, b, color)) =
           Showing(h, w, Marked(g, h, l, a, b, color), l, 0, DefaultFormat, v)
  <1> DEFINE f == WithForeground(DefaultFormat, color)
             x == 2 * a
             y == 2 * b
             one == Written(g, LineBelow(l, b, h), x, "X", f)
             both == Written(one, LineBelow(l, a, h), y, "X", f)
             s == <<fg_rgb(color)>>
             u == relative_write(x, b, "X")
             r == relative_write(y, a, "X")
             e == <<reset_formatting>>
             t == Showing(h, w, g, l, 0, DefaultFormat, v)
             t1 == Showing(h, w, g, l, 0, f, v)
             t2 == Showing(h, w, one, l, 0, f, v)
             t3 == Showing(h, w, both, l, 0, f, v)
             t4 == Showing(h, w, both, l, 0, DefaultFormat, v)
  <1>1. IsString(s) /\ IsString(e)
    BY ShortStrings
  <1>2. x \in Nat /\ y \in Nat /\ a \in Nat /\ b \in Nat
    BY DEF CanWrite
  <1>3. MarkCores(a, b, color) = ((s \o u) \o r) \o e
    BY DEF MarkCores
  <1>4. CanWrite(h, w, l, x, b) /\ CanWrite(h, w, l, y, a)
    OBVIOUS
  <1>5. Marked(g, h, l, a, b, color) = both
    BY DEF Marked
  <1> HIDE DEF x, y
  <1>6. IsString(u) /\ IsString(r)
    <2>1. IsText(u) /\ IsText(r)
      BY <1>2, RelativeWriteIsText
    <2>2. QED
      BY <2>1 DEF IsText
  <1>7. Display(t, s) = t1
    BY DisplayOne, ApplyFormats
  <1>8. Display(t1, u) = t2
    <2> HIDE DEF f
    <2>1. QED
      BY <1>4, RelativeWrite
  <1>9. Display(t2, r) = t3
    <2> HIDE DEF f, one
    <2>1. QED
      BY <1>4, RelativeWrite
  <1>10. Display(t3, e) = t4
    <2> HIDE DEF f, both
    <2>1. QED
      BY DisplayOne, ApplyFormats
  <1> HIDE DEF s, u, r, e, t, t1, t2, t3, t4, both
  <1>11. IsString(s \o u) /\ Display(t, s \o u) = t2
    BY <1>1, <1>6, <1>7, <1>8, DisplayJoined
  <1>12. IsString((s \o u) \o r) /\ Display(t, (s \o u) \o r) = t3
    BY <1>6, <1>9, <1>11, DisplayJoined
  <1>13. Display(t, ((s \o u) \o r) \o e) = t4
    BY <1>1, <1>10, <1>12, DisplayJoined
  <1>14. Display(t, MarkCores(a, b, color)) = t4
    BY <1>3, <1>13
  <1>15. QED
    BY <1>5, <1>14 DEF t, t4
-----------------------------------------------------------------------------
(* The empty grid *)

\* A repeated sequence is the sequence after itself, repeated once less often.
LEMMA RepeatMore ==
  ASSUME NEW S, NEW s \in Seq(S), Len(s) # 0, NEW n \in Nat
  PROVE  /\ Repeat(s, n) \in Seq(S)
         /\ Repeat(s, n + 1) = Repeat(s, n) \o s
  <1> DEFINE L == Len(s)
             r == Repeat(s, n)
             u == Repeat(s, n + 1)
  <1>1. L \in Nat \ {0}
    OBVIOUS
  <1>2. n * L \in Nat /\ (n + 1) * L = n * L + L
    BY <1>1
  <1>3. \A k \in Nat : ((k - 1) % L) + 1 \in 1 .. L
    BY <1>1
  <1>4. /\ r = [k \in 1 .. n * L |-> s[((k - 1) % L) + 1]]
        /\ u = [k \in 1 .. n * L + L |-> s[((k - 1) % L) + 1]]
    BY <1>2 DEF Repeat
  <1>5. \A k \in 1 .. L : s[k] \in S
    OBVIOUS
  <1> DEFINE m == n * L
  <1>6. m \in Nat
    BY <1>2
  <1>7. \A k \in 1 .. L : u[m + k] = s[k]
    <2> TAKE k \in 1 .. L
    <2>1. k - 1 \in 0 .. L - 1
      BY <1>1
    <2>2. (n * L + (k - 1)) % L = k - 1
      BY <1>1, <2>1, Decode
    <2>3. (m + k) - 1 = n * L + (k - 1)
      BY <1>1, <1>6
    <2>4. m + k \in 1 .. n * L + L
      BY <1>1, <1>6
    <2>5. u[m + k] = s[(((m + k) - 1) % L) + 1]
      BY <1>4, <2>4
    <2>6. QED
      BY <2>2, <2>3, <2>5
  <1> HIDE DEF L, m, r, u
  <1>8. r \in Seq(S) /\ Len(r) = m
    <2>1. r \in [1 .. m -> S]
      BY <1>3, <1>4, <1>5, <1>6 DEF m
    <2>2. QED
      BY <1>6, <2>1
  <1>9. u \in Seq(S) /\ Len(u) = m + L
    <2>1. u \in [1 .. m + L -> S]
      BY <1>1, <1>3, <1>4, <1>5, <1>6 DEF m
    <2>2. QED
      BY <1>1, <1>6, <2>1
  <1>10. \A k \in 1 .. m : u[k] = r[k]
    BY <1>1, <1>4, <1>6 DEF m
  <1>11. u = r \o s
    <2> DEFINE b == r \o s
    <2>1. b \in Seq(S) /\ Len(b) = m + L
      BY <1>8 DEF L
    <2>2. \A k \in 1 .. m : b[k] = r[k]
      BY <1>8
    <2>3. \A k \in m + 1 .. m + L : b[k] = s[k - m]
      BY <1>1, <1>6, <1>8 DEF L
    <2> HIDE DEF b
    <2>4. \A k \in 1 .. m + L : u[k] = b[k]
      <3> TAKE k \in 1 .. m + L
      <3>1. CASE k <= m
        BY <1>6, <1>10, <2>2, <3>1
      <3>2. CASE k > m
        <4>1. k - m \in 1 .. L /\ m + (k - m) = k /\ k \in m + 1 .. m + L
          BY <1>1, <1>6, <3>2
        <4>2. QED
          BY <1>7, <2>3, <4>1
      <3>3. QED
        BY <1>1, <1>6, <3>1, <3>2
    <2>5. u = b
      BY <1>9, <2>1, <2>4
    <2>6. QED
      BY <2>5 DEF b
  <1>12. QED
    BY <1>8, <1>11 DEF r, u

\* Nothing is repeated.
LEMMA RepeatNothing ==
  ASSUME NEW S, NEW s \in Seq(S)
  PROVE  Repeat(s, 0) = <<>>
  BY DEF Repeat

\* The two letters of a cell, and of a line of cells.
CellLetters == <<char("-"), char(" ")>>

\* A dash, and what is shown after the first k cells of line l.
Dash(f) == [m_letter |-> "-", m_format |-> f]

DashesAre(g, g2, h, w, l, k, f) ==
    /\ DOMAIN g2 = Window(h, w)
    /\ \A p \in Window(h, w) : p[1] # l => g2[p] = g[p]
    /\ \A c \in 0 .. k - 1 : g2[<<l, 2 * c>>] = Dash(f)

\* Two letters, neither of them beyond the last column.
LEMMA TwoLetters ==
  ASSUME NEW h, NEW w, NEW g, NEW l, NEW c, NEW d, NEW e, NEW f, NEW v,
         NEW x, NEW y, c # w, d # w, d = c + 1, e = d + 1
  PROVE  Display(Showing(h, w, g, l, c, f, v), <<char(x), char(y)>>) =
           Showing(h, w, Written(Written(g, l, c, x, f), l, d, y, f),
                   l, e, f, v)
  <1> DEFINE g1 == Written(g, l, c, x, f)
             t == Showing(h, w, g, l, c, f, v)
             t1 == Showing(h, w, g1, l, d, f, v)
             t2 == Showing(h, w, Written(g1, l, d, y, f), l, e, f, v)
  <1>1. Apply(t, char(x)) = t1
    BY ApplyLetter
  <1>2. Apply(t1, char(y)) = t2
    <2> HIDE DEF g1
    <2>1. QED
      BY ApplyLetter
  <1>3. Display(t, <<char(x), char(y)>>) = Apply(Apply(t, char(x)), char(y))
    <2> HIDE DEF t
    <2>1. QED
      BY DisplayTwo
  <1>4. QED
    BY <1>1, <1>2, <1>3

\* ... after the cells before it,
LEMMA OneMoreDash ==
  ASSUME NEW h \in Nat, NEW w \in Nat, NEW l \in 0 .. h - 1, NEW k \in Nat,
         NEW g, NEW g2, NEW f, DashesAre(g, g2, h, w, l, k, f),
         2 * k + 2 <= w
  PROVE  DashesAre(g, Written(Written(g2, l, 2 * k, "-", f),
                              l, 2 * k + 1, " ", f), h, w, l, k + 1, f)
  <1> DEFINE y == 2 * k
             z == 2 * k + 1
             g3 == Written(g2, l, y, "-", f)
             g4 == Written(g3, l, z, " ", f)
  <1>1. /\ DOMAIN g2 = Window(h, w)
        /\ \A p \in Window(h, w) : p[1] # l => g2[p] = g[p]
        /\ \A c \in 0 .. k - 1 : g2[<<l, 2 * c>>] = Dash(f)
    BY DEF DashesAre
  <1>2. /\ <<l, y>> \in Window(h, w) /\ <<l, z>> \in Window(h, w)
        /\ y # z
        /\ \A c \in 0 .. k : 2 * c # z /\ <<l, 2 * c>> \in Window(h, w)
        /\ \A c \in 0 .. k - 1 : 2 * c # y
        /\ \A c \in 0 .. k : c = k \/ c \in 0 .. k - 1
        /\ 0 .. (k + 1) - 1 = 0 .. k
    BY DEF Window
  <1>3. /\ DOMAIN g3 = Window(h, w)
        /\ g3[<<l, y>>] = Dash(f)
        /\ \A p \in Window(h, w) : p # <<l, y>> => g3[p] = g2[p]
    BY <1>1, <1>2 DEF Written, Dash
  <1> HIDE DEF g3
  <1>4. /\ DOMAIN g4 = Window(h, w)
        /\ \A p \in Window(h, w) : p # <<l, z>> => g4[p] = g3[p]
    BY <1>3 DEF Written
  <1> HIDE DEF g4
  <1>5. \A p \in Window(h, w) : p[1] # l => g4[p] = g[p]
    BY <1>1, <1>3, <1>4
  <1>6. \A c \in 0 .. k : g4[<<l, 2 * c>>] = Dash(f)
    <2> TAKE c \in 0 .. k
    <2>1. <<l, 2 * c>> \in Window(h, w) /\ <<l, 2 * c>> # <<l, z>>
      BY <1>2
    <2>2. g4[<<l, 2 * c>>] = g3[<<l, 2 * c>>]
      BY <1>4, <2>1
    <2>3. CASE c = k
      BY <1>3, <2>2, <2>3
    <2>4. CASE c \in 0 .. k - 1
      <3>1. <<l, 2 * c>> # <<l, y>>
        BY <1>2, <2>4
      <3>2. g3[<<l, 2 * c>>] = g2[<<l, 2 * c>>]
        BY <1>3, <2>1, <3>1
      <3>3. QED
        BY <1>1, <2>2, <2>4, <3>2
    <2>5. QED
      BY <1>2, <2>3, <2>4
  <1>7. DashesAre(g, g4, h, w, l, k + 1, f)
    BY <1>2, <1>4, <1>5, <1>6 DEF DashesAre
  <1>8. QED
    BY <1>7 DEF g4, g3

\* ... and all cells of a line.
LEMMA DashesDisplayed ==
  ASSUME NEW h \in Nat, NEW w \in Nat, NEW l \in 0 .. h - 1, NEW n \in Nat,
         NEW g, NEW f, NEW v, DOMAIN g = Window(h, w), 2 * n <= w
  PROVE  /\ IsString(Repeat(CellLetters, n))
         /\ \E g2 : /\ DashesAre(g, g2, h, w, l, n, f)
                    /\ Display(Showing(h, w, g, l, 0, f, v),
                               Repeat(CellLetters, n)) =
                         Showing(h, w, g2, l, 2 * n, f, v)
  <1> DEFINE t == Showing(h, w, g, l, 0, f, v)
             S == {char("-"), char(" ")}
             D == {k \in Nat : 2 * k <= w =>
                     \E g2 : /\ DashesAre(g, g2, h, w, l, k, f)
                            /\ Display(t, Repeat(CellLetters, k)) =
                                 Showing(h, w, g2, l, 2 * k, f, v)}
  <1>1. CellLetters \in Seq(S) /\ Len(CellLetters) # 0
    BY DEF CellLetters
  <1> HIDE DEF S
  <1>2. 0 \in D
    <2>1. Repeat(CellLetters, 0) = <<>>
      BY <1>1, RepeatNothing
    <2>2. DashesAre(g, g, h, w, l, 0, f)
      BY DEF DashesAre
    <2>3. Display(t, Repeat(CellLetters, 0)) = Showing(h, w, g, l, 2 * 0, f, v)
      BY <2>1, DisplayNothing
    <2>4. QED
      BY <2>2, <2>3
  <1>3. \A k \in D : k + 1 \in D
    <2> SUFFICES ASSUME NEW k \in D, 2 * (k + 1) <= w
                 PROVE  \E g2 : /\ DashesAre(g, g2, h, w, l, k + 1, f)
                               /\ Display(t, Repeat(CellLetters, k + 1)) =
                                    Showing(h, w, g2, l, 2 * (k + 1), f, v)
      BY DEF D
    <2>1. k \in Nat /\ 2 * k <= w /\ 2 * k + 2 <= w
      BY DEF D
    <2>2. PICK g2 : /\ DashesAre(g, g2, h, w, l, k, f)
                    /\ Display(t, Repeat(CellLetters, k)) =
                         Showing(h, w, g2, l, 2 * k, f, v)
      BY <2>1 DEF D
    <2> DEFINE y == 2 * k
               z == 2 * k + 1
               e == 2 * (k + 1)
               g3 == Written(Written(g2, l, y, "-", f), l, z, " ", f)
               r == Repeat(CellLetters, k)
               u == r \o CellLetters
    <2>3. r \in Seq(S) /\ Repeat(CellLetters, k + 1) = u
      BY <1>1, <2>1, RepeatMore
    <2>4. IsString(r) /\ IsString(CellLetters)
      BY <1>1, <2>3 DEF IsString
    <2>5. DashesAre(g, g3, h, w, l, k + 1, f)
      BY <2>1, <2>2, OneMoreDash
    <2>6. y # w /\ z # w /\ z = y + 1 /\ e = z + 1
      BY <2>1
    <2>7. Display(t, r) = Showing(h, w, g2, l, y, f, v)
      BY <2>2
    <2>8. Display(t, u) = Display(Display(t, r), CellLetters)
      <3> HIDE DEF t, r
      <3>1. QED
        BY <2>4, DisplayJoined
    <2>9. Display(Showing(h, w, g2, l, y, f, v), CellLetters) =
            Showing(h, w, g3, l, e, f, v)
      <3> DEFINE a == "-"
                 b == " "
                 letters == <<char(a), char(b)>>
                 shown == Written(Written(g2, l, y, a, f), l, z, b, f)
      <3>1. CellLetters = letters /\ g3 = shown
        BY DEF CellLetters
      <3> HIDE DEF y, z, e, a, b
      <3>2. Display(Showing(h, w, g2, l, y, f, v), letters) =
              Showing(h, w, shown, l, e, f, v)
        BY <2>6, TwoLetters
      <3> HIDE DEF letters, g3, shown
      <3>3. QED
        BY <3>1, <3>2
    <2>10. Display(t, Repeat(CellLetters, k + 1)) =
             Showing(h, w, g3, l, 2 * (k + 1), f, v)
      BY <2>3, <2>6, <2>7, <2>8, <2>9
    <2>11. QED
      BY <2>5, <2>10
  <1>4. D = Nat
    <2>1. D \in SUBSET Nat
      BY DEF D
    <2> HIDE DEF D
    <2>2. QED
      BY <1>2, <1>3, <2>1, Induction
  <1>5. Repeat(CellLetters, n) \in Seq(S)
    BY <1>1, RepeatMore
  <1>6. n \in D
    BY <1>4
  <1>7. QED
    BY <1>5, <1>6 DEF D, IsString

\* A grid of n cells in each of the j rows above line l, as many of them as
\* the window still shows; nothing is in line l and below it.
GridAbove(g, h, w, l, j, n, f) ==
    /\ DOMAIN g = Window(h, w)
    /\ \A p \in Window(h, w) : p[1] >= l => g[p] = Blank
    /\ \A i \in 0 .. h - 1, c \in 0 .. n - 1 :
           i < l /\ l - j <= i => g[<<i, 2 * c>>] = Dash(f)

\* One more row of dashes, in a window that may scroll.
LEMMA OneMoreRow ==
  ASSUME NEW h \in Nat, NEW w \in Nat, NEW l \in 0 .. h - 1, NEW j \in Nat,
         NEW n \in Nat, 2 * n <= w, NEW g, NEW g2, NEW f,
         GridAbove(g, h, w, l, j, n, f), DashesAre(g, g2, h, w, l, n, f)
  PROVE  GridAbove(MovedUp(g2, l, h), h, w, NextLine(l, h), j + 1, n, f)
  <1>1. /\ DOMAIN g2 = Window(h, w)
        /\ \A p \in Window(h, w) : p[1] # l => g2[p] = g[p]
        /\ \A c \in 0 .. n - 1 : g2[<<l, 2 * c>>] = Dash(f)
    BY DEF DashesAre
  <1>2. /\ \A p \in Window(h, w) : p[1] >= l => g[p] = Blank
        /\ \A i \in 0 .. h - 1, c \in 0 .. n - 1 :
               i < l /\ l - j <= i => g[<<i, 2 * c>>] = Dash(f)
    BY DEF GridAbove
  <1>3. \A i \in 0 .. h - 1, c \in 0 .. n - 1 :
           <<i, 2 * c>> \in Window(h, w) /\ <<i, 2 * c>>[1] = i
    BY DEF Window
  <1>4. \A i \in 0 .. h - 1, c \in 0 .. n - 1 :
           i <= l /\ l - j <= i => g2[<<i, 2 * c>>] = Dash(f)
    <2> SUFFICES ASSUME NEW i \in 0 .. h - 1, NEW c \in 0 .. n - 1,
                        i <= l, l - j <= i
                 PROVE  g2[<<i, 2 * c>>] = Dash(f)
      OBVIOUS
    <2>1. CASE i = l
      BY <1>1, <2>1
    <2>2. CASE i < l
      <3>1. g[<<i, 2 * c>>] = Dash(f)
        BY <1>2, <2>2
      <3>2. g2[<<i, 2 * c>>] = g[<<i, 2 * c>>]
        BY <1>1, <1>3, <2>2
      <3>3. QED
        BY <3>1, <3>2
    <2>3. QED
      BY <2>1, <2>2
  <1>5. CASE l < h - 1
    <2>1. MovedUp(g2, l, h) = g2 /\ NextLine(l, h) = l + 1
      BY <1>5 DEF MovedUp, NextLine, AtMost
    <2>2. \A p \in Window(h, w) : p[1] >= l + 1 => g2[p] = Blank
      <3> TAKE p \in Window(h, w)
      <3>1. p[1] \in Int
        BY DEF Window
      <3>2. QED
        BY <1>1, <1>2, <3>1
    <2>3. \A i \in 0 .. h - 1, c \in 0 .. n - 1 :
             i < l + 1 /\ (l + 1) - (j + 1) <= i => g2[<<i, 2 * c>>] = Dash(f)
      BY <1>4
    <2>4. GridAbove(g2, h, w, l + 1, j + 1, n, f)
      BY <1>1, <2>2, <2>3 DEF GridAbove
    <2>5. QED
      BY <2>1, <2>4
  <1>6. CASE l = h - 1
    <2> DEFINE m == Scrolled(g2, h)
    <2>1. MovedUp(g2, l, h) = m /\ NextLine(l, h) = h - 1
      BY <1>6 DEF MovedUp, NextLine, AtMost
    <2>2. m = [p \in Window(h, w) |-> IF p[1] = h - 1 THEN Blank
                                     ELSE g2[<<p[1] + 1, p[2]>>]]
      BY <1>1 DEF Scrolled
    <2> HIDE DEF m
    <2>3. \A p \in Window(h, w) : p[1] >= h - 1 => m[p] = Blank
      <3> TAKE p \in Window(h, w)
      <3>1. p[1] \in 0 .. h - 1
        BY DEF Window
      <3>2. QED
        BY <2>2, <3>1
    <2>4. \A i \in 0 .. h - 1, c \in 0 .. n - 1 :
             i < h - 1 /\ (h - 1) - (j + 1) <= i => m[<<i, 2 * c>>] = Dash(f)
      <3> SUFFICES ASSUME NEW i \in 0 .. h - 1, NEW c \in 0 .. n - 1,
                          i < h - 1, (h - 1) - (j + 1) <= i
                   PROVE  m[<<i, 2 * c>>] = Dash(f)
        OBVIOUS
      <3>1. m[<<i, 2 * c>>] = g2[<<i + 1, 2 * c>>]
        <4>1. <<i, 2 * c>>[1] = i /\ <<i, 2 * c>>[2] = 2 * c
          OBVIOUS
        <4>2. QED
          BY <1>3, <2>2, <4>1
      <3>2. i + 1 \in 0 .. h - 1 /\ i + 1 <= l /\ l - j <= i + 1
        BY <1>6
      <3>3. QED
        BY <1>4, <3>1, <3>2
    <2>5. DOMAIN m = Window(h, w)
      BY <2>2
    <2>6. GridAbove(m, h, w, h - 1, j + 1, n, f)
      BY <2>3, <2>4, <2>5 DEF GridAbove
    <2>7. QED
      BY <2>1, <2>6
  <1>7. QED
    BY <1>5, <1>6

\* The letters of a row
RowLetters(n) == Repeat(CellLetters, n) \o <<newline>>

\* ... are displayed below the rows before it.
LEMMA RowDisplayed ==
  ASSUME NEW h \in Nat, NEW w \in Nat, NEW l \in 0 .. h - 1, NEW j \in Nat,
         NEW n \in Nat, 2 * n <= w, NEW g, NEW f, NEW v,
         GridAbove(g, h, w, l, j, n, f)
  PROVE  \E g2 : /\ GridAbove(g2, h, w, NextLine(l, h), j + 1, n, f)
                /\ Display(Showing(h, w, g, l, 0, f, v), RowLetters(n)) =
                     Showing(h, w, g2, NextLine(l, h), 0, f, v)
  <1> DEFINE t == Showing(h, w, g, l, 0, f, v)
             s == Repeat(CellLetters, n)
             e == <<newline>>
             x == 2 * n
  <1>1. DOMAIN g = Window(h, w)
    BY DEF GridAbove
  <1>2. PICK g2 : DashesAre(g, g2, h, w, l, n, f)
                  /\ Display(t, s) = Showing(h, w, g2, l, x, f, v)
    BY <1>1, DashesDisplayed
  <1>3. IsString(s) /\ IsString(e)
    BY <1>1, DashesDisplayed, ShortStrings
  <1>4. Display(Showing(h, w, g2, l, x, f, v), e) =
          Showing(h, w, MovedUp(g2, l, h), NextLine(l, h), 0, f, v)
    <2> HIDE DEF x
    <2>1. QED
      BY LineEnds DEF newline
  <1>5. Display(t, s \o e) = Display(Display(t, s), e)
    <2> HIDE DEF s, e, t
    <2>1. QED
      BY <1>3, DisplayJoined
  <1>6. GridAbove(MovedUp(g2, l, h), h, w, NextLine(l, h), j + 1, n, f)
    BY <1>2, OneMoreRow
  <1>7. Display(t, RowLetters(n)) =
          Showing(h, w, MovedUp(g2, l, h), NextLine(l, h), 0, f, v)
    BY <1>2, <1>4, <1>5 DEF RowLetters
  <1>8. QED
    BY <1>6, <1>7

\* All rows.
LEMMA RowsDisplayed ==
  ASSUME NEW h \in Nat, NEW w \in Nat, NEW l \in 0 .. h - 1, NEW m \in Nat,
         NEW n \in Nat, 2 * n <= w, NEW g, NEW f, NEW v,
         GridAbove(g, h, w, l, 0, n, f)
  PROVE  /\ IsString(Repeat(RowLetters(n), m))
         /\ \E g2 : /\ GridAbove(g2, h, w, LineBelow(l, m, h), m, n, f)
                    /\ Display(Showing(h, w, g, l, 0, f, v),
                               Repeat(RowLetters(n), m)) =
                         Showing(h, w, g2, LineBelow(l, m, h), 0, f, v)
  <1> DEFINE t == Showing(h, w, g, l, 0, f, v)
             row == RowLetters(n)
             D == {j \in Nat :
                     \E g2 : /\ GridAbove(g2, h, w, LineBelow(l, j, h), j, n, f)
                            /\ Display(t, Repeat(row, j)) =
                                 Showing(h, w, g2, LineBelow(l, j, h), 0, f, v)}
  <1>1. PICK S : row \in Seq(S) /\ Len(row) # 0
    <2> DEFINE s == Repeat(CellLetters, n)
               r == s \o <<newline>>
    <2>1. DOMAIN g = Window(h, w)
      BY DEF GridAbove
    <2>2. PICK S : s \in Seq(S)
      BY <2>1, DashesDisplayed DEF IsString
    <2> HIDE DEF s
    <2>3. s \in Seq(S \cup {newline}) /\ <<newline>> \in Seq(S \cup {newline})
      BY <2>2
    <2>4. r \in Seq(S \cup {newline}) /\ Len(r) = Len(s) + 1 /\ Len(s) \in Nat
      BY <2>3
    <2>5. Len(r) # 0
      BY <2>4
    <2> HIDE DEF r
    <2>6. row = r
      BY DEF RowLetters, r, s
    <2>7. QED
      BY <2>4, <2>5, <2>6
  <1>2. 0 \in D
    <2>1. LineBelow(l, 0, h) = l
      BY DEF LineBelow, AtMost
    <2>2. Repeat(row, 0) = <<>>
      BY <1>1, RepeatNothing
    <2>3. Display(t, Repeat(row, 0)) = t
      BY <2>2, DisplayNothing
    <2>4. QED
      BY <2>1, <2>3
  <1>3. \A j \in D : j + 1 \in D
    <2> SUFFICES ASSUME NEW j \in D
                 PROVE  \E g2 : /\ GridAbove(g2, h, w, LineBelow(l, j + 1, h),
                                            j + 1, n, f)
                               /\ Display(t, Repeat(row, j + 1)) =
                                    Showing(h, w, g2, LineBelow(l, j + 1, h),
                                            0, f, v)
      BY DEF D
    <2>1. j \in Nat
      BY DEF D
    <2> DEFINE a == LineBelow(l, j, h)
               b == LineBelow(l, j + 1, h)
               r == Repeat(row, j)
               k == j + 1
    <2>2. PICK g2 : /\ GridAbove(g2, h, w, a, j, n, f)
                    /\ Display(t, r) = Showing(h, w, g2, a, 0, f, v)
      BY DEF D
    <2>3. a \in 0 .. h - 1 /\ NextLine(a, h) = b
      BY <2>1 DEF LineBelow, NextLine, AtMost
    <2>4. IsString(r) /\ IsString(row) /\ Repeat(row, k) = r \o row
      <3> HIDE DEF row
      <3>1. r \in Seq(S) /\ Repeat(row, k) = r \o row
        BY <1>1, <2>1, RepeatMore
      <3>2. QED
        BY <1>1, <3>1 DEF IsString
    <2> DEFINE t2 == Showing(h, w, g2, a, 0, f, v)
    <2>5. PICK g3 : /\ GridAbove(g3, h, w, b, k, n, f)
                    /\ Display(t2, row) = Showing(h, w, g3, b, 0, f, v)
      <3> HIDE DEF a
      <3>1. \E g3 : /\ GridAbove(g3, h, w, NextLine(a, h), j + 1, n, f)
                   /\ Display(t2, RowLetters(n)) =
                        Showing(h, w, g3, NextLine(a, h), 0, f, v)
        BY <2>1, <2>2, <2>3, RowDisplayed
      <3> HIDE DEF b
      <3>2. QED
        BY <2>3, <3>1
    <2>6. Display(t, r \o row) = Display(Display(t, r), row)
      <3> HIDE DEF r, row, t
      <3>1. QED
        BY <2>4, DisplayJoined
    <2>7. Display(t, Repeat(row, k)) = Showing(h, w, g3, b, 0, f, v)
      <3> HIDE DEF r, row, t, a, b, k
      <3>1. QED
        BY <2>2, <2>4, <2>5, <2>6
    <2>8. QED
      <3> HIDE DEF row, t
      <3>1. QED
        BY <2>5, <2>7
  <1>4. D = Nat
    <2>1. D \in SUBSET Nat
      BY DEF D
    <2> HIDE DEF D
    <2>2. QED
      BY <1>2, <1>3, <2>1, Induction
  <1>5. Repeat(row, m) \in Seq(S)
    <2> HIDE DEF row
    <2>1. QED
      BY <1>1, RepeatMore
  <1>6. m \in D
    BY <1>4
  <1>7. QED
    BY <1>5, <1>6 DEF D, IsString
-----------------------------------------------------------------------------
(* The new grid *)

\* The line a grid of n rows begins in, see Top.
TopOf(from, h, n) == AtLeast(AtMost(from + 1, h - 1 - n), 0)

\* The empty console.
EmptyWindow(h, w) == [p \in Window(h, w) |-> Blank]

\* After the line before the grid the console is as empty as before.
LEMMA StaysEmpty ==
  ASSUME NEW h \in Nat, NEW w \in Nat, NEW l \in 0 .. h - 1
  PROVE  MovedUp(EmptyWindow(h, w), l, h) = EmptyWindow(h, w)
  <1> DEFINE g == EmptyWindow(h, w)
  <1>1. \A p \in Window(h, w) :
           p[1] # h - 1 => <<p[1] + 1, p[2]>> \in Window(h, w)
    BY DEF Window
  <1>2. Scrolled(g, h) = [p \in Window(h, w) |->
                            IF p[1] = h - 1 THEN Blank
                            ELSE g[<<p[1] + 1, p[2]>>]]
    BY DEF Scrolled, EmptyWindow
  <1>3. \A p \in Window(h, w) : g[p] = Blank
    BY DEF EmptyWindow
  <1>4. Scrolled(g, h) = g
    <2> HIDE DEF g
    <2>1. \A p \in Window(h, w) : Scrolled(g, h)[p] = Blank
      BY <1>1, <1>2, <1>3
    <2>2. Scrolled(g, h) = [p \in Window(h, w) |-> Blank]
      BY <1>2, <2>1
    <2>3. QED
      BY <2>2 DEF g, EmptyWindow
  <1>5. QED
    BY <1>4 DEF MovedUp

\* What the end of the line before and grid_reporter() leave on an empty
\* console: the grid, as far as it has room, nothing below it, and the cursor
\* at its beginning, where the rows that are left begin.
LEMMA GridDisplayed ==
  ASSUME NEW h \in Nat \ {0}, NEW w \in Nat \ {0}, NEW from \in 0 .. h - 1,
         core_count \in 1 .. 255, 2 * core_count <= w
  PROVE  \E g : /\ GridAbove(g, h, w, LineBelow(from + 1, core_count, h),
                            core_count, core_count,
                            WithForeground(DefaultFormat, RedLetters))
               /\ Display(Opened(h, w, Blank, from, DefaultFormat),
                          <<newline>> \o grid_reporter) =
                    Showing(h, w, g, TopOf(from, h, core_count), 0,
                            DefaultFormat, FALSE)
  <1> DEFINE n == core_count
             f == WithForeground(DefaultFormat, RedLetters)
             g0 == EmptyWindow(h, w)
             l == NextLine(from, h)
             m == LineBelow(l, n, h)
             yes == TRUE
             no == FALSE
             t0 == Showing(h, w, g0, from, 0, DefaultFormat, yes)
             t1 == Showing(h, w, g0, l, 0, DefaultFormat, yes)
             t2 == Showing(h, w, g0, l, 0, f, no)
             a == <<newline>>
             b == <<cursor_visibility(no), fg_rgb(RedLetters)>>
             d == <<move("move_up", n), reset_formatting>>
  <1>1. n \in Nat /\ h \in Nat /\ w \in Nat
    OBVIOUS
  <1>2. /\ l \in 0 .. h - 1 /\ m \in 0 .. h - 1
        /\ LineBelow(from + 1, n, h) = m
    BY <1>1 DEF NextLine, LineBelow, AtMost
  <1>3. Opened(h, w, Blank, from, DefaultFormat) = t0
    BY DEF Opened, Showing, EmptyWindow, yes
  <1>4. Display(t0, a) = t1
    <2> HIDE DEF g0, yes, no
    <2>1. Display(t0, a) =
            Showing(h, w, MovedUp(g0, from, h), l, 0, DefaultFormat, yes)
      BY <1>1, LineEnds DEF newline
    <2>2. MovedUp(g0, from, h) = g0
      BY <1>1, StaysEmpty DEF g0
    <2>3. QED
      BY <2>1, <2>2
  <1>5. Display(t1, b) = t2
    <2> HIDE DEF g0, l, yes, no
    <2>1. Apply(t1, cursor_visibility(no)) =
            Showing(h, w, g0, l, 0, DefaultFormat, no)
      BY ApplyVisibility
    <2>2. Apply(Showing(h, w, g0, l, 0, DefaultFormat, no),
                fg_rgb(RedLetters)) = t2
      BY ApplyFormats
    <2> DEFINE x == cursor_visibility(no)
               y == fg_rgb(RedLetters)
    <2>3. Display(t1, <<x, y>>) = Apply(Apply(t1, x), y)
      <3> HIDE DEF x, y, t1
      <3>1. QED
        BY DisplayTwo
    <2>4. QED
      BY <2>1, <2>2, <2>3
  <1>6. Rows = Repeat(RowLetters(n), n)
    BY DEF Rows, RowLetters, CellLetters
  <1>7. GridAbove(g0, h, w, l, 0, n, f)
    <2>1. DOMAIN g0 = Window(h, w) /\ \A p \in Window(h, w) : g0[p] = Blank
      BY DEF EmptyWindow
    <2> HIDE DEF g0
    <2>2. QED
      BY <1>1, <1>2, <2>1 DEF GridAbove
  <1> HIDE DEF f, no
  <1>8. PICK g : /\ GridAbove(g, h, w, m, n, n, f)
                 /\ Display(t2, Rows) = Showing(h, w, g, m, 0, f, no)
    <2> HIDE DEF g0, l, yes, no
    <2>1. QED
      BY <1>1, <1>2, <1>6, <1>7, RowsDisplayed
  <1> DEFINE top == TopOf(from, h, n)
             t3 == Showing(h, w, g, m, 0, f, no)
             t4 == Showing(h, w, g, top, 0, DefaultFormat, no)
  <1>9. Display(t3, d) = t4
    <2>1. Apply(t3, move("move_up", n)) =
            Showing(h, w, g, Back(m, n, h), Inside(AtMost(0, w - 1), w),
                    f, no)
      <3> HIDE DEF m
      <3>1. QED
        BY ApplyUp
    <2>2. Amount(n) = n
      BY AmountKept
    <2>3. Back(m, n, h) = top
      BY <1>1, <1>2, <2>2
         DEF Back, Inside, TopOf, LineBelow, NextLine, AtMost, AtLeast
    <2>4. Inside(AtMost(0, w - 1), w) = 0
      BY DEF Inside, AtMost, AtLeast
    <2>5. Apply(Showing(h, w, g, top, 0, f, no), reset_formatting) = t4
      <3> HIDE DEF top
      <3>1. QED
        BY ApplyFormats
    <2> DEFINE x == move("move_up", n)
               y == reset_formatting
    <2>6. Display(t3, <<x, y>>) = Apply(Apply(t3, x), y)
      <3> HIDE DEF x, y, t3
      <3>1. QED
        BY DisplayTwo
    <2>7. QED
      BY <2>1, <2>3, <2>4, <2>5, <2>6
  <1>10. /\ IsString(a) /\ IsString(b) /\ IsString(d)
         /\ IsString(Rows)
    <2>1. IsString(Rows)
      <3> HIDE DEF g0, l
      <3>1. QED
        BY <1>1, <1>2, <1>6, <1>7, RowsDisplayed
    <2>2. QED
      BY <2>1, ShortStrings
  <1>11. grid_reporter = (b \o Rows) \o d
    BY DEF grid_reporter, no
  <1> HIDE DEF a, b, d, t0, t1, t2, t3, t4
  <1>12. IsString(b \o Rows) /\ Display(t1, b \o Rows) = t3
    BY <1>5, <1>8, <1>10, DisplayJoined DEF t3
  <1>13. IsString(grid_reporter) /\ Display(t1, grid_reporter) = t4
    BY <1>9, <1>10, <1>11, <1>12, DisplayJoined
  <1>14. Display(t0, a \o grid_reporter) = t4
    BY <1>4, <1>10, <1>13, DisplayJoined
  <1>15. QED
    BY <1>2, <1>3, <1>8, <1>14 DEF a, f, no, t4
-----------------------------------------------------------------------------
(* The sequences the reporter sends are sequences *)

\* A text that is repeated is a text.
LEMMA RepeatIsText ==
  ASSUME NEW s, IsText(s), Len(s) # 0, NEW n \in Nat
  PROVE  IsText(Repeat(s, n))
  <1> DEFINE L == Len(s)
             r == Repeat(s, n)
  <1>1. PICK S : s \in Seq(S)
    BY DEF IsText, IsString
  <1>2. r \in Seq(S)
    BY <1>1, RepeatMore
  <1>3. L \in Nat \ {0} /\ n * L \in Nat
    BY <1>1
  <1>4. r = [k \in 1 .. n * L |-> s[((k - 1) % L) + 1]]
    BY DEF Repeat
  <1>5. \A k \in Nat : ((k - 1) % L) + 1 \in 1 .. L
    BY <1>3
  <1> DEFINE m == n * L
  <1>6. Len(r) = m /\ m \in Nat
    BY <1>2, <1>3, <1>4
  <1>7. \A k \in 1 .. Len(s) : IsSequence(s[k])
    BY DEF IsText
  <1>8. \A k \in 1 .. m : IsSequence(r[k])
    <2> TAKE k \in 1 .. m
    <2>1. k \in Nat
      BY <1>6
    <2>2. r[k] = s[((k - 1) % L) + 1]
      BY <1>4
    <2>3. QED
      BY <1>5, <1>7, <2>1, <2>2
  <1> HIDE DEF r, m
  <1>9. QED
    BY <1>2, <1>6, <1>8 DEF IsText, IsString, r

\* The new grid is one,
LEMMA GridIsText ==
  ASSUME core_count \in Nat
  PROVE  IsText(<<newline>> \o grid_reporter)
  <1> DEFINE n == core_count
             a == <<newline>>
             b == <<cursor_visibility(FALSE), fg_rgb(RedLetters)>>
             d == <<move("move_up", n), reset_formatting>>
             s == Repeat(CellLetters, n)
             row == s \o a
  <1>1. IsText(a) /\ IsText(b) /\ IsText(d) /\ IsText(CellLetters)
    BY GridSequences, ShortTexts DEF CellLetters
  <1>2. Len(CellLetters) # 0
    BY DEF CellLetters
  <1>3. IsText(s)
    BY <1>1, <1>2, RepeatIsText
  <1>4. IsText(row)
    <2> HIDE DEF s, a
    <2>1. QED
      BY <1>1, <1>3, TextJoined
  <1>5. Len(row) # 0
    <2>1. PICK S : s \in Seq(S)
      BY <1>3 DEF IsText, IsString
    <2> HIDE DEF s
    <2>2. s \in Seq(S \cup {newline}) /\ <<newline>> \in Seq(S \cup {newline})
      BY <2>1
    <2>3. Len(row) = Len(s) + 1 /\ Len(s) \in Nat
      BY <2>2
    <2>4. QED
      BY <2>3
  <1>6. Rows = Repeat(row, n)
    BY DEF Rows, CellLetters
  <1>7. IsText(Rows)
    <2> HIDE DEF row
    <2>1. QED
      BY <1>4, <1>5, <1>6, RepeatIsText
  <1>8. grid_reporter = (b \o Rows) \o d
    BY DEF grid_reporter
  <1> HIDE DEF a, b, d
  <1>9. IsText(b \o Rows)
    BY <1>1, <1>7, TextJoined
  <1>10. IsText(grid_reporter)
    BY <1>1, <1>8, <1>9, TextJoined
  <1>11. IsText(a \o grid_reporter)
    BY <1>1, <1>10, TextJoined
  <1>12. QED
    BY <1>11 DEF a

\* ... and what marks a pair of cores.
LEMMA MarkIsText ==
  ASSUME NEW a \in Nat, NEW b \in Nat, NEW color
  PROVE  IsText(MarkCores(a, b, color))
  <1> DEFINE x == 2 * a
             y == 2 * b
             s == <<fg_rgb(color)>>
             u == relative_write(x, b, "X")
             r == relative_write(y, a, "X")
             e == <<reset_formatting>>
  <1>1. IsText(s) /\ IsText(e)
    BY GridSequences, ShortTexts
  <1>2. x \in Nat /\ y \in Nat
    OBVIOUS
  <1>3. IsText(u) /\ IsText(r)
    <2> HIDE DEF x, y
    <2>1. QED
      BY <1>2, RelativeWriteIsText
  <1>4. MarkCores(a, b, color) = ((s \o u) \o r) \o e
    BY DEF MarkCores
  <1> HIDE DEF s, u, r, e
  <1>5. IsText(s \o u)
    BY <1>1, <1>3, TextJoined
  <1>6. IsText((s \o u) \o r)
    BY <1>3, <1>5, TextJoined
  <1>7. IsText(((s \o u) \o r) \o e)
    BY <1>1, <1>6, TextJoined
  <1>8. QED
    BY <1>4, <1>7
-----------------------------------------------------------------------------
(* The inductive invariant of the console *)

\* The line the cursor returns to: the grid's first, and at last the one
\* below the grid or the window's last.
HomeLine ==
    IF mainAt = "done" THEN AtMost(Top + core_count, console.lines - 1)
    ELSE Top

\* The console has not been written to.
Untouched ==
    console = Opened(console.lines, console.columns, Blank, start,
                     DefaultFormat)

\* The cursor is at home, and nothing else is pending.
AtHome ==
    console = Showing(console.lines, console.columns, console.shown, HomeLine,
                      0, DefaultFormat, FALSE)

\* The numbers of its moves are bytes: a row of up to 255 letters.
InBytes == core_count <= 128

\* A grid that fits is whole and right, and nothing is below it.
GridIsShown ==
    /\ \A p \in Window(console.lines, console.columns) :
          p[1] >= Top + core_count => console.shown[p] = Blank
    /\ \A c \in Cells :
          console.shown[<<Top + c[2], 2 * c[1]>>] = CellLooks(grid[c])

ConsoleInv ==
    /\ console.lines \in Nat \ {0}
    /\ console.columns \in Nat \ {0}
    /\ start \in 0 .. console.lines - 1
    /\ IsConsole(console, console.lines, console.columns)
    /\ mainAt = "read_processor" => Untouched
    /\ mainAt # "read_processor" /\ NotTooWide /\ InBytes => AtHome
    /\ mainAt # "read_processor" /\ Fits /\ InBytes => GridIsShown

\* What is sent leaves the window's size alone and the cursor in it.
LEMMA SentText ==
  ASSUME ConsoleInv, NEW s, IsText(s), console' = Display(console, s)
  PROVE  /\ console'.lines = console.lines
         /\ console'.columns = console.columns
         /\ IsConsole(console', console.lines, console.columns)
  <1> DEFINE h == console.lines
             w == console.columns
  <1>1. h \in Nat \ {0} /\ w \in Nat \ {0} /\ IsConsole(console, h, w)
    BY DEF ConsoleInv
  <1> HIDE DEF h, w
  <1>2. IsConsole(console', h, w)
    BY <1>1, DisplayKeeps
  <1>3. console'.lines = h /\ console'.columns = w
    BY <1>2, ConsoleParts
  <1>4. QED
    BY <1>2, <1>3 DEF h, w

\* What a state of a cell looks like.
LEMMA Looks ==
  /\ CellLooks("-") = Dash(WithForeground(DefaultFormat, RedLetters))
  /\ CellLooks("in_progress") =
       [m_letter |-> "X",
        m_format |-> WithForeground(DefaultFormat, YellowLetters)]
  /\ CellLooks("done") =
       [m_letter |-> "X",
        m_format |-> WithForeground(DefaultFormat, GreenLetters)]
  BY DEF CellLooks, Dash, WithForeground

\* The program starts on an empty console.
LEMMA InitConsoleInv == ConsoleInit => ConsoleInv
  <1> SUFFICES ASSUME ConsoleInit PROVE ConsoleInv
    OBVIOUS
  <1>1. PICK size \in Windows :
          /\ start \in 0 .. size[1] - 1
          /\ console = Opened(size[1], size[2], Blank, start, DefaultFormat)
    BY DEF ConsoleInit
  <1> DEFINE h == size[1]
             w == size[2]
             yes == TRUE
  <1>2. h \in Nat \ {0} /\ w \in Nat \ {0} /\ start \in 0 .. h - 1
    BY <1>1, WindowsAssumption
  <1>3. mainAt = "read_processor"
    BY DEF ConsoleInit, Init
  <1>4. console = Showing(h, w, EmptyWindow(h, w), start, 0, DefaultFormat, yes)
    BY <1>1 DEF Opened, Showing, EmptyWindow
  <1>5. console.lines = h /\ console.columns = w
    BY <1>1 DEF Opened
  <1>6. IsConsole(console, h, w)
    <2>1. DOMAIN EmptyWindow(h, w) = Window(h, w) /\ 0 \in 0 .. w
      BY <1>2 DEF EmptyWindow
    <2> HIDE DEF h, w, yes
    <2>2. QED
      BY <1>2, <1>4, <2>1 DEF IsConsole
  <1>7. Untouched
    BY <1>1, <1>5 DEF Untouched
  <1> HIDE DEF h, w
  <1>8. QED
    BY <1>2, <1>3, <1>5, <1>6, <1>7 DEF ConsoleInv

\* The new grid is at home.
LEMMA PrologueShown ==
  ASSUME IInv, ConsoleInv, PrologueOnConsole
  PROVE  ConsoleInv'
  <1> DEFINE h == console.lines
             w == console.columns
             n == core_count
             s == <<newline>> \o grid_reporter
             f == WithForeground(DefaultFormat, RedLetters)
  <1>1. /\ mainAt = "read_processor" /\ mainAt' = "loop"
        /\ core_count' = n /\ start' = start
        /\ grid' = [c \in Cells |-> "-"]
        /\ console' = Display(console, s)
    BY DEF PrologueOnConsole, Prologue, MainGoes, Send
  <1>2. /\ h \in Nat \ {0} /\ w \in Nat \ {0} /\ n \in Nat
        /\ start \in 0 .. h - 1
        /\ console = Opened(h, w, Blank, start, DefaultFormat)
    BY <1>1, CoreCountsAssumption DEF ConsoleInv, Untouched, IInv, TypeOK
  <1>3. /\ console'.lines = h
        /\ console'.columns = w
        /\ IsConsole(console', h, w)
    <2>1. IsText(s)
      BY <1>2, GridIsText
    <2> HIDE DEF s
    <2>2. QED
      BY <1>1, <2>1, SentText
  <1> DEFINE top == TopOf(start, h, n)
             m == LineBelow(start + 1, n, h)
  <1>4. Top' = top /\ HomeLine' = top /\ Cells' = Cells
    BY <1>1, <1>3 DEF Top, HomeLine, TopOf, Cells
  <1>5. ASSUME NotTooWide', InBytes'
        PROVE  AtHome' /\ (Fits' => GridIsShown')
    <2>1. n \in 1 .. 255 /\ 2 * n <= w
      BY <1>1, <1>2, <1>3, <1>5 DEF NotTooWide, InBytes
    <2> DEFINE no == FALSE
    <2>2. PICK g : /\ GridAbove(g, h, w, m, n, n, f)
                   /\ console' = Showing(h, w, g, top, 0, DefaultFormat, no)
      <3> HIDE DEF f, top, m
      <3>1. QED
        BY <1>1, <1>2, <2>1, GridDisplayed DEF f, top, m
    <2>3. console'.shown = g
      BY <2>2 DEF Showing
    <2>4. AtHome'
      BY <1>3, <1>4, <2>2, <2>3 DEF AtHome
    <2>5. ASSUME Fits'
          PROVE  GridIsShown'
      <3>1. n < h
        BY <1>1, <1>3, <2>5 DEF Fits
      <3>2. m \in Nat /\ top \in Nat /\ top + n = m /\ m <= h - 1
        BY <1>2, <2>1, <3>1 DEF LineBelow, TopOf, AtMost, AtLeast
      <3> HIDE DEF m, top
      <3>3. \A p \in Window(h, w) : p[1] >= top + n => g[p] = Blank
        BY <2>2, <3>2 DEF GridAbove
      <3>4. \A c \in Cells : g[<<top + c[2], 2 * c[1]>>] = CellLooks("-")
        <4> TAKE c \in Cells
        <4>1. c[1] \in 0 .. n - 1 /\ c[2] \in 0 .. n - 1
          BY DEF Cells
        <4> DEFINE i == top + c[2]
        <4>2. i \in 0 .. h - 1 /\ i < m /\ m - n <= i
          BY <1>2, <3>2, <4>1
        <4> HIDE DEF f
        <4>3. g[<<i, 2 * c[1]>>] = Dash(f)
          <5> HIDE DEF i
          <5>1. QED
            BY <2>2, <4>1, <4>2 DEF GridAbove
        <4>4. QED
          BY <4>3, Looks DEF f
      <3>5. \A c \in Cells : grid'[c] = "-"
        BY <1>1
      <3>6. QED
        BY <1>1, <1>3, <1>4, <2>3, <3>3, <3>4, <3>5 DEF GridIsShown
    <2>6. QED
      BY <2>4, <2>5
  <1>6. QED
    <2>1. Fits' => NotTooWide'
      BY DEF Fits
    <2>2. mainAt' # "read_processor"
      BY <1>1
    <2>3. start' \in 0 .. console'.lines - 1
      BY <1>1, <1>2, <1>3
    <2>4. /\ console'.lines \in Nat \ {0}
          /\ console'.columns \in Nat \ {0}
          /\ IsConsole(console', console'.lines, console'.columns)
      BY <1>2, <1>3
    <2>5. QED
      BY <1>5, <2>1, <2>2, <2>3, <2>4 DEF ConsoleInv

\* From home the reporter reaches every cell of a grid that is not too wide.
LEMMA CellsInReach ==
  ASSUME ConsoleInv, NotTooWide, InBytes, core_count \in Nat,
         NEW a \in 0 .. core_count - 1, NEW b \in 0 .. core_count - 1
  PROVE  CanWrite(console.lines, console.columns, Top, 2 * a, b)
  BY DEF ConsoleInv, NotTooWide, InBytes, CanWrite, Top, AtMost, AtLeast

\* A pair of a grid that fits into the window.
PairInGrid(h, w, n, top, a, b) ==
    /\ h \in Nat \ {0} /\ w \in Nat \ {0} /\ n \in Nat /\ top \in Nat
    /\ 2 * n <= w /\ top + n <= h - 1
    /\ a \in 0 .. n - 1 /\ b \in 0 .. n - 1

\* Its two cells look alike, and nothing else has changed in the grid and
\* below it.
PairLooks(g, g2, h, w, n, top, a, b, look) ==
    /\ \A p \in Window(h, w) : p[1] >= top + n => g2[p] = g[p]
    /\ \A c \in (0 .. n - 1) \X (0 .. n - 1) :
           g2[<<top + c[2], 2 * c[1]>>] =
             IF c \in {<<a, b>>, <<b, a>>} THEN look
             ELSE g[<<top + c[2], 2 * c[1]>>]

\* Two letters change the cells of the pair and no other.
LEMMA OnlyThePair ==
  ASSUME NEW h, NEW w, NEW n, NEW top, NEW a, NEW b,
         PairInGrid(h, w, n, top, a, b),
         NEW color, NEW g, DOMAIN g = Window(h, w)
  PROVE  PairLooks(g, Marked(g, h, top, a, b, color), h, w, n, top, a, b,
                   [m_letter |-> "X",
                    m_format |-> WithForeground(DefaultFormat, color)])
  <1> DEFINE f == WithForeground(DefaultFormat, color)
             x == [m_letter |-> "X", m_format |-> f]
             p1 == <<top + b, 2 * a>>
             p2 == <<top + a, 2 * b>>
             g1 == [g EXCEPT ![p1] = x]
             g2 == [g1 EXCEPT ![p2] = x]
  <1> USE DEF PairInGrid
  <1>1. LineBelow(top, a, h) = top + a /\ LineBelow(top, b, h) = top + b
    BY DEF LineBelow, AtMost
  <1>2. Marked(g, h, top, a, b, color) = g2
    BY <1>1 DEF Marked, Written
  <1>3. p1 \in Window(h, w) /\ p2 \in Window(h, w)
    BY DEF Window
  <1>4. \A p \in Window(h, w) :
           g2[p] = IF p \in {p1, p2} THEN x ELSE g[p]
    <2> HIDE DEF x, p1, p2
    <2>1. QED
      BY <1>3
  <1> HIDE DEF g2, x
  <1>5. \A p \in Window(h, w) : p[1] >= top + n => g2[p] = g[p]
    <2> TAKE p \in Window(h, w)
    <2>1. ASSUME p[1] >= top + n PROVE p # p1 /\ p # p2
      BY <2>1
    <2> HIDE DEF p1, p2
    <2>2. QED
      BY <1>4, <2>1
  <1>6. ASSUME NEW c \in (0 .. n - 1) \X (0 .. n - 1)
        PROVE  g2[<<top + c[2], 2 * c[1]>>] =
                 IF c \in {<<a, b>>, <<b, a>>} THEN x
                 ELSE g[<<top + c[2], 2 * c[1]>>]
    <2>1. /\ c = <<c[1], c[2]>>
          /\ c[1] \in 0 .. n - 1
          /\ c[2] \in 0 .. n - 1
      OBVIOUS
    <2> DEFINE p == <<top + c[2], 2 * c[1]>>
    <2>2. p \in Window(h, w)
      BY <2>1 DEF Window
    <2>3. p = p1 <=> c = <<a, b>>
      BY <2>1
    <2>4. p = p2 <=> c = <<b, a>>
      BY <2>1
    <2> HIDE DEF p, p1, p2
    <2>5. g2[p] = IF c \in {<<a, b>>, <<b, a>>} THEN x ELSE g[p]
      BY <1>4, <2>2, <2>3, <2>4
    <2>6. QED
      BY <2>5 DEF p
  <1>7. QED
    BY <1>2, <1>5, <1>6 DEF x, PairLooks

\* A pair that is marked is marked in its two cells, and the cursor is home.
LEMMA MarkShown ==
  ASSUME IInv, ConsoleInv, mainAt \in InIteration,
         mainAt' \notin {"read_processor", "done"},
         UNCHANGED <<core_count, start>>,
         NEW state, NEW color, Mark(state),
         CellLooks(state) = [m_letter |-> "X",
                             m_format |-> WithForeground(DefaultFormat, color)],
         console' = Display(console, MarkCores(cpu_a, cpu_b, color))
  PROVE  ConsoleInv'
  <1> DEFINE h == console.lines
             w == console.columns
             n == core_count
             a == cpu_a
             b == cpu_b
             g == console.shown
             s == MarkCores(a, b, color)
             g2 == Marked(g, h, Top, a, b, color)
             no == FALSE
  <1>1. /\ h \in Nat \ {0} /\ w \in Nat \ {0} /\ n \in Nat
        /\ start \in 0 .. h - 1 /\ IsConsole(console, h, w)
    BY CoreCountsAssumption DEF ConsoleInv, IInv, TypeOK
  <1>2. a \in 0 .. n - 1 /\ b \in 0 .. n - 1
    <2>1. /\ n \in Nat \ {0} /\ index \in Nat /\ b < a
          /\ a = CpuA(index) /\ b = CpuB(index)
      BY <1>1 DEF IInv, PairUnderWay, Indices, cpu_a, cpu_b
    <2>2. a \in 0 .. n - 1 /\ b \in Nat
      BY <2>1, Encode DEF CpuA, CpuB
    <2>3. QED
      BY <2>1, <2>2
  <1>3. mainAt # "read_processor" /\ mainAt # "done"
    BY DEF InIteration
  <1>4. /\ console'.lines = h
        /\ console'.columns = w
        /\ IsConsole(console', h, w)
    <2>1. IsText(s)
      <3> HIDE DEF a, b
      <3>1. QED
        BY <1>2, MarkIsText
    <2> HIDE DEF s
    <2>2. QED
      BY <2>1, SentText DEF s
  <1>5. /\ Top' = Top /\ HomeLine' = Top /\ HomeLine = Top /\ Cells' = Cells
        /\ (NotTooWide' <=> NotTooWide) /\ (InBytes' <=> InBytes)
        /\ (Fits' <=> Fits)
    BY <1>3, <1>4
       DEF Top, HomeLine, Cells, NotTooWide, InBytes, Fits
  <1>6. ASSUME NotTooWide, InBytes
        PROVE  /\ AtHome'
               /\ console'.shown = g2
    <2>1. CanWrite(h, w, Top, 2 * a, b) /\ CanWrite(h, w, Top, 2 * b, a)
      BY <1>1, <1>2, <1>6, CellsInReach
    <2>2. console = Showing(h, w, g, Top, 0, DefaultFormat, no)
      BY <1>3, <1>5, <1>6 DEF ConsoleInv, AtHome
    <2>3. Display(Showing(h, w, g, Top, 0, DefaultFormat, no), s) =
            Showing(h, w, g2, Top, 0, DefaultFormat, no)
      <3> HIDE DEF h, w, g, no, a, b
      <3>1. QED
        BY <2>1, MarkCoresDisplayed
    <2>4. console' = Showing(h, w, g2, Top, 0, DefaultFormat, no)
      <3>1. console' = Display(console, s)
        OBVIOUS
      <3> HIDE DEF g2, g, h, w, no, s
      <3>2. QED
        BY <2>2, <2>3, <3>1
    <2>5. console'.shown = g2
      BY <2>4 DEF Showing
    <2>6. QED
      BY <1>4, <1>5, <2>4, <2>5 DEF AtHome
  <1>7. ASSUME Fits, InBytes
        PROVE  GridIsShown'
    <2>1. NotTooWide /\ 2 * n <= w /\ n < h
      BY <1>7 DEF Fits, NotTooWide
    <2>2. Top \in Nat /\ Top + n <= h - 1
      BY <1>1, <2>1 DEF Top, AtMost, AtLeast
    <2>3. GridIsShown
      BY <1>3, <1>7 DEF ConsoleInv
    <2>4. DOMAIN g = Window(h, w)
      BY <1>1, ConsoleParts
    <2> DEFINE top == Top
    <2>5. /\ \A p \in Window(h, w) : p[1] >= top + n => g2[p] = g[p]
          /\ \A c \in Cells :
               g2[<<top + c[2], 2 * c[1]>>] =
                 IF c \in {<<a, b>>, <<b, a>>} THEN CellLooks(state)
                 ELSE g[<<top + c[2], 2 * c[1]>>]
      <3> DEFINE look == [m_letter |-> "X",
                          m_format |-> WithForeground(DefaultFormat, color)]
                 k == Marked(g, h, top, a, b, color)
      <3>1. PairInGrid(h, w, n, top, a, b)
        BY <1>1, <1>2, <2>1, <2>2 DEF PairInGrid
      <3> HIDE DEF h, w, a, b, g, top
      <3>2. PairLooks(g, k, h, w, n, top, a, b, look)
        BY <2>4, <3>1, OnlyThePair
      <3>3. g2 = k /\ CellLooks(state) = look
        BY DEF top
      <3> HIDE DEF g2, k, look
      <3>4. QED
        BY <3>2, <3>3 DEF Cells, PairLooks
    <2>6. \A c \in Cells :
             grid'[c] = IF c \in {<<a, b>>, <<b, a>>} THEN state ELSE grid[c]
      BY DEF Mark
    <2>7. console'.shown = g2
      BY <1>6, <1>7, <2>1
    <2> HIDE DEF h, w, g, g2, a, b
    <2>8. /\ \A p \in Window(h, w) : p[1] >= top + n => g[p] = Blank
          /\ \A c \in Cells :
               g[<<top + c[2], 2 * c[1]>>] = CellLooks(grid[c])
      BY <2>3 DEF GridIsShown, h, w, g
    <2> HIDE DEF top
    <2>9. \A p \in Window(h, w) : p[1] >= top + n => g2[p] = Blank
      BY <2>5, <2>8
    <2>10. \A c \in Cells :
              g2[<<top + c[2], 2 * c[1]>>] = CellLooks(grid'[c])
      BY <2>5, <2>6, <2>8
    <2>11. QED
      BY <1>4, <1>5, <2>7, <2>9, <2>10 DEF GridIsShown, h, w, top
  <1>8. QED
    <2>1. Fits' => NotTooWide'
      BY DEF Fits
    <2>2. start' \in 0 .. console'.lines - 1
      BY <1>1, <1>4
    <2>3. /\ console'.lines \in Nat \ {0}
          /\ console'.columns \in Nat \ {0}
          /\ IsConsole(console', console'.lines, console'.columns)
      BY <1>1, <1>4
    <2>4. QED
      BY <1>5, <1>6, <1>7, <2>1, <2>2, <2>3 DEF ConsoleInv

\* The reporter that goes out of scope moves the cursor below the grid.
LEMMA PublishShown ==
  ASSUME IInv, ConsoleInv, PublishOnConsole
  PROVE  ConsoleInv'
  <1> DEFINE h == console.lines
             w == console.columns
             n == core_count
             g == console.shown
             e == move("move_down", n)
             line == AtMost(Top + n, h - 1)
             no == FALSE
  <1>1. /\ mainAt = "loop" /\ mainAt' = "done"
        /\ core_count' = n /\ start' = start /\ grid' = grid
        /\ console' = Display(console, <<e>>)
    BY DEF PublishOnConsole, Publish, MainGoes, Send, grid_reporter_destructor
  <1>2. /\ h \in Nat \ {0} /\ w \in Nat \ {0} /\ n \in Nat
        /\ start \in 0 .. h - 1 /\ IsConsole(console, h, w)
    BY CoreCountsAssumption DEF ConsoleInv, IInv, TypeOK
  <1>3. /\ console'.lines = h
        /\ console'.columns = w
        /\ IsConsole(console', h, w)
    <2>1. IsText(<<e>>)
      BY <1>2, GridSequences, ShortTexts
    <2> DEFINE s == <<e>>
    <2> HIDE DEF s
    <2>2. QED
      BY <1>1, <2>1, SentText DEF s
  <1>4. /\ Top' = Top /\ HomeLine' = line /\ HomeLine = Top /\ Cells' = Cells
        /\ (NotTooWide' <=> NotTooWide) /\ (InBytes' <=> InBytes)
        /\ (Fits' <=> Fits)
    BY <1>1, <1>3 DEF Top, HomeLine, Cells, NotTooWide, InBytes, Fits
  <1>5. ASSUME NotTooWide, InBytes
        PROVE  AtHome' /\ console'.shown = g
    <2>1. n \in 1 .. 255
      BY <1>2, <1>5 DEF NotTooWide, InBytes
    <2>2. console = Showing(h, w, g, Top, 0, DefaultFormat, no)
      BY <1>1, <1>4, <1>5 DEF ConsoleInv, AtHome
    <2>3. Amount(n) = n
      BY <2>1, AmountKept
    <2>4. Forth(Top, n, h) = line /\ Inside(AtMost(0, w - 1), w) = 0
      BY <1>2, <2>3 DEF Forth, Inside, Top, AtMost, AtLeast
    <2> DEFINE t == Showing(h, w, g, Top, 0, DefaultFormat, no)
               t2 == Showing(h, w, g, line, 0, DefaultFormat, no)
    <2>5. Apply(t, e) = t2
      <3>1. Apply(t, e) =
              Showing(h, w, g, Forth(Top, n, h), Inside(AtMost(0, w - 1), w),
                      DefaultFormat, no)
        <4> HIDE DEF h, w, g, no
        <4>1. QED
          BY ApplyDown
      <3>2. QED
        BY <2>4, <3>1
    <2>6. Display(t, <<e>>) = Apply(t, e)
      <3> HIDE DEF t, e
      <3>1. QED
        BY DisplayOne
    <2>7. console' = t2
      <3> HIDE DEF t2, e, h, w, g, no
      <3>1. QED
        BY <1>1, <2>2, <2>5, <2>6
    <2>8. console'.shown = g
      BY <2>7 DEF Showing
    <2>9. QED
      BY <1>3, <1>4, <2>7, <2>8 DEF AtHome
  <1>6. ASSUME Fits, InBytes
        PROVE  GridIsShown'
    <2>1. console'.shown = g
      BY <1>5, <1>6 DEF Fits
    <2>2. GridIsShown
      BY <1>1, <1>6 DEF ConsoleInv
    <2>3. QED
      BY <1>1, <1>3, <1>4, <2>1, <2>2 DEF GridIsShown
  <1>7. QED
    <2>1. Fits' => NotTooWide'
      BY DEF Fits
    <2>2. start' \in 0 .. console'.lines - 1
      BY <1>1, <1>2, <1>3
    <2>3. /\ console'.lines \in Nat \ {0}
          /\ console'.columns \in Nat \ {0}
          /\ IsConsole(console', console'.lines, console'.columns)
      BY <1>2, <1>3
    <2>4. mainAt' # "read_processor"
      BY <1>1
    <2>5. QED
      BY <1>4, <1>5, <1>6, <2>1, <2>2, <2>3, <2>4 DEF ConsoleInv

\* A step that sends nothing leaves the grid as it is.
LEMMA SilentShown ==
  ASSUME ConsoleInv, UNCHANGED <<core_count, grid, console, start>>,
         mainAt' = "read_processor" <=> mainAt = "read_processor",
         mainAt' = "done" <=> mainAt = "done"
  PROVE  ConsoleInv'
  <1>1. /\ Top' = Top /\ HomeLine' = HomeLine /\ Cells' = Cells
        /\ (NotTooWide' <=> NotTooWide) /\ (InBytes' <=> InBytes)
        /\ (Fits' <=> Fits)
    BY DEF Top, HomeLine, Cells, NotTooWide, InBytes, Fits
  <1>2. Untouched' <=> Untouched
    BY DEF Untouched
  <1>3. AtHome' <=> AtHome
    BY <1>1 DEF AtHome
  <1>4. GridIsShown' <=> GridIsShown
    BY <1>1 DEF GridIsShown
  <1>5. QED
    BY <1>1, <1>2, <1>3, <1>4 DEF ConsoleInv

\* Every step keeps the console's invariant.
LEMMA StepConsoleInv == IInv /\ ConsoleInv /\ [ConsoleNext]_consoleVars
                          => ConsoleInv'
  <1> SUFFICES ASSUME IInv, ConsoleInv, [ConsoleNext]_consoleVars
               PROVE  ConsoleInv'
    OBVIOUS
  <1>1. CASE PrologueOnConsole
    BY <1>1, PrologueShown
  <1>2. CASE MarkInProgressOnConsole
    <2>1. /\ mainAt \in InIteration /\ mainAt' = "pick"
          /\ UNCHANGED <<core_count, start>>
          /\ Mark("in_progress")
          /\ console' = Display(console,
                                MarkCores(cpu_a, cpu_b, YellowLetters))
      BY <1>2 DEF MarkInProgressOnConsole, MarkInProgress, MainGoes, Send,
                  mark_cores_as_inprogress, InIteration
    <2>2. QED
      BY <2>1, Looks, MarkShown
  <1>3. CASE MarkDoneOnConsole
    <2>1. /\ mainAt \in InIteration /\ mainAt' = "loop"
          /\ UNCHANGED <<core_count, start>>
          /\ Mark("done")
          /\ console' = Display(console,
                                MarkCores(cpu_a, cpu_b, GreenLetters))
      BY <1>3 DEF MarkDoneOnConsole, MarkDone, MainGoes, Send,
                  mark_cores_as_done, InIteration
    <2>2. QED
      BY <2>1, Looks, MarkShown
  <1>4. CASE PublishOnConsole
    BY <1>4, PublishShown
  <1>5. CASE SilentStep
    BY <1>5, SilentShown
    DEF SilentStep, TakeIndex, StayPut, MoveAway, Abort, Measure, Migrate,
        Terminating, MainGoes, vars
  <1>6. CASE UNCHANGED consoleVars
    BY <1>6, SilentShown DEF consoleVars, vars
  <1>7. QED
    BY <1>1, <1>2, <1>3, <1>4, <1>5, <1>6 DEF ConsoleNext
-----------------------------------------------------------------------------
(* The theorems about the console *)

\* With its console map_threads() does what it does without: whatever holds
\* of the map, and of the grid it means to show, holds here.
THEOREM GridReporterImplementsThreadMap == ConsoleSpec => Spec
  <1>1. ConsoleInit => Init
    BY DEF ConsoleInit
  <1>2. [ConsoleNext]_consoleVars => [Next]_vars
    BY DEF ConsoleNext, PrologueOnConsole, MarkInProgressOnConsole,
           MarkDoneOnConsole, PublishOnConsole, SilentStep, Next, MainStep,
           consoleVars
  <1>3. QED
    BY <1>1, <1>2, PTL DEF ConsoleSpec, Spec

\* The invariants of both hold in every state.
THEOREM ConsoleInvariance == ConsoleSpec => [](IInv /\ ConsoleInv)
  <1>1. ConsoleInit => ConsoleInv
    BY InitConsoleInv
  <1>2. IInv /\ ConsoleInv /\ [ConsoleNext]_consoleVars => ConsoleInv'
    BY StepConsoleInv
  <1>3. ConsoleSpec => []IInv
    BY GridReporterImplementsThreadMap, Invariance, PTL
  <1>4. QED
    BY <1>1, <1>2, <1>3, PTL DEF ConsoleSpec

\* On every console and machine whose grid fits, as long as the moves of a row
\* fit bytes, every cell shows the state of its pair, in whatever order the
\* pairs are measured.
THEOREM GridOnConsole ==
  ConsoleSpec => [](core_count <= 128 => ConsoleShowsGrid)
  <1>1. ConsoleInv => (core_count <= 128 => ConsoleShowsGrid)
    BY DEF ConsoleInv, ConsoleShowsGrid, GridIsShown, InBytes
  <1>2. QED
    BY <1>1, ConsoleInvariance, PTL

\* On every console and machine whose grid is not too wide, under the same
\* bound, each write ends where the next one begins.
THEOREM CursorIsHome ==
  ConsoleSpec => [](core_count <= 128 => CursorReturns)
  <1>1. IInv /\ ConsoleInv => (core_count <= 128 => CursorReturns)
    <2> SUFFICES ASSUME IInv, ConsoleInv, InBytes, NotTooWide,
                        mainAt # "read_processor"
                 PROVE  CursorReturns
      BY DEF CursorReturns, InBytes
    <2> DEFINE h == console.lines
               w == console.columns
               below == IF mainAt = "done" THEN core_count ELSE 0
    <2>1. /\ h \in Nat \ {0} /\ w \in Nat \ {0} /\ core_count \in Nat
          /\ start \in 0 .. h - 1
      BY CoreCountsAssumption DEF ConsoleInv, IInv, TypeOK
    <2>2. Top \in 0 .. h - 1
      BY <2>1 DEF Top, AtMost, AtLeast
    <2>3. AtHome
      BY DEF ConsoleInv
    <2>4. HomeLine = AtMost(Top + below, h - 1)
      BY <2>1, <2>2 DEF HomeLine, AtMost
    <2>5. /\ console.column = 0
          /\ console.line = AtMost(Top + below, h - 1)
          /\ console.format = DefaultFormat
      BY <2>3, <2>4 DEF AtHome, Showing
    <2>6. ASSUME Fits, NEW column \in 0 .. w - 1
          PROVE  console.shown[<<Top + core_count, column>>] = Blank
      <3>1. GridIsShown
        BY <2>6 DEF ConsoleInv
      <3>2. <<Top + core_count, column>> \in Window(h, w)
        BY <2>1, <2>2, <2>6 DEF Fits, Top, Window, AtMost, AtLeast
      <3>3. QED
        BY <2>1, <2>2, <3>1, <3>2 DEF GridIsShown
    <2>7. QED
      BY <2>5, <2>6 DEF CursorReturns
  <1>2. QED
    BY <1>1, ConsoleInvariance, PTL DEF InBytes
=============================================================================
