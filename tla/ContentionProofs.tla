-------------------------- MODULE ContentionProofs --------------------------
(***************************************************************************)
(* Proofs about Contention for any number of threads, increments and       *)
(* samples: that the measured interval holds all the work, that nobody     *)
(* touches a latch that is gone, that samples are independent, and how     *)
(* many increments can be lost.  IInv says what the latches count, and how *)
(* far main and the threads can be apart because of them; CInv relates the *)
(* counter to the set of the increments made.                              *)
(***************************************************************************)
EXTENDS Contention, FiniteSetTheorems, TLAPS

\* The threads of a sample.
Team == 1 .. contention_thread_count

\* main's steps while both latches are alive, while the threads work, and
\* while no thread exists
Alive == {"spawn", "t0", "set_start", "notify_start", "set_atomic",
          "notify_atomic", "wait_end", "t1", "clear_start", "destroy_end"}
Underway == {"notify_start", "set_atomic", "notify_atomic", "wait_end"}
Idle == {"reset", "construct", "emplace", "done", "aborted"}

Arriving == {"none", "count_ready"}
Gathering == {"notify_ready", "wait_ready", "wait_start"}
Gone == {"notify_end", "exited"}

\* Which steps the files consist of.
Fits(step) ==
    /\ step \in {"lock", "unlock"} => bench = "mutex"
    /\ step = "fetch_add" => bench = "atomic_add"
    /\ step \in {"wait_atomic", "notify"} =>
         bench \in {"atomic_flag", "atomic_large"}
    /\ step \in {"load", "store"} => bench # "atomic_add"

Programs ==
    /\ mainAt = "reset" => bench # "mutex"
    /\ mainAt \in {"set_atomic", "notify_atomic"} => bench = "atomic_flag"
    /\ \A w \in Workers : Fits(at[w])

\* How far main and the threads can be apart.
Positions ==
    /\ mainAt \notin {"reset", "construct", "aborted"} =>
         contention_thread_count >= 0
    /\ \A w \in Workers \ Team : at[w] = "none"
    /\ mainAt \in Idle => \A w \in Team : at[w] = "none"
    /\ mainAt = "spawn" =>
         /\ spawned <= contention_thread_count
         /\ \A w \in Team : /\ at[w] = "none" <=> w > spawned
                            /\ at[w] \in Arriving \cup Gathering
    /\ mainAt \in {"t0", "set_start"} => \A w \in Team : at[w] \in Gathering
    /\ mainAt \in Underway => \A w \in Team : at[w] \notin Arriving
    /\ mainAt \in AfterEnd \ Idle => \A w \in Team : at[w] \in Gone

\* The latches count the threads that have not counted down.
ToReady == {w \in Team : at[w] \in Arriving}
ToEnd == {w \in Team : at[w] \notin Gone}

Latches ==
    /\ ready_signal = IF mainAt \in Alive \cup {"destroy_ready"}
                      THEN Cardinality(ToReady) ELSE destroyed
    /\ end_signal = IF mainAt \in Alive THEN Cardinality(ToEnd) ELSE destroyed

\* The start signal, and what a thread has done when it is where it is.
Progress ==
    /\ start_signal <=> mainAt \in (Underway \cup {"t1", "clear_start"})
    /\ \A w \in Workers :
         /\ at[w] \in {"count_ready"} \cup Gathering => i[w] = 0
         /\ at[w] \in LoopSteps => i[w] < adds
         /\ at[w] \in Finished => i[w] = adds
    /\ mutex # Main => /\ bench = "mutex"
                       /\ at[mutex] \in {"load", "store", "unlock"}
    /\ mainAt # "done" => taken < Samples

\* Who sleeps where.
Sleeping ==
    /\ parked[Main] # Awake =>
         \/ parked[Main] = "ready_signal" /\ mainAt = "spawn"
         \/ parked[Main] = "end_signal" /\ mainAt = "wait_end"
    /\ \A w \in Workers : parked[w] # Awake =>
         \/ parked[w] = "ready_signal" /\ at[w] = "wait_ready"
         \/ parked[w] = "start_signal" /\ at[w] = "wait_start"
         \/ parked[w] = "atomic" /\ at[w] = "wait_atomic"

IInv ==
    /\ TypeOK
    /\ Programs
    /\ Positions
    /\ Latches
    /\ Progress
    /\ Sleeping
-----------------------------------------------------------------------------
(* Counting.                                                               *)

LEMMA ThreadCountRange ==
  \A c \in ThreadCounts : c \in -1 .. MaxThreads
  BY MaxThreadsAssumption DEF ThreadCounts

LEMMA Wraps == \A k \in Int : AsInt(k) \in Ints
  <1> TAKE k \in Int
  <1> DEFINE m == 2 * (MaxInt + 1)
  <1>1. m \in Nat \ {0}
    BY MaxIntAssumption
  <1>2. \A x \in Int, d \in Nat \ {0} : x % d \in 0 .. d - 1
    OBVIOUS
  <1>3. (k + MaxInt + 1) % m \in 0 .. m - 1
    BY <1>1, <1>2, MaxIntAssumption
  <1>4. QED
    BY <1>3, MaxIntAssumption DEF AsInt, Ints

LEMMA Division ==
  ASSUME NEW m \in Nat \ {0}, NEW a \in Int
  PROVE  /\ a % m \in 0 .. m - 1
         /\ a \div m \in Int
         /\ a = m * (a \div m) + (a % m)
  OBVIOUS

\* The remainder is the only one.
LEMMA Remainder ==
  ASSUME NEW m \in Nat \ {0}, NEW d \in Int, NEW r \in 0 .. m - 1
  PROVE  (m * d + r) % m = r
  <1> DEFINE a == m * d + r
             e == a \div m
             s == a % m
  <1>1. a \in Int
    OBVIOUS
  <1>2. a = m * e + s /\ s \in 0 .. m - 1 /\ e \in Int
    BY <1>1
  <1>3. m * d + r = m * e + s
    BY <1>2
  <1> HIDE DEF a, e, s
  <1>4. ~(d >= e + 1)
    <2> SUFFICES ASSUME d >= e + 1 PROVE FALSE
      OBVIOUS
    <2>1. m * d >= m * (e + 1)
      BY <1>2
    <2>2. m * (e + 1) = m * e + m
      BY <1>2
    <2>3. QED
      BY <1>2, <1>3, <2>1, <2>2
  <1>5. ~(e >= d + 1)
    <2> SUFFICES ASSUME e >= d + 1 PROVE FALSE
      OBVIOUS
    <2>1. m * e >= m * (d + 1)
      BY <1>2
    <2>2. m * (d + 1) = m * d + m
      BY <1>2
    <2>3. QED
      BY <1>2, <1>3, <2>1, <2>2
  <1>6. d = e
    BY <1>2, <1>4, <1>5
  <1>7. s = r
    BY <1>2, <1>3, <1>6
  <1>8. QED
    BY <1>7 DEF s, a

\* One more, before or after the wrap around.
LEMMA WrapsOnce ==
  /\ \A x \in 0 .. MaxInt : AsInt(x) = x
  /\ \A x \in Int : AsInt(AsInt(x) + 1) = AsInt(x + 1)
  <1> DEFINE m == 2 * (MaxInt + 1)
  <1>1. m \in Nat \ {0} /\ MaxInt \in Nat
    BY MaxIntAssumption
  <1>2. ASSUME NEW x \in 0 .. MaxInt PROVE AsInt(x) = x
    <2>1. x + MaxInt + 1 \in 0 .. m - 1 /\ x \in Int
      BY <1>1
    <2>2. (m * 0 + (x + MaxInt + 1)) % m = x + MaxInt + 1
      BY <1>1, <2>1, Remainder
    <2>3. m * 0 + (x + MaxInt + 1) = x + MaxInt + 1
      BY <1>1, <2>1
    <2>4. QED
      BY <1>1, <2>1, <2>2, <2>3 DEF AsInt
  <1>3. ASSUME NEW x \in Int PROVE AsInt(AsInt(x) + 1) = AsInt(x + 1)
    <2> DEFINE a == x + MaxInt + 1
               r == a % m
               d == a \div m
    <2>1. /\ a \in Int /\ r \in 0 .. m - 1 /\ d \in Int
          /\ a = m * d + r
      <3> HIDE DEF m
      <3>1. a \in Int
        BY <1>1
      <3>2. QED
        BY <1>1, <3>1, Division
    <2>2. AsInt(x) = r - (MaxInt + 1)
      BY DEF AsInt
    <2>3. AsInt(AsInt(x) + 1) = ((r + 1) % m) - (MaxInt + 1)
      <3>1. AsInt(x) + 1 + MaxInt + 1 = r + 1
        BY <1>1, <2>1, <2>2
      <3>2. QED
        BY <3>1 DEF AsInt
    <2>4. AsInt(x + 1) = ((a + 1) % m) - (MaxInt + 1)
      <3>1. x + 1 + MaxInt + 1 = a + 1
        BY <1>1
      <3>2. QED
        BY <3>1 DEF AsInt
    <2>5. (a + 1) % m = (r + 1) % m
      <3> HIDE DEF a, r, d, m
      <3>1. CASE r + 1 \in 0 .. m - 1
        <4>1. (m * d + (r + 1)) % m = r + 1
          BY <1>1, <2>1, <3>1, Remainder
        <4>2. (m * 0 + (r + 1)) % m = r + 1
          BY <1>1, <2>1, <3>1, Remainder
        <4>3. a + 1 = m * d + (r + 1) /\ r + 1 = m * 0 + (r + 1)
          BY <1>1, <2>1
        <4>4. QED
          BY <4>1, <4>2, <4>3
      <3>2. CASE r + 1 = m
        <4>1. (m * (d + 1) + 0) % m = 0
          BY <1>1, <2>1, Remainder
        <4>2. (m * 1 + 0) % m = 0
          BY <1>1, <2>1, Remainder
        <4>3. m * (d + 1) = m * d + m
          BY <1>1, <2>1
        <4>4. a + 1 = m * (d + 1) + 0 /\ r + 1 = m * 1 + 0
          BY <1>1, <2>1, <3>2, <4>3
        <4>5. QED
          BY <4>1, <4>2, <4>4
      <3>3. QED
        BY <1>1, <2>1, <3>1, <3>2
    <2>6. QED
      BY <2>3, <2>4, <2>5
  <1>4. QED
    BY <1>2, <1>3

\* A set of threads of the team.
LEMMA Count ==
  ASSUME NEW N \in -1 .. MaxThreads, NEW S \in SUBSET (1 .. N)
  PROVE  /\ Cardinality(S) \in 0 .. MaxThreads
         /\ Cardinality(S) = 0 <=> S = {}
         /\ \A x \in S : Cardinality(S \ {x}) = Cardinality(S) - 1
  <1>1. IsFiniteSet(1 .. N) /\ Cardinality(1 .. N) <= MaxThreads
    BY FS_Interval, MaxThreadsAssumption
  <1>2. IsFiniteSet(S) /\ Cardinality(S) <= Cardinality(1 .. N)
    BY <1>1, FS_Subset
  <1>3. Cardinality(S) \in Nat /\ Cardinality(1 .. N) \in Nat
    BY <1>1, <1>2, FS_CardinalityType
  <1>4. Cardinality(S) \in 0 .. MaxThreads
    BY <1>1, <1>2, <1>3, MaxThreadsAssumption
  <1>5. Cardinality(S) = 0 <=> S = {}
    BY <1>2, FS_EmptySet
  <1>6. \A x \in S : Cardinality(S \ {x}) = Cardinality(S) - 1
    BY <1>2, FS_RemoveElement
  <1>7. QED
    BY <1>4, <1>5, <1>6

LEMMA Whole == \A N \in Nat : Cardinality(1 .. N) = N
  BY FS_Interval
-----------------------------------------------------------------------------
\* What follows each step, for all four files at once.
MeasureOf(b) ==
    /\ b # "mutex" => measure[b]["reset"] = "construct"
    /\ measure[b]["construct"] = "spawn"
    /\ measure[b]["spawn"] = "t0"
    /\ measure[b]["t0"] = "set_start"
    /\ measure[b]["set_start"] = "notify_start"
    /\ measure[b]["notify_start"] = IF b = "atomic_flag" THEN "set_atomic"
                                    ELSE "wait_end"
    /\ b = "atomic_flag" =>
         /\ measure[b]["set_atomic"] = "notify_atomic"
         /\ measure[b]["notify_atomic"] = "wait_end"
    /\ measure[b]["wait_end"] = "t1"
    /\ measure[b]["t1"] = "clear_start"
    /\ measure[b]["clear_start"] = "destroy_end"
    /\ measure[b]["destroy_end"] = "destroy_ready"
    /\ measure[b]["destroy_ready"] = "join"
    /\ measure[b]["join"] = "emplace"

ThreadOf(b) ==
    /\ thread_fun[b]["count_ready"] = "wait_ready"
    /\ thread_fun[b]["wait_ready"] = "wait_start"
    /\ thread_fun[b]["wait_start"] = IF b = "mutex" THEN "lock"
                                     ELSE IF b = "atomic_add" THEN "fetch_add"
                                     ELSE "wait_atomic"
    /\ b = "mutex" => thread_fun[b]["lock"] = "load"
    /\ b \in {"atomic_flag", "atomic_large"} =>
         thread_fun[b]["wait_atomic"] = "load"
    /\ b # "atomic_add" =>
         /\ thread_fun[b]["load"] = "store"
         /\ thread_fun[b]["store"] = IF b = "mutex" THEN "unlock" ELSE "notify"
    /\ thread_fun[b]["count_end"] = "exited"

LEMMA Files == \A b \in Benchmarks : MeasureOf(b) /\ ThreadOf(b)
  <1> SUFFICES ASSUME NEW b \in Benchmarks PROVE MeasureOf(b) /\ ThreadOf(b)
    OBVIOUS
  <1>1. CASE b = "mutex"
    BY <1>1 DEF MeasureOf, ThreadOf, measure, thread_fun, mutex_measure,
       mutex_thread_fun
  <1>2. CASE b = "atomic_add"
    BY <1>2 DEF MeasureOf, ThreadOf, measure, thread_fun, atomic_add_measure,
       atomic_add_thread_fun
  <1>3. CASE b = "atomic_flag"
    BY <1>3 DEF MeasureOf, ThreadOf, measure, thread_fun, atomic_flag_measure,
       atomic_flag_thread_fun
  <1>4. CASE b = "atomic_large"
    BY <1>4 DEF MeasureOf, ThreadOf, measure, thread_fun, atomic_large_measure,
       atomic_large_thread_fun
  <1>5. QED
    BY <1>1, <1>2, <1>3, <1>4 DEF Benchmarks
-----------------------------------------------------------------------------
(* What a step does to the counts and to the sleepers.                     *)

LEMMA TeamFacts ==
  ASSUME TypeOK
  PROVE  /\ MeasureOf(bench) /\ ThreadOf(bench)
         /\ contention_thread_count \in -1 .. MaxThreads
         /\ Team \subseteq Workers
         /\ Main \notin Workers
         /\ Threads = Workers \cup {Main}
  <1>1. contention_thread_count \in -1 .. MaxThreads
    BY ThreadCountRange DEF TypeOK
  <1>2. MeasureOf(bench) /\ ThreadOf(bench)
    BY Files DEF TypeOK
  <1>3. QED
    BY <1>1, <1>2, MaxThreadsAssumption DEF Team, Workers, Main, Threads

LEMMA Counts ==
  ASSUME TypeOK
  PROVE  /\ Cardinality(ToReady) \in 0 .. MaxThreads
         /\ Cardinality(ToEnd) \in 0 .. MaxThreads
         /\ Cardinality(ToReady) = 0 <=> ToReady = {}
         /\ Cardinality(ToEnd) = 0 <=> ToEnd = {}
         /\ \A x \in ToReady :
              Cardinality(ToReady \ {x}) = Cardinality(ToReady) - 1
         /\ \A x \in ToEnd :
              Cardinality(ToEnd \ {x}) = Cardinality(ToEnd) - 1
  <1>1. /\ ToReady \in SUBSET (1 .. contention_thread_count)
        /\ ToEnd \in SUBSET (1 .. contention_thread_count)
    BY DEF ToReady, ToEnd, Team
  <1>2. QED
    BY <1>1, TeamFacts, Count

LEMMA CountsKept ==
  ASSUME UNCHANGED <<at, contention_thread_count>>
  PROVE  Team' = Team /\ ToReady' = ToReady /\ ToEnd' = ToEnd
  BY DEF Team, ToReady, ToEnd

\* Notifications and spurious wake-ups put nobody to sleep.
WokenOnly == \A t \in Threads : parked'[t] \in {parked[t], Awake}

LEMMA Woken ==
  ASSUME TypeOK,
         \/ UNCHANGED parked
         \/ \E a \in Atomics : NotifyAll(a) \/ NotifyOne(a)
         \/ \E t \in Threads : SpuriousWake(t)
  PROVE  WaitTypeOK' /\ WokenOnly
  <1>1. parked \in [Threads -> Atomics \cup {Awake}]
    BY DEF TypeOK, WaitTypeOK
  <1>2. CASE UNCHANGED parked
    BY <1>1, <1>2 DEF WaitTypeOK, WokenOnly
  <1>3. ASSUME NEW a \in Atomics, NotifyAll(a)
        PROVE  WaitTypeOK' /\ WokenOnly
    BY <1>1, <1>3 DEF WaitTypeOK, WokenOnly, NotifyAll
  <1>4. ASSUME NEW a \in Atomics, NotifyOne(a)
        PROVE  WaitTypeOK' /\ WokenOnly
    BY <1>1, <1>4 DEF WaitTypeOK, WokenOnly, NotifyOne, Sleepers
  <1>5. ASSUME NEW t \in Threads, SpuriousWake(t)
        PROVE  WaitTypeOK' /\ WokenOnly
    BY <1>1, <1>5 DEF WaitTypeOK, WokenOnly, SpuriousWake
  <1>6. QED
    BY <1>2, <1>3, <1>4, <1>5

LEMMA Blocked ==
  ASSUME TypeOK, NEW t \in Threads, NEW a \in Atomics, NEW p,
         WaitBlocks(t, a, p)
  PROVE  /\ WaitTypeOK'
         /\ parked'[t] = a
         /\ \A u \in Threads \ {t} : parked'[u] = parked[u]
  <1>1. parked \in [Threads -> Atomics \cup {Awake}]
    BY DEF TypeOK, WaitTypeOK
  <1>2. parked' = [parked EXCEPT ![t] = a]
    BY DEF WaitBlocks
  <1>3. QED
    BY <1>1, <1>2 DEF WaitTypeOK
-----------------------------------------------------------------------------
(* A thread's step: where it may lead, and what follows for the others.    *)

Advance(from, to) ==
    \/ from = "count_ready" /\ to \in {"notify_ready", "wait_ready"}
    \/ from \in Gathering /\ to \in Gathering
    \/ from = "wait_start" /\ start_signal /\ to \in LoopSteps
    \/ from \in LoopSteps /\ to \in LoopSteps \cup {"count_end"}
    \/ from = "count_end" /\ to \in Gone
    \/ from = "notify_end" /\ to = "exited"

Moves(w, from, to) ==
    /\ WorkerJumps(w, from, to)
    /\ Advance(from, to)
    /\ Fits(to)

LEMMA WorkerMoves ==
  ASSUME IInv, NEW w \in Workers, NEW from, NEW to, Moves(w, from, to)
  PROVE  /\ w \in Team
         /\ at[w] = from /\ at'[w] = to
         /\ \A x \in Workers \ {w} : at'[x] = at[x]
         /\ at' \in [Workers -> WorkerSteps]
         /\ Programs'
         /\ Positions'
         /\ from = "count_ready" => mainAt = "spawn"
         /\ from \in LoopSteps \cup {"count_end"} => mainAt \in Underway
         /\ from = "count_ready" =>
              w \in ToReady /\ ToReady' = ToReady \ {w} /\ ToEnd' = ToEnd
         /\ from = "count_end" =>
              w \in ToEnd /\ ToEnd' = ToEnd \ {w} /\ ToReady' = ToReady
         /\ from \notin {"count_ready", "count_end"} =>
              ToReady' = ToReady /\ ToEnd' = ToEnd
  <1>1. /\ at \in [Workers -> WorkerSteps]
        /\ at[w] = from
        /\ at' = [at EXCEPT ![w] = to]
        /\ Team \subseteq Workers
    BY TeamFacts DEF Moves, WorkerJumps, IInv, TypeOK
  <1>2. UNCHANGED <<bench, contention_thread_count, mainAt, spawned>>
    BY DEF Moves, WorkerJumps
  <1>3. Advance(from, to) /\ from # "none" /\ to \in WorkerSteps /\ to # "none"
    BY DEF Moves, Advance, Gathering, Gone, LoopSteps, WorkerSteps
  <1>4. /\ at'[w] = to
        /\ \A x \in Workers \ {w} : at'[x] = at[x]
        /\ at' \in [Workers -> WorkerSteps]
    BY <1>1, <1>3
  <1>5. w \in Team
    BY <1>1, <1>3 DEF IInv, Positions
  <1>6. Programs'
    <2>1. \A x \in Workers : Fits(at[x])
      BY DEF IInv, Programs
    <2>2. \A s : Fits(s)' <=> Fits(s)
      BY <1>2 DEF Fits
    <2>3. \A x \in Workers : Fits(at'[x])
      BY <1>4, <2>1 DEF Moves
    <2>4. QED
      BY <1>2, <2>2, <2>3 DEF IInv, Programs, Fits
  <1>7. mainAt \in MainSteps
    BY DEF IInv, TypeOK
  <1>8. from = "count_ready" => mainAt = "spawn"
    BY <1>1, <1>5, <1>7 DEF IInv, Positions, MainSteps, Idle, Underway,
       AfterEnd, Arriving, Gathering, Gone
  <1>9. from \in LoopSteps \cup {"count_end"} => mainAt \in Underway
    BY <1>1, <1>5, <1>7 DEF IInv, Positions, MainSteps, Idle, Underway,
       AfterEnd, Arriving, Gathering, Gone, LoopSteps
  <1>10. from \in Gathering /\ to \notin Gathering => mainAt \in Underway
    <2>1. SUFFICES ASSUME from \in Gathering, to \notin Gathering
                   PROVE  mainAt \in Underway
      OBVIOUS
    <2>2. start_signal
      BY <1>3, <2>1 DEF Advance, Gathering, LoopSteps
    <2>3. mainAt \in Underway \cup {"t1", "clear_start"}
      BY <2>2 DEF IInv, Progress
    <2>4. QED
      BY <1>1, <1>5, <2>1, <2>3 DEF IInv, Positions, AfterEnd, Idle,
         Gathering, Gone
  <1>11. from \in Gone => to \in Gone
    BY <1>3 DEF Advance, Gone, Gathering, LoopSteps
  <1>12. Positions'
    <2>1. Team' = Team
      BY <1>2 DEF Team
    <2>2. to \notin Arriving
      BY <1>3 DEF Advance, Arriving, Gathering, LoopSteps, Gone
    <2>3. \A x \in Workers \ Team : at'[x] = "none"
      BY <1>4, <1>5 DEF IInv, Positions
    <2>4. mainAt \notin Idle
      BY <1>1, <1>3, <1>5 DEF IInv, Positions
    <2>5. mainAt = "spawn" =>
            /\ spawned <= contention_thread_count
            /\ \A x \in Team : /\ at'[x] = "none" <=> x > spawned
                               /\ at'[x] \in Arriving \cup Gathering
      <3>1. SUFFICES ASSUME mainAt = "spawn"
                     PROVE /\ spawned <= contention_thread_count
                           /\ \A x \in Team :
                                /\ at'[x] = "none" <=> x > spawned
                                /\ at'[x] \in Arriving \cup Gathering
        OBVIOUS
      <3>2. /\ spawned <= contention_thread_count
            /\ \A x \in Team : /\ at[x] = "none" <=> x > spawned
                               /\ at[x] \in Arriving \cup Gathering
        BY <3>1 DEF IInv, Positions
      <3>3. mainAt \notin Underway
        BY <3>1 DEF Underway
      <3>4. from = "count_ready" \/ from \in Gathering
        BY <1>1, <1>3, <1>5, <3>2 DEF Arriving
      <3>5. to \in Gathering
        BY <1>3, <1>10, <3>3, <3>4 DEF Advance, Gathering, LoopSteps
      <3>6. QED
        BY <1>1, <1>3, <1>4, <1>5, <3>2, <3>5
    <2>6. mainAt \in {"t0", "set_start"} => \A x \in Team : at'[x] \in Gathering
      BY <1>1, <1>4, <1>5, <1>10 DEF IInv, Positions, Underway
    <2>7. mainAt \in Underway => \A x \in Team : at'[x] \notin Arriving
      BY <1>1, <1>4, <1>5, <2>2 DEF IInv, Positions
    <2>8. mainAt \in AfterEnd \ Idle => \A x \in Team : at'[x] \in Gone
      BY <1>1, <1>4, <1>5, <1>11 DEF IInv, Positions
    <2>9. mainAt \notin {"reset", "construct", "aborted"} =>
            contention_thread_count >= 0
      BY DEF IInv, Positions
    <2>10. QED
      BY <1>2, <2>1, <2>3, <2>4, <2>5, <2>6, <2>7, <2>8, <2>9 DEF Positions
  <1>13. Team' = Team
    BY <1>2 DEF Team
  <1>14. \A x \in Team \ {w} : /\ at'[x] \in Arriving <=> at[x] \in Arriving
                               /\ at'[x] \in Gone <=> at[x] \in Gone
    BY <1>1, <1>4
  <1>15. from = "count_ready" =>
           w \in ToReady /\ ToReady' = ToReady \ {w} /\ ToEnd' = ToEnd
    <2>1. from = "count_ready" =>
            from \in Arriving /\ to \notin Arriving
            /\ from \notin Gone /\ to \notin Gone
      BY <1>3 DEF Advance, Arriving, Gathering, LoopSteps, Gone
    <2>2. QED
      BY <1>1, <1>4, <1>5, <1>13, <1>14, <2>1 DEF ToReady, ToEnd
  <1>16. from = "count_end" =>
           w \in ToEnd /\ ToEnd' = ToEnd \ {w} /\ ToReady' = ToReady
    <2>1. from = "count_end" =>
            from \notin Arriving /\ to \notin Arriving
            /\ from \notin Gone /\ to \in Gone
      BY <1>3 DEF Advance, Arriving, Gathering, LoopSteps, Gone
    <2>2. QED
      BY <1>1, <1>4, <1>5, <1>13, <1>14, <2>1 DEF ToReady, ToEnd
  <1>17. from \notin {"count_ready", "count_end"} =>
           ToReady' = ToReady /\ ToEnd' = ToEnd
    <2>1. from \notin {"count_ready", "count_end"} =>
            from \notin Arriving /\ to \notin Arriving
            /\ (from \in Gone <=> to \in Gone)
      BY <1>3 DEF Advance, Arriving, Gathering, LoopSteps, Gone
    <2>2. QED
      BY <1>1, <1>4, <1>5, <1>13, <1>14, <2>1 DEF ToReady, ToEnd
  <1>18. QED
    BY <1>1, <1>4, <1>5, <1>6, <1>8, <1>9, <1>12, <1>15, <1>16, <1>17

\* The latches count on through a step of a thread.
LEMMA LatchesKept ==
  ASSUME IInv, NEW w \in Workers, NEW from, NEW to, Moves(w, from, to),
         from \notin {"count_ready", "count_end"}, UNCHANGED latches
  PROVE  Latches'
  <1>1. ToReady' = ToReady /\ ToEnd' = ToEnd
    BY WorkerMoves
  <1>2. mainAt' = mainAt
    BY DEF Moves, WorkerJumps
  <1>3. QED
    BY <1>1, <1>2 DEF IInv, Latches, latches

\* What a thread has done follows from where it goes.
LEMMA ProgressKept ==
  ASSUME IInv, NEW w \in Workers, NEW from, NEW to, Moves(w, from, to),
         ~(from \in LoopSteps /\ to = "count_end"),
         mutex = w => to \in {"load", "store", "unlock"},
         UNCHANGED <<start_signal, mutex, i>>
  PROVE  Progress'
  <1>1. /\ UNCHANGED <<bench, adds, mainAt, taken>>
        /\ at' \in [Workers -> WorkerSteps]
        /\ at[w] = from /\ at'[w] = to
        /\ \A x \in Workers \ {w} : at'[x] = at[x]
    BY WorkerMoves DEF Moves, WorkerJumps
  <1>2. \A x \in Workers :
          /\ at[x] \in {"count_ready"} \cup Gathering => i[x] = 0
          /\ at[x] \in LoopSteps => i[x] < adds
          /\ at[x] \in Finished => i[x] = adds
    BY DEF IInv, Progress
  <1>3. /\ to \in {"count_ready"} \cup Gathering => i[w] = 0
        /\ to \in LoopSteps => i[w] < adds
        /\ to \in Finished => i[w] = adds
    <2>1. Advance(from, to) /\ adds > 0
      BY MaxAddsAssumption DEF Moves, IInv, TypeOK
    <2>2. CASE from = "count_ready"
      BY <1>1, <1>2, <2>1, <2>2 DEF Advance, Gathering, LoopSteps, Finished
    <2>3. CASE from \in Gathering /\ to \in Gathering
      BY <1>1, <1>2, <2>3 DEF Gathering, LoopSteps, Finished
    <2>4. CASE from = "wait_start" /\ to \in LoopSteps
      BY <1>1, <1>2, <2>1, <2>4 DEF Gathering, LoopSteps, Finished
    <2>5. CASE from \in LoopSteps /\ to \in LoopSteps
      BY <1>1, <1>2, <2>5 DEF Gathering, LoopSteps, Finished
    <2>6. CASE from \in {"count_end", "notify_end"} /\ to \in Gone
      BY <1>1, <1>2, <2>6 DEF Gathering, LoopSteps, Finished, Gone
    <2>7. QED
      BY <2>1, <2>2, <2>3, <2>4, <2>5, <2>6 DEF Advance, Gone
  <1>4. \A x \in Workers :
          /\ at'[x] \in {"count_ready"} \cup Gathering => i'[x] = 0
          /\ at'[x] \in LoopSteps => i'[x] < adds'
          /\ at'[x] \in Finished => i'[x] = adds'
    BY <1>1, <1>2, <1>3
  <1>5. mutex' # Main => /\ bench' = "mutex"
                         /\ at'[mutex'] \in {"load", "store", "unlock"}
    BY <1>1 DEF IInv, Progress, TypeOK, Threads
  <1>6. QED
    BY <1>1, <1>4, <1>5 DEF IInv, Progress

\* A thread that moves on is awake.
LEMMA SleepingKept ==
  ASSUME IInv, NEW w \in Workers, NEW from, NEW to, Moves(w, from, to),
         from \in {"wait_ready", "wait_start", "wait_atomic"} => IsAwake(w),
         WokenOnly
  PROVE  Sleeping'
  <1>1. /\ mainAt' = mainAt
        /\ at[w] = from
        /\ \A x \in Workers \ {w} : at'[x] = at[x]
        /\ Threads = Workers \cup {Main}
    BY WorkerMoves, TeamFacts DEF Moves, WorkerJumps, IInv
  <1>2. parked[w] = Awake
    BY <1>1 DEF IInv, Sleeping, IsAwake
  <1>3. parked'[w] = Awake
    BY <1>1, <1>2 DEF WokenOnly
  <1>4. \A x \in Workers : parked'[x] # Awake =>
          /\ x # w /\ parked'[x] = parked[x] /\ at'[x] = at[x]
    BY <1>1, <1>3 DEF WokenOnly
  <1>5. parked'[Main] # Awake => parked'[Main] = parked[Main]
    BY <1>1 DEF WokenOnly
  <1>6. QED
    BY <1>1, <1>4, <1>5 DEF IInv, Sleeping

\* A thread that blocks stays where it is.
LEMMA SleepsThere ==
  ASSUME IInv, NEW w \in Workers, NEW step, NEW a, NEW p,
         Moves(w, step, step), WaitBlocks(w, a, p),
         \/ a = "ready_signal" /\ step = "wait_ready"
         \/ a = "start_signal" /\ step = "wait_start"
         \/ a = "atomic" /\ step = "wait_atomic"
  PROVE  WaitTypeOK' /\ Sleeping'
  <1>1. /\ mainAt' = mainAt
        /\ at'[w] = step
        /\ \A x \in Workers \ {w} : at'[x] = at[x]
        /\ Threads = Workers \cup {Main} /\ Main \notin Workers
    BY WorkerMoves, TeamFacts DEF Moves, WorkerJumps, IInv
  <1>2. a \in Atomics
    BY DEF Atomics
  <1>3. /\ WaitTypeOK'
        /\ parked'[w] = a
        /\ \A u \in Threads \ {w} : parked'[u] = parked[u]
    BY <1>1, <1>2, Blocked DEF IInv
  <1>4. QED
    BY <1>1, <1>3 DEF IInv, Sleeping

\* The parts of the invariant that a step of a thread may disturb.
LEMMA WorkerIInv ==
  ASSUME IInv, NEW w \in Workers, NEW from, NEW to, Moves(w, from, to),
         WaitTypeOK', Latches', Progress', Sleeping',
         ready_signal' \in (0 .. MaxThreads) \cup {destroyed},
         end_signal' \in (0 .. MaxThreads) \cup {destroyed},
         mutex' \in Threads, counter' \in Ints,
         loaded' \in [Workers -> Ints], i' \in [Workers -> 0 .. adds],
         UNCHANGED <<start_signal, atomic_flag>>
  PROVE  IInv'
  <1>1. /\ Programs' /\ Positions'
        /\ at' \in [Workers -> WorkerSteps]
    BY WorkerMoves
  <1>2. UNCHANGED <<bench, contention_thread_count, adds, mainAt, spawned,
                    taken>>
    BY DEF Moves, WorkerJumps
  <1>3. TypeOK'
    BY <1>1, <1>2 DEF IInv, TypeOK
  <1>4. QED
    BY <1>1, <1>3 DEF IInv

\* The same for a step that writes nothing but the positions.
LEMMA QuietIInv ==
  ASSUME IInv, NEW w \in Workers, NEW from, NEW to, Moves(w, from, to),
         from \notin {"count_ready", "count_end"},
         ~(from \in LoopSteps /\ to = "count_end"),
         mutex = w => to \in {"load", "store", "unlock"},
         UNCHANGED <<latches, start_signal, shared, i>>,
         WaitTypeOK', Sleeping'
  PROVE  IInv'
  <1>1. Latches' /\ Progress'
    BY LatchesKept, ProgressKept DEF shared
  <1>2. QED
    BY <1>1, WorkerIInv DEF IInv, TypeOK, latches, shared
-----------------------------------------------------------------------------
(* The steps of a thread.                                                  *)

LEMMA WorkerStepIInv ==
  ASSUME IInv, NEW w \in Workers, WorkerStep(w)
  PROVE  IInv'
  <1>1. /\ ThreadOf(bench)
        /\ w \in Threads
        /\ Fits(at[w])
        /\ mutex = w => bench = "mutex" /\ at[w] \in {"load", "store", "unlock"}
        /\ UNCHANGED parked => WaitTypeOK' /\ WokenOnly
    BY TeamFacts, Woken DEF IInv, Programs, Progress
  <1>2. CASE CountReady(w)
    <2> DEFINE to == IF ready_signal = 1 THEN "notify_ready" ELSE "wait_ready"
    <2>1. Moves(w, "count_ready", to)
      BY <1>1, <1>2 DEF CountReady, WorkerGoes, WorkerJumps, Moves, Advance,
         Fits, ThreadOf
    <2> HIDE DEF to
    <2>2. /\ mainAt = "spawn" /\ mainAt' = mainAt
          /\ w \in ToReady /\ ToReady' = ToReady \ {w} /\ ToEnd' = ToEnd
      BY <2>1, WorkerMoves DEF Moves, WorkerJumps
    <2>3. /\ ready_signal = Cardinality(ToReady)
          /\ end_signal = Cardinality(ToEnd)
      BY <2>2 DEF IInv, Latches, Alive
    <2>4. /\ Cardinality(ToReady') = ready_signal - 1
          /\ Cardinality(ToReady) \in 1 .. MaxThreads
      BY <2>2, <2>3, Counts DEF IInv
    <2>5. Latches' /\ ready_signal' \in 0 .. MaxThreads
      BY <1>2, <2>2, <2>3, <2>4, MaxThreadsAssumption
         DEF CountReady, Latches, Alive
    <2>6. mutex # w
      BY <1>1, <2>1 DEF Moves, WorkerJumps
    <2>7. Progress'
      BY <1>2, <2>1, <2>6, ProgressKept DEF CountReady, shared, LoopSteps
    <2>8. WaitTypeOK' /\ Sleeping'
      BY <1>1, <1>2, <2>1, SleepingKept DEF CountReady
    <2>9. QED
      BY <1>2, <2>1, <2>5, <2>7, <2>8, WorkerIInv
         DEF CountReady, shared, IInv, TypeOK
  <1>3. CASE NotifyReady(w)
    <2>1. Moves(w, "notify_ready", "wait_ready")
      BY <1>1, <1>3 DEF NotifyReady, Moves, Advance, Gathering, Fits, ThreadOf
    <2>2. WaitTypeOK' /\ WokenOnly
      BY <1>3, Woken DEF NotifyReady, IInv, Atomics
    <2>3. Sleeping'
      BY <2>1, <2>2, SleepingKept
    <2>4. mutex # w
      BY <1>1, <2>1 DEF Moves, WorkerJumps
    <2>5. QED
      BY <1>3, <2>1, <2>2, <2>3, <2>4, QuietIInv DEF NotifyReady, LoopSteps
  <1>4. CASE WaitReady(w)
    <2>1. CASE WaitReturns(w, ready_signal = 0) /\ WorkerGoes(w, "wait_ready")
      <3>1. Moves(w, "wait_ready", "wait_start")
        BY <1>1, <2>1 DEF WorkerGoes, Moves, Advance, Gathering, Fits, ThreadOf
      <3>2. WaitTypeOK' /\ Sleeping'
        BY <1>1, <2>1, <3>1, SleepingKept DEF WaitReturns
      <3>3. mutex # w
        BY <1>1, <3>1 DEF Moves, WorkerJumps
      <3>4. QED
        BY <1>4, <3>1, <3>2, <3>3, QuietIInv DEF WaitReady, LoopSteps
    <2>2. CASE /\ WaitBlocks(w, "ready_signal", ready_signal = 0)
               /\ WorkerStays(w, "wait_ready")
      <3>1. Moves(w, "wait_ready", "wait_ready")
        BY <2>2 DEF WorkerStays, Moves, Advance, Gathering, Fits
      <3>2. WaitTypeOK' /\ Sleeping'
        BY <2>2, <3>1, SleepsThere
      <3>3. mutex # w
        BY <1>1, <3>1 DEF Moves, WorkerJumps
      <3>4. QED
        BY <1>4, <3>1, <3>2, <3>3, QuietIInv DEF WaitReady, LoopSteps
    <2>3. QED
      BY <1>4, <2>1, <2>2 DEF WaitReady
  <1>5. CASE WaitStart(w)
    <2>1. CASE WaitReturns(w, start_signal) /\ WorkerGoes(w, "wait_start")
      <3> DEFINE to == thread_fun[bench]["wait_start"]
      <3>1. Moves(w, "wait_start", to) /\ to \in LoopSteps
        BY <1>1, <2>1 DEF WorkerGoes, Moves, Advance, LoopSteps, Fits,
           ThreadOf, WaitReturns, IInv, TypeOK, Benchmarks
      <3> HIDE DEF to
      <3>2. WaitTypeOK' /\ Sleeping'
        BY <1>1, <2>1, <3>1, SleepingKept DEF WaitReturns
      <3>3. mutex # w
        BY <1>1, <3>1 DEF Moves, WorkerJumps
      <3>4. QED
        BY <1>5, <3>1, <3>2, <3>3, QuietIInv DEF WaitStart, LoopSteps
    <2>2. CASE /\ WaitBlocks(w, "start_signal", start_signal)
               /\ WorkerStays(w, "wait_start")
      <3>1. Moves(w, "wait_start", "wait_start")
        BY <2>2 DEF WorkerStays, Moves, Advance, Gathering, Fits
      <3>2. WaitTypeOK' /\ Sleeping'
        BY <2>2, <3>1, SleepsThere
      <3>3. mutex # w
        BY <1>1, <3>1 DEF Moves, WorkerJumps
      <3>4. QED
        BY <1>5, <3>1, <3>2, <3>3, QuietIInv DEF WaitStart, LoopSteps
    <2>3. QED
      BY <1>5, <2>1, <2>2 DEF WaitStart
  <1>6. CASE Lock(w)
    <2>1. bench = "mutex" /\ Moves(w, "lock", "load")
      BY <1>1, <1>6 DEF Lock, WorkerGoes, WorkerJumps, Moves, Advance,
         LoopSteps, Fits, ThreadOf
    <2>2. Latches'
      BY <1>6, <2>1, LatchesKept DEF Lock
    <2>3. Progress'
      <3>1. /\ UNCHANGED <<bench, adds, mainAt, taken, start_signal, i>>
            /\ at[w] = "lock" /\ at'[w] = "load" /\ mutex' = w
            /\ \A x \in Workers \ {w} : at'[x] = at[x]
        BY <1>6, <2>1, WorkerMoves DEF Lock, Moves, WorkerJumps
      <3>2. QED
        BY <2>1, <3>1 DEF IInv, Progress, LoopSteps, Gathering, Finished
    <2>4. WaitTypeOK' /\ Sleeping'
      BY <1>1, <1>6, <2>1, SleepingKept DEF Lock
    <2>5. QED
      BY <1>1, <1>6, <2>1, <2>2, <2>3, <2>4, WorkerIInv
         DEF Lock, latches, IInv, TypeOK
  <1>7. CASE WaitAtomic(w)
    <2> DEFINE differs == IF bench = "atomic_flag" THEN atomic_flag
                          ELSE counter # -1
    <2>1. UNCHANGED <<latches, start_signal, shared, i>>
      BY <1>7 DEF WaitAtomic
    <2>2. CASE WaitReturns(w, differs) /\ WorkerGoes(w, "wait_atomic")
      <3>1. Moves(w, "wait_atomic", "load")
        BY <1>1, <2>2 DEF WorkerGoes, WorkerJumps, Moves, Advance, LoopSteps,
           Fits, ThreadOf
      <3>2. WaitTypeOK' /\ Sleeping'
        BY <1>1, <2>2, <3>1, SleepingKept DEF WaitReturns
      <3>3. mutex # w
        BY <1>1, <3>1 DEF Moves, WorkerJumps
      <3>4. QED
        BY <2>1, <3>1, <3>2, <3>3, QuietIInv
    <2>3. CASE /\ WaitBlocks(w, "atomic", differs)
               /\ WorkerStays(w, "wait_atomic")
      <3>1. Moves(w, "wait_atomic", "wait_atomic")
        BY <1>1, <2>3 DEF WorkerStays, WorkerJumps, Moves, Advance, LoopSteps
      <3>2. WaitTypeOK' /\ Sleeping'
        BY <2>3, <3>1, SleepsThere
      <3>3. mutex # w
        BY <1>1, <3>1 DEF Moves, WorkerJumps
      <3>4. QED
        BY <2>1, <3>1, <3>2, <3>3, QuietIInv
    <2>4. QED
      BY <1>7, <2>2, <2>3 DEF WaitAtomic
  <1>8. CASE Load(w)
    <2>1. Moves(w, "load", "store")
      BY <1>1, <1>8 DEF Load, WorkerGoes, WorkerJumps, Moves, Advance,
         LoopSteps, Fits, ThreadOf
    <2>2. Latches' /\ Progress'
      BY <1>8, <2>1, LatchesKept, ProgressKept DEF Load
    <2>3. WaitTypeOK' /\ Sleeping'
      BY <1>1, <1>8, <2>1, SleepingKept DEF Load
    <2>4. loaded' \in [Workers -> Ints]
      BY <1>8 DEF Load, IInv, TypeOK
    <2>5. QED
      BY <1>8, <2>1, <2>2, <2>3, <2>4, WorkerIInv
         DEF Load, latches, IInv, TypeOK
  <1>9. CASE Store(w)
    <2> DEFINE to == IF bench = "mutex" THEN "unlock" ELSE "notify"
    <2>1. Moves(w, "store", to) /\ to \in LoopSteps
      BY <1>1, <1>9 DEF Store, WorkerGoes, WorkerJumps, Moves, Advance,
         LoopSteps, Fits, ThreadOf, IInv, TypeOK, Benchmarks
    <2>2. mutex = w => to \in {"load", "store", "unlock"}
      BY <1>1
    <2> HIDE DEF to
    <2>3. Latches' /\ Progress'
      BY <1>9, <2>1, <2>2, LatchesKept, ProgressKept DEF Store, LoopSteps
    <2>4. WaitTypeOK' /\ Sleeping'
      BY <1>1, <1>9, <2>1, SleepingKept DEF Store
    <2>5. counter' \in Ints
      <3>1. loaded[w] + 1 \in Int
        BY MaxIntAssumption DEF IInv, TypeOK, Ints
      <3>2. QED
        BY <1>9, <3>1, Wraps DEF Store
    <2>6. QED
      BY <1>9, <2>1, <2>3, <2>4, <2>5, WorkerIInv
         DEF Store, latches, IInv, TypeOK
  <1>10. ASSUME NEW from \in {"unlock", "notify", "fetch_add"},
                EndIteration(w, from), UNCHANGED <<latches, start_signal>>,
                (mutex' = mutex /\ from # "unlock") \/ mutex' = Main
         PROVE  /\ \E to : Moves(w, from, to)
                /\ Latches' /\ Progress'
                /\ i' \in [Workers -> 0 .. adds]
    <2> DEFINE to == IF i[w] + 1 < adds THEN thread_fun[bench]["wait_start"]
                     ELSE "count_end"
    <2>1. /\ at[w] = from /\ i \in [Workers -> 0 .. adds] /\ adds \in Nat
          /\ i[w] < adds
      BY <1>10, MaxAddsAssumption
         DEF EndIteration, WorkerJumps, IInv, TypeOK, Progress,
         LoopSteps
    <2>2. i' = [i EXCEPT ![w] = i[w] + 1]
      BY <1>10 DEF EndIteration
    <2>3. i'[w] = i[w] + 1 /\ i' \in [Workers -> 0 .. adds]
      BY <2>1, <2>2
    <2>4. Moves(w, from, to) /\ to \in LoopSteps \cup {"count_end"}
      BY <1>1, <1>10, <2>3 DEF EndIteration, Moves, Advance, LoopSteps, Fits,
         ThreadOf, IInv, TypeOK, Benchmarks
    <2>5. to = "count_end" <=> i'[w] = adds
      BY <1>1, <2>1, <2>3 DEF ThreadOf
    <2> HIDE DEF to
    <2>6. Latches'
      BY <1>10, <2>4, LatchesKept
    <2>7. Progress'
      <3>1. /\ UNCHANGED <<bench, adds, mainAt, taken, start_signal>>
            /\ at[w] = from /\ at'[w] = to
            /\ \A x \in Workers \ {w} : at'[x] = at[x] /\ i'[x] = i[x]
        BY <1>10, <2>1, <2>2, <2>4, WorkerMoves DEF Moves, WorkerJumps
      <3>2. mutex' # Main =>
              /\ bench' = "mutex"
              /\ at'[mutex'] \in {"load", "store", "unlock"}
        BY <1>1, <1>10, <3>1 DEF IInv, Progress, TypeOK, Threads
      <3>3. /\ to \notin {"count_ready"} \cup Gathering
            /\ to \in LoopSteps => i'[w] < adds
            /\ to \in Finished => i'[w] = adds
        BY <2>1, <2>3, <2>4, <2>5 DEF LoopSteps, Gathering, Finished
      <3>4. QED
        BY <3>1, <3>2, <3>3 DEF IInv, Progress
    <2>8. QED
      BY <2>3, <2>4, <2>6, <2>7
  <1>11. CASE Unlock(w)
    <2>1. PICK to : Moves(w, "unlock", to)
      BY <1>10, <1>11 DEF Unlock
    <2>2. Latches' /\ Progress' /\ i' \in [Workers -> 0 .. adds]
      BY <1>10, <1>11 DEF Unlock
    <2>3. WaitTypeOK' /\ Sleeping'
      BY <1>1, <1>11, <2>1, SleepingKept DEF Unlock
    <2>4. QED
      BY <1>11, <2>1, <2>2, <2>3, WorkerIInv
         DEF Unlock, latches, IInv, TypeOK, Threads
  <1>12. CASE Notify(w)
    <2>1. PICK to : Moves(w, "notify", to)
      BY <1>10, <1>12 DEF Notify, shared
    <2>2. Latches' /\ Progress' /\ i' \in [Workers -> 0 .. adds]
      BY <1>10, <1>12 DEF Notify, shared
    <2>3. WaitTypeOK' /\ WokenOnly
      BY <1>12, Woken DEF Notify, IInv, Atomics
    <2>4. Sleeping'
      BY <2>1, <2>3, SleepingKept
    <2>5. QED
      BY <1>12, <2>1, <2>2, <2>3, <2>4, WorkerIInv
         DEF Notify, latches, shared, IInv, TypeOK
  <1>13. CASE FetchAdd(w)
    <2>1. PICK to : Moves(w, "fetch_add", to)
      BY <1>10, <1>13 DEF FetchAdd
    <2>2. Latches' /\ Progress' /\ i' \in [Workers -> 0 .. adds]
      BY <1>10, <1>13 DEF FetchAdd
    <2>3. WaitTypeOK' /\ Sleeping'
      BY <1>1, <1>13, <2>1, SleepingKept DEF FetchAdd
    <2>4. counter' \in Ints
      <3>1. counter + 1 \in Int
        BY MaxIntAssumption DEF IInv, TypeOK, Ints
      <3>2. QED
        BY <1>13, <3>1, Wraps DEF FetchAdd
    <2>5. QED
      BY <1>13, <2>1, <2>2, <2>3, <2>4, WorkerIInv
         DEF FetchAdd, latches, IInv, TypeOK
  <1>14. CASE CountEnd(w)
    <2> DEFINE to == IF end_signal = 1 THEN "notify_end" ELSE "exited"
    <2>1. Moves(w, "count_end", to)
      BY <1>1, <1>14 DEF CountEnd, WorkerGoes, WorkerJumps, Moves, Advance,
         Gone, Fits, ThreadOf
    <2> HIDE DEF to
    <2>2. /\ mainAt \in Underway /\ mainAt' = mainAt
          /\ w \in ToEnd /\ ToEnd' = ToEnd \ {w} /\ ToReady' = ToReady
      BY <2>1, WorkerMoves DEF Moves, WorkerJumps
    <2>3. /\ ready_signal = Cardinality(ToReady)
          /\ end_signal = Cardinality(ToEnd)
      BY <2>2 DEF IInv, Latches, Alive, Underway
    <2>4. /\ Cardinality(ToEnd') = end_signal - 1
          /\ Cardinality(ToEnd) \in 1 .. MaxThreads
      BY <2>2, <2>3, Counts DEF IInv
    <2>5. Latches' /\ end_signal' \in 0 .. MaxThreads
      BY <1>14, <2>2, <2>3, <2>4, MaxThreadsAssumption
         DEF CountEnd, Latches, Alive, Underway
    <2>6. mutex # w
      BY <1>1, <2>1 DEF Moves, WorkerJumps
    <2>7. Progress'
      BY <1>14, <2>1, <2>6, ProgressKept DEF CountEnd, shared, LoopSteps
    <2>8. WaitTypeOK' /\ Sleeping'
      BY <1>1, <1>14, <2>1, SleepingKept DEF CountEnd
    <2>9. QED
      BY <1>14, <2>1, <2>5, <2>7, <2>8, WorkerIInv
         DEF CountEnd, shared, IInv, TypeOK
  <1>15. CASE NotifyEnd(w)
    <2>1. Moves(w, "notify_end", "exited")
      BY <1>1, <1>15 DEF NotifyEnd, Moves, Advance, Fits, ThreadOf
    <2>2. WaitTypeOK' /\ WokenOnly
      BY <1>15, Woken DEF NotifyEnd, IInv, Atomics
    <2>3. Sleeping'
      BY <2>1, <2>2, SleepingKept
    <2>4. mutex # w
      BY <1>1, <2>1 DEF Moves, WorkerJumps
    <2>5. QED
      BY <1>15, <2>1, <2>2, <2>3, <2>4, QuietIInv DEF NotifyEnd, LoopSteps
  <1>16. QED
    BY <1>2, <1>3, <1>4, <1>5, <1>6, <1>7, <1>8, <1>9, <1>11, <1>12, <1>13,
       <1>14, <1>15 DEF WorkerStep
-----------------------------------------------------------------------------
(* The steps of main.                                                      *)

\* A step of main that leaves the threads where they are.
LEMMA MainSleepingKept ==
  ASSUME IInv, UNCHANGED at, WokenOnly,
         mainAt' = mainAt \/ IsAwake(Main)
                          \/ mainAt \notin {"spawn", "wait_end"}
  PROVE  Sleeping'
  <1>1. Threads = Workers \cup {Main}
    BY TeamFacts DEF IInv
  <1>2. \A x \in Workers : parked'[x] # Awake => parked'[x] = parked[x]
    BY <1>1 DEF WokenOnly
  <1>3. parked'[Main] # Awake =>
          parked'[Main] = parked[Main] /\ mainAt' = mainAt
    BY <1>1 DEF WokenOnly, IInv, Sleeping, IsAwake
  <1>4. QED
    BY <1>2, <1>3 DEF IInv, Sleeping

LEMMA MainSleepsThere ==
  ASSUME IInv, UNCHANGED <<at, mainAt>>, NEW a, NEW p, WaitBlocks(Main, a, p),
         \/ a = "ready_signal" /\ mainAt = "spawn"
         \/ a = "end_signal" /\ mainAt = "wait_end"
  PROVE  WaitTypeOK' /\ Sleeping'
  <1>1. Threads = Workers \cup {Main} /\ Main \notin Workers
    BY TeamFacts DEF IInv
  <1>2. a \in Atomics
    BY DEF Atomics
  <1>3. /\ WaitTypeOK'
        /\ parked'[Main] = a
        /\ \A u \in Threads \ {Main} : parked'[u] = parked[u]
    BY <1>1, <1>2, Blocked DEF IInv
  <1>4. QED
    BY <1>1, <1>3 DEF IInv, Sleeping

\* What holds of a thread does not depend on main.
LEMMA ProgramsKept ==
  ASSUME IInv, UNCHANGED <<at, bench>>,
         mainAt' = "reset" => bench # "mutex",
         mainAt' \in {"set_atomic", "notify_atomic"} => bench = "atomic_flag"
  PROVE  Programs'
  <1>1. \A s : Fits(s)' <=> Fits(s)
    BY DEF Fits
  <1>2. QED
    BY <1>1 DEF IInv, Programs, Fits

LEMMA MainProgressKept ==
  ASSUME IInv, UNCHANGED <<at, bench, adds, mutex, i>>,
         start_signal' <=> mainAt' \in (Underway \cup {"t1", "clear_start"}),
         mainAt' # "done" => taken' < Samples
  PROVE  Progress'
  BY DEF IInv, Progress

\* The parts of the invariant that a step of main may disturb when it leaves
\* the threads where they are.
LEMMA MainIInv ==
  ASSUME IInv,
         UNCHANGED <<bench, contention_thread_count, adds, at, mutex, loaded,
                     i>>,
         mainAt' \in MainSteps,
         mainAt' = "reset" => bench # "mutex",
         mainAt' \in {"set_atomic", "notify_atomic"} => bench = "atomic_flag",
         Positions', Latches',
         start_signal' <=> mainAt' \in (Underway \cup {"t1", "clear_start"}),
         mainAt' # "done" => taken' < Samples,
         WaitTypeOK', Sleeping',
         spawned' \in 0 .. MaxThreads, taken' \in 0 .. Samples,
         ready_signal' \in (0 .. MaxThreads) \cup {destroyed},
         end_signal' \in (0 .. MaxThreads) \cup {destroyed},
         start_signal' \in BOOLEAN, atomic_flag' \in BOOLEAN, counter' \in Ints
  PROVE  IInv'
  <1>1. Programs' /\ Progress'
    BY ProgramsKept, MainProgressKept
  <1>2. TypeOK'
    BY DEF IInv, TypeOK
  <1>3. QED
    BY <1>1, <1>2 DEF IInv

\* The same for a step within one phase, which writes no signal.
SamePhase(from, to) ==
    \/ {from, to} \subseteq {"reset", "construct"}
    \/ {from, to} \subseteq {"t0", "set_start"}
    \/ {from, to} \subseteq Underway
    \/ {from, to} \subseteq {"t1", "clear_start"}

LEMMA SamePhaseIInv ==
  ASSUME IInv, NEW from, NEW to, MainJumps(from, to), SamePhase(from, to),
         to \in {"set_atomic", "notify_atomic"} => bench = "atomic_flag",
         to # "reset",
         UNCHANGED <<spawned, at, latches, start_signal, mutex, loaded, i,
                     taken>>,
         atomic_flag' \in BOOLEAN, counter' \in Ints,
         WaitTypeOK', WokenOnly,
         from = "wait_end" => IsAwake(Main)
  PROVE  IInv'
  <1>1. /\ mainAt = from /\ mainAt' = to
        /\ UNCHANGED <<bench, contention_thread_count, adds>>
    BY DEF MainJumps
  <1>2. to \in MainSteps /\ from # "spawn" /\ from # "done" /\ to # "done"
    BY DEF SamePhase, MainSteps, Underway
  <1>3. Team' = Team /\ ToReady' = ToReady /\ ToEnd' = ToEnd
    BY <1>1, CountsKept
  <1>4. Positions'
    BY <1>1, <1>3 DEF SamePhase, IInv, Positions, Idle, Underway, AfterEnd
  <1>5. Latches'
    BY <1>1, <1>3 DEF SamePhase, IInv, Latches, Alive, Underway, latches
  <1>6. start_signal' <=> mainAt' \in (Underway \cup {"t1", "clear_start"})
    BY <1>1 DEF SamePhase, IInv, Progress, Underway
  <1>7. taken' < Samples
    BY <1>1, <1>2 DEF IInv, Progress
  <1>8. Sleeping'
    BY <1>1, <1>2, MainSleepingKept
  <1>9. QED
    BY <1>1, <1>2, <1>4, <1>5, <1>6, <1>7, <1>8, MainIInv
       DEF IInv, TypeOK, latches

LEMMA MainStepIInv ==
  ASSUME IInv, MainStep
  PROVE  IInv'
  <1>1. /\ MeasureOf(bench)
        /\ contention_thread_count \in -1 .. MaxThreads
        /\ Main \in Threads /\ Main \notin Workers /\ Team \subseteq Workers
        /\ atomic_flag \in BOOLEAN /\ counter \in Ints
        /\ UNCHANGED parked => WaitTypeOK' /\ WokenOnly
    BY TeamFacts, Woken DEF IInv, TypeOK
  <1>2. CASE MainReset
    <2>1. MainJumps("reset", "construct")
      BY <1>1, <1>2 DEF MainReset, MainGoes, MainJumps, MeasureOf, IInv,
         Programs
    <2>2. 0 \in Ints
      BY MaxIntAssumption DEF Ints
    <2>3. QED
      BY <1>1, <1>2, <2>1, <2>2, SamePhaseIInv DEF MainReset, SamePhase
  <1>3. CASE MainConstruct
    <2>1. CASE /\ contention_thread_count < 0
               /\ MainJumps("construct", "aborted")
               /\ UNCHANGED latches
      <3>1. /\ mainAt = "construct" /\ mainAt' = "aborted" /\ spawned' = 0
            /\ UNCHANGED <<bench, contention_thread_count, adds, at, parked,
                           latches, start_signal, shared, i, taken>>
        BY <1>3, <2>1 DEF MainConstruct, MainJumps
      <3>2. Positions'
        BY <3>1 DEF IInv, Positions, Team, Idle, Underway, AfterEnd
      <3>3. Latches'
        BY <3>1 DEF IInv, Latches, Alive, latches
      <3>4. Sleeping'
        BY <1>1, <3>1, MainSleepingKept
      <3>5. start_signal' <=> mainAt' \in (Underway \cup {"t1", "clear_start"})
        BY <3>1 DEF IInv, Progress, Underway
      <3>6. QED
        BY <1>1, <3>1, <3>2, <3>3, <3>4, <3>5, MaxThreadsAssumption, MainIInv
           DEF IInv, TypeOK, Progress, MainSteps, latches, shared
    <2>2. CASE /\ contention_thread_count >= 0
               /\ MainGoes("construct")
               /\ ready_signal' = contention_thread_count
               /\ end_signal' = contention_thread_count
      <3>1. /\ mainAt = "construct" /\ mainAt' = "spawn" /\ spawned' = 0
            /\ UNCHANGED <<bench, contention_thread_count, adds, at, parked,
                           start_signal, shared, i, taken>>
        BY <1>1, <1>3, <2>2
           DEF MainConstruct, MainGoes, MainJumps, MeasureOf
      <3>2. /\ contention_thread_count \in 0 .. MaxThreads
            /\ \A w \in Team : at[w] = "none"
        BY <1>1, <2>2, <3>1 DEF IInv, Positions, Idle
      <3>3. Team' = Team /\ ToReady' = Team /\ ToEnd' = Team
        BY <3>1, <3>2 DEF Team, ToReady, ToEnd, Arriving, Gone
      <3>4. Cardinality(Team) = contention_thread_count
        BY <3>2, Whole DEF Team
      <3>5. Positions'
        <4>1. \A w \in Team : w > 0 /\ at[w] \in Arriving
          BY <3>2 DEF Team, Arriving
        <4>2. QED
          BY <3>1, <3>2, <3>3, <4>1
             DEF IInv, Positions, Idle, Underway, AfterEnd
      <3>6. Latches'
        BY <2>2, <3>1, <3>3, <3>4 DEF Latches, Alive
      <3>7. Sleeping'
        BY <1>1, <3>1, MainSleepingKept
      <3>8. start_signal' <=> mainAt' \in (Underway \cup {"t1", "clear_start"})
        BY <3>1 DEF IInv, Progress, Underway
      <3>9. QED
        BY <1>1, <2>2, <3>1, <3>2, <3>5, <3>6, <3>7, <3>8,
           MaxThreadsAssumption, MainIInv
           DEF IInv, TypeOK, Progress, MainSteps, shared
    <2>3. QED
      BY <1>3, <2>1, <2>2 DEF MainConstruct
  <1>4. CASE MainSpawn
    <2>1. /\ mainAt = "spawn" /\ mainAt' = "spawn"
          /\ spawned' = spawned + 1
          /\ at' = [at EXCEPT ![spawned + 1] = "count_ready"]
          /\ i' = [i EXCEPT ![spawned + 1] = 0]
          /\ UNCHANGED <<bench, contention_thread_count, adds, parked, latches,
                         start_signal, shared, taken>>
      BY <1>4 DEF MainSpawn, MainStays, MainJumps
    <2>2. /\ spawned + 1 \in Team /\ spawned + 1 \in 0 .. MaxThreads
          /\ spawned \in Nat
      BY <1>1, <1>4, MaxThreadsAssumption DEF MainSpawn, IInv, TypeOK, Team
    <2>3. /\ at \in [Workers -> WorkerSteps]
          /\ i \in [Workers -> 0 .. adds] /\ adds \in Nat
      BY MaxAddsAssumption DEF IInv, TypeOK
    <2> DEFINE w == spawned + 1
    <2>4. w \in Workers /\ w \in Team
      BY <1>1, <2>2
    <2>5. /\ at[w] = "none"
          /\ \A x \in Team : /\ at[x] = "none" <=> x > spawned
                             /\ at[x] \in Arriving \cup Gathering
          /\ w <= contention_thread_count
      BY <2>1, <2>2 DEF IInv, Positions, Team
    <2>6. /\ at'[w] = "count_ready" /\ i'[w] = 0
          /\ \A x \in Workers \ {w} : at'[x] = at[x] /\ i'[x] = i[x]
          /\ at' \in [Workers -> WorkerSteps]
          /\ i' \in [Workers -> 0 .. adds]
      BY <2>1, <2>3, <2>4 DEF WorkerSteps
    <2>7. \A x \in Team : x # w => (x > w <=> x > spawned)
      BY <1>1, <2>2 DEF Team
    <2> HIDE DEF w
    <2>8. /\ Team' = Team /\ ToReady' = ToReady /\ ToEnd' = ToEnd
      BY <1>1, <2>1, <2>4, <2>5, <2>6
         DEF Team, ToReady, ToEnd, Arriving, Gone
    <2>9. TypeOK'
      BY <1>1, <2>1, <2>2, <2>6
         DEF IInv, TypeOK, WaitTypeOK, latches, shared
    <2>10. Programs'
      <3>1. \A s : Fits(s)' <=> Fits(s)
        BY <2>1 DEF Fits
      <3>2. \A x \in Workers : Fits(at'[x])
        BY <2>4, <2>6 DEF IInv, Programs, Fits
      <3>3. QED
        BY <2>1, <3>1, <3>2 DEF Programs, Fits
    <2>11. Positions'
      <3>1. \A x \in Workers \ Team : at'[x] = "none"
        BY <2>4, <2>6 DEF IInv, Positions
      <3>2. spawned' = w /\ w > spawned /\ ~(w > w)
        BY <2>1, <2>2 DEF w
      <3>3. \A x \in Team : /\ at'[x] = "none" <=> x > w
                            /\ at'[x] \in Arriving \cup Gathering
        BY <1>1, <2>5, <2>6, <2>7, <3>2 DEF Arriving
      <3>4. QED
        BY <2>1, <2>5, <2>8, <3>1, <3>2, <3>3
           DEF IInv, Positions, Idle, Underway, AfterEnd
    <2>12. Latches'
      BY <2>1, <2>8 DEF IInv, Latches, latches
    <2>13. Progress'
      <3>1. mutex' # Main => /\ bench' = "mutex"
                             /\ at'[mutex'] \in {"load", "store", "unlock"}
        BY <2>1, <2>5, <2>6 DEF IInv, Progress, TypeOK, Threads, shared
      <3>2. QED
        BY <2>1, <2>6, <3>1
           DEF IInv, Progress, Gathering, LoopSteps, Finished
    <2>14. Sleeping'
      BY <2>1, <2>5, <2>6 DEF IInv, Sleeping
    <2>15. QED
      BY <2>9, <2>10, <2>11, <2>12, <2>13, <2>14 DEF IInv
  <1>5. CASE MainWaitReady
    <2>1. /\ spawned = contention_thread_count
          /\ UNCHANGED <<spawned, at, latches, start_signal, shared, i, taken>>
      BY <1>5 DEF MainWaitReady
    <2>2. CASE WaitReturns(Main, ready_signal = 0) /\ MainGoes("spawn")
      <3>1. /\ mainAt = "spawn" /\ mainAt' = "t0"
            /\ UNCHANGED <<bench, contention_thread_count, adds, parked>>
            /\ ready_signal = 0 /\ IsAwake(Main)
        BY <1>1, <2>2 DEF WaitReturns, MainGoes, MainJumps, MeasureOf
      <3>2. Team' = Team /\ ToReady' = ToReady /\ ToEnd' = ToEnd
        BY <2>1, <3>1, CountsKept
      <3>3. ToReady = {}
        BY <3>1, Counts DEF IInv, Latches, Alive
      <3>4. \A w \in Team : at[w] \in Gathering
        BY <3>1, <3>3 DEF IInv, Positions, ToReady
      <3>5. Positions'
        BY <2>1, <3>1, <3>2, <3>4
           DEF IInv, Positions, Idle, Underway, AfterEnd
      <3>6. Latches'
        BY <2>1, <3>1, <3>2 DEF IInv, Latches, Alive, latches
      <3>7. Sleeping'
        BY <1>1, <2>1, <3>1, MainSleepingKept
      <3>8. start_signal' <=> mainAt' \in (Underway \cup {"t1", "clear_start"})
        BY <2>1, <3>1 DEF IInv, Progress, Underway
      <3>9. QED
        BY <1>1, <2>1, <3>1, <3>5, <3>6, <3>7, <3>8, MainIInv
           DEF IInv, TypeOK, Progress, MainSteps, latches, shared
    <2>3. CASE /\ WaitBlocks(Main, "ready_signal", ready_signal = 0)
               /\ MainStays("spawn")
      <3>1. /\ mainAt = "spawn" /\ mainAt' = "spawn"
            /\ UNCHANGED <<bench, contention_thread_count, adds>>
        BY <2>3 DEF MainStays, MainJumps
      <3>2. WaitTypeOK' /\ Sleeping'
        BY <2>1, <2>3, <3>1, MainSleepsThere
      <3>3. Team' = Team /\ ToReady' = ToReady /\ ToEnd' = ToEnd
        BY <2>1, <3>1, CountsKept
      <3>4. Positions'
        BY <2>1, <3>1, <3>3 DEF IInv, Positions
      <3>5. Latches'
        BY <2>1, <3>1, <3>3 DEF IInv, Latches, latches
      <3>6. start_signal' <=> mainAt' \in (Underway \cup {"t1", "clear_start"})
        BY <2>1, <3>1 DEF IInv, Progress
      <3>7. QED
        BY <1>1, <2>1, <3>1, <3>2, <3>4, <3>5, <3>6, MainIInv
           DEF IInv, TypeOK, Progress, MainSteps, latches, shared
    <2>4. QED
      BY <1>5, <2>2, <2>3 DEF MainWaitReady
  <1>6. CASE MainT0
    <2>1. MainJumps("t0", "set_start")
      BY <1>1, <1>6 DEF MainT0, MainGoes, MeasureOf
    <2>2. QED
      BY <1>1, <1>6, <2>1, SamePhaseIInv DEF MainT0, SamePhase, shared
  <1>7. CASE MainSetStart
    <2>1. /\ mainAt = "set_start" /\ mainAt' = "notify_start"
          /\ start_signal' = TRUE
          /\ UNCHANGED <<bench, contention_thread_count, adds, spawned, at,
                         parked, latches, shared, i, taken>>
      BY <1>1, <1>7 DEF MainSetStart, MainGoes, MainJumps, MeasureOf
    <2>2. Team' = Team /\ ToReady' = ToReady /\ ToEnd' = ToEnd
      BY <2>1, CountsKept
    <2>3. \A w \in Team : at[w] \notin Arriving
      BY <2>1 DEF IInv, Positions, Gathering, Arriving
    <2>4. Positions'
      BY <2>1, <2>2, <2>3 DEF IInv, Positions, Idle, Underway, AfterEnd
    <2>5. Latches'
      BY <2>1, <2>2 DEF IInv, Latches, Alive, latches
    <2>6. Sleeping'
      BY <1>1, <2>1, MainSleepingKept
    <2>7. QED
      BY <1>1, <2>1, <2>4, <2>5, <2>6, MainIInv
         DEF IInv, TypeOK, Progress, MainSteps, Underway, latches, shared
  <1>8. CASE MainNotifyStart
    <2>1. PICK to \in {"set_atomic", "wait_end"} :
            /\ MainJumps("notify_start", to)
            /\ to = "set_atomic" => bench = "atomic_flag"
      BY <1>1, <1>8 DEF MainNotifyStart, MainGoes, MeasureOf
    <2>2. WaitTypeOK' /\ WokenOnly
      BY <1>8, Woken DEF MainNotifyStart, IInv, Atomics
    <2>3. QED
      BY <1>1, <1>8, <2>1, <2>2, SamePhaseIInv
         DEF MainNotifyStart, SamePhase, Underway, shared
  <1>9. CASE MainSetAtomic
    <2>1. MainJumps("set_atomic", "notify_atomic") /\ bench = "atomic_flag"
      BY <1>1, <1>9 DEF MainSetAtomic, MainGoes, MainJumps, MeasureOf, IInv,
         Programs
    <2>2. QED
      BY <1>1, <1>9, <2>1, SamePhaseIInv
         DEF MainSetAtomic, SamePhase, Underway
  <1>10. CASE MainNotifyAtomic
    <2>1. MainJumps("notify_atomic", "wait_end")
      BY <1>1, <1>10 DEF MainNotifyAtomic, MainGoes, MainJumps, MeasureOf,
         IInv, Programs
    <2>2. WaitTypeOK' /\ WokenOnly
      BY <1>10, Woken DEF MainNotifyAtomic, IInv, Atomics
    <2>3. QED
      BY <1>1, <1>10, <2>1, <2>2, SamePhaseIInv
         DEF MainNotifyAtomic, SamePhase, Underway, shared
  <1>11. CASE MainWaitEnd
    <2>1. UNCHANGED <<spawned, at, latches, start_signal, shared, i, taken>>
      BY <1>11 DEF MainWaitEnd
    <2>2. CASE WaitReturns(Main, end_signal = 0) /\ MainGoes("wait_end")
      <3>1. /\ mainAt = "wait_end" /\ mainAt' = "t1"
            /\ UNCHANGED <<bench, contention_thread_count, adds, parked>>
            /\ end_signal = 0 /\ IsAwake(Main)
        BY <1>1, <2>2 DEF WaitReturns, MainGoes, MainJumps, MeasureOf
      <3>2. Team' = Team /\ ToReady' = ToReady /\ ToEnd' = ToEnd
        BY <2>1, <3>1, CountsKept
      <3>3. ToEnd = {}
        BY <3>1, Counts DEF IInv, Latches, Alive
      <3>4. \A w \in Team : at[w] \in Gone
        BY <3>3 DEF ToEnd
      <3>5. Positions'
        BY <2>1, <3>1, <3>2, <3>4
           DEF IInv, Positions, Idle, Underway, AfterEnd
      <3>6. Latches'
        BY <2>1, <3>1, <3>2 DEF IInv, Latches, Alive, latches
      <3>7. Sleeping'
        BY <1>1, <2>1, <3>1, MainSleepingKept
      <3>8. start_signal' <=> mainAt' \in (Underway \cup {"t1", "clear_start"})
        BY <2>1, <3>1 DEF IInv, Progress, Underway
      <3>9. QED
        BY <1>1, <2>1, <3>1, <3>5, <3>6, <3>7, <3>8, MainIInv
           DEF IInv, TypeOK, Progress, MainSteps, latches, shared
    <2>3. CASE /\ WaitBlocks(Main, "end_signal", end_signal = 0)
               /\ MainStays("wait_end")
      <3>1. /\ mainAt = "wait_end" /\ mainAt' = "wait_end"
            /\ UNCHANGED <<bench, contention_thread_count, adds>>
        BY <2>3 DEF MainStays, MainJumps
      <3>2. WaitTypeOK' /\ Sleeping'
        BY <2>1, <2>3, <3>1, MainSleepsThere
      <3>3. Team' = Team /\ ToReady' = ToReady /\ ToEnd' = ToEnd
        BY <2>1, <3>1, CountsKept
      <3>4. Positions'
        BY <2>1, <3>1, <3>3 DEF IInv, Positions
      <3>5. Latches'
        BY <2>1, <3>1, <3>3 DEF IInv, Latches, latches
      <3>6. start_signal' <=> mainAt' \in (Underway \cup {"t1", "clear_start"})
        BY <2>1, <3>1 DEF IInv, Progress
      <3>7. QED
        BY <1>1, <2>1, <3>1, <3>2, <3>4, <3>5, <3>6, MainIInv
           DEF IInv, TypeOK, Progress, MainSteps, latches, shared
    <2>4. QED
      BY <1>11, <2>2, <2>3 DEF MainWaitEnd
  <1>12. CASE MainT1
    <2>1. MainJumps("t1", "clear_start")
      BY <1>1, <1>12 DEF MainT1, MainGoes, MeasureOf
    <2>2. QED
      BY <1>1, <1>12, <2>1, SamePhaseIInv DEF MainT1, SamePhase, shared
  <1>13. ASSUME NEW from, NEW to, MainJumps(from, to),
                UNCHANGED <<spawned, at, parked, shared, i, taken>>,
                \/ /\ from = "clear_start" /\ to = "destroy_end"
                   /\ start_signal' = FALSE /\ UNCHANGED latches
                \/ /\ from = "destroy_end" /\ to = "destroy_ready"
                   /\ end_signal' = destroyed
                   /\ UNCHANGED <<ready_signal, start_signal>>
                \/ /\ from = "destroy_ready" /\ to = "join"
                   /\ ready_signal' = destroyed
                   /\ UNCHANGED <<end_signal, start_signal>>
         PROVE  IInv'
    <2>1. /\ mainAt = from /\ mainAt' = to
          /\ UNCHANGED <<bench, contention_thread_count, adds>>
      BY <1>13 DEF MainJumps
    <2>2. Team' = Team /\ ToReady' = ToReady /\ ToEnd' = ToEnd
      BY <1>13, <2>1, CountsKept
    <2>3. Positions'
      BY <1>13, <2>1, <2>2 DEF IInv, Positions, Idle, Underway, AfterEnd
    <2>4. Latches'
      BY <1>13, <2>1, <2>2 DEF IInv, Latches, Alive, latches
    <2>5. Sleeping'
      BY <1>1, <1>13, <2>1, MainSleepingKept
    <2>6. start_signal' <=> mainAt' \in (Underway \cup {"t1", "clear_start"})
      BY <1>13, <2>1 DEF IInv, Progress, Underway
    <2>7. start_signal' \in BOOLEAN
      BY <1>13 DEF IInv, TypeOK
    <2>8. /\ ready_signal' \in (0 .. MaxThreads) \cup {destroyed}
          /\ end_signal' \in (0 .. MaxThreads) \cup {destroyed}
      BY <1>13 DEF IInv, TypeOK, latches
    <2>9. /\ mainAt' \in MainSteps \ {"reset", "set_atomic", "notify_atomic"}
          /\ taken' < Samples
      BY <1>13, <2>1 DEF IInv, Progress, MainSteps
    <2>10. QED
      BY <1>1, <1>13, <2>1, <2>3, <2>4, <2>5, <2>6, <2>7, <2>8, <2>9, MainIInv
         DEF IInv, TypeOK, shared
  <1>14. CASE MainClearStart
    <2>1. MainJumps("clear_start", "destroy_end")
      BY <1>1, <1>14 DEF MainClearStart, MainGoes, MeasureOf
    <2>2. QED
      BY <1>13, <1>14, <2>1 DEF MainClearStart
  <1>15. CASE MainDestroyEnd
    <2>1. MainJumps("destroy_end", "destroy_ready")
      BY <1>1, <1>15 DEF MainDestroyEnd, MainGoes, MeasureOf
    <2>2. QED
      BY <1>13, <1>15, <2>1 DEF MainDestroyEnd
  <1>16. CASE MainDestroyReady
    <2>1. MainJumps("destroy_ready", "join")
      BY <1>1, <1>16 DEF MainDestroyReady, MainGoes, MeasureOf
    <2>2. QED
      BY <1>13, <1>16, <2>1 DEF MainDestroyReady
  <1>17. CASE MainJoin
    <2>1. /\ mainAt = "join" /\ mainAt' = "emplace"
          /\ at' = [w \in Workers |-> "none"]
          /\ \A w \in Workers : at[w] \in {"none", "exited"}
          /\ UNCHANGED <<bench, contention_thread_count, adds, spawned, parked,
                         latches, start_signal, shared, i, taken>>
      BY <1>1, <1>17 DEF MainJoin, MainGoes, MainJumps, MeasureOf
    <2>2. TypeOK'
      <3>1. at' \in [Workers -> WorkerSteps] /\ mainAt' \in MainSteps
        BY <2>1 DEF WorkerSteps, MainSteps
      <3>2. QED
        BY <2>1, <3>1 DEF IInv, TypeOK, WaitTypeOK, latches, shared
    <2>3. Programs'
      BY <2>1 DEF Programs, Fits
    <2>4. Positions'
      BY <1>1, <2>1 DEF IInv, Positions, Team, Idle, Underway, AfterEnd
    <2>5. Latches'
      BY <2>1 DEF IInv, Latches, Alive, latches
    <2>6. Progress'
      <3>1. mutex' = Main
        BY <2>1 DEF IInv, Progress, TypeOK, Threads, shared
      <3>2. QED
        BY <2>1, <3>1 DEF IInv, Progress, Underway, Gathering, LoopSteps,
           Finished
    <2>7. Sleeping'
      <3>1. \A w \in Workers : parked[w] = Awake
        BY <2>1 DEF IInv, Sleeping
      <3>2. parked[Main] = Awake
        BY <2>1 DEF IInv, Sleeping
      <3>3. QED
        BY <2>1, <3>1, <3>2 DEF Sleeping
    <2>8. QED
      BY <2>2, <2>3, <2>4, <2>5, <2>6, <2>7 DEF IInv
  <1>18. CASE MainEmplace
    <2> DEFINE to == IF taken + 1 < Samples THEN FirstStep(bench) ELSE "done"
    <2>1. /\ mainAt = "emplace" /\ mainAt' = to /\ taken' = taken + 1
          /\ UNCHANGED <<bench, contention_thread_count, adds, spawned, at,
                         parked, latches, start_signal, shared, i>>
      BY <1>18 DEF MainEmplace, MainJumps
    <2>2. /\ to \in {"reset", "construct", "done"}
          /\ to = "reset" => bench # "mutex"
      BY DEF FirstStep
    <2>3. taken' \in 0 .. Samples /\ (to # "done" => taken' < Samples)
      BY <2>1, SamplesAssumption DEF IInv, TypeOK, Progress, FirstStep
    <2> HIDE DEF to
    <2>4. Team' = Team /\ ToReady' = ToReady /\ ToEnd' = ToEnd
      BY <2>1, CountsKept
    <2>5. Positions'
      BY <2>1, <2>2, <2>4 DEF IInv, Positions, Idle, Underway, AfterEnd
    <2>6. Latches'
      BY <2>1, <2>2 DEF IInv, Latches, Alive, latches
    <2>7. Sleeping'
      BY <1>1, <2>1, MainSleepingKept
    <2>8. start_signal' <=> mainAt' \in (Underway \cup {"t1", "clear_start"})
      BY <2>1, <2>2 DEF IInv, Progress, Underway
    <2>9. QED
      BY <1>1, <2>1, <2>2, <2>3, <2>5, <2>6, <2>7, <2>8, MainIInv
         DEF IInv, TypeOK, MainSteps, latches, shared
  <1>19. QED
    BY <1>2, <1>3, <1>4, <1>5, <1>6, <1>7, <1>8, <1>9, <1>10, <1>11, <1>12,
       <1>14, <1>15, <1>16, <1>17, <1>18 DEF MainStep

LEMMA InitIInv == Init => IInv
  <1> SUFFICES ASSUME Init PROVE IInv
    OBVIOUS
  <1> USE MaxThreadsAssumption, MaxAddsAssumption, SamplesAssumption,
          MaxIntAssumption
  <1>1. /\ bench \in Benchmarks
        /\ mainAt \in {"reset", "construct"}
        /\ mainAt = "reset" => bench # "mutex"
        /\ adds \in 1 .. MaxAdds
        /\ spawned = 0 /\ taken = 0 /\ counter = 0
        /\ contention_thread_count \in ThreadCounts
        /\ contention_thread_count \in -1 .. MaxThreads
    BY ThreadCountRange DEF Init, FirstStep
  <1>2. /\ at = [w \in Workers |-> "none"]
        /\ i = [w \in Workers |-> 0]
        /\ loaded = [w \in Workers |-> 0]
    BY DEF Init
  <1>3. parked = [t \in Threads |-> Awake]
    BY DEF Init, AllAwake
  <1>4. /\ ready_signal = destroyed /\ end_signal = destroyed
        /\ start_signal = FALSE /\ atomic_flag = FALSE /\ mutex = Main
    BY DEF Init
  <1>5. TypeOK
    <2>1. at \in [Workers -> WorkerSteps] /\ mainAt \in MainSteps
      BY <1>1, <1>2 DEF WorkerSteps, MainSteps
    <2>2. WaitTypeOK
      BY <1>3 DEF WaitTypeOK
    <2>3. 0 \in Ints /\ 0 \in 0 .. adds
      BY <1>1 DEF Ints
    <2>4. /\ counter \in Ints
          /\ loaded \in [Workers -> Ints]
          /\ i \in [Workers -> 0 .. adds]
      BY <1>1, <1>2, <2>3
    <2>5. /\ spawned \in 0 .. MaxThreads /\ taken \in 0 .. Samples
          /\ mutex \in Threads
      BY <1>1, <1>4 DEF Threads
    <2>6. QED
      BY <1>1, <1>4, <2>1, <2>2, <2>4, <2>5 DEF TypeOK
  <1>6. Programs
    BY <1>1, <1>2 DEF Programs, Fits
  <1>7. Positions
    BY <1>1, <1>2 DEF Positions, Idle, Underway, AfterEnd, Team, Workers
  <1>8. Latches
    BY <1>1, <1>4 DEF Latches, Alive
  <1>9. Progress
    BY <1>1, <1>2, <1>4 DEF Progress, Underway, Gathering, LoopSteps, Finished
  <1>10. Sleeping
    BY <1>3 DEF Sleeping, Threads
  <1>11. QED
    BY <1>5, <1>6, <1>7, <1>8, <1>9, <1>10 DEF IInv
-----------------------------------------------------------------------------
LEMMA StepIInv == IInv /\ [Next]_vars => IInv'
  <1> SUFFICES ASSUME IInv, [Next]_vars PROVE IInv'
    OBVIOUS
  <1>1. CASE MainStep
    BY <1>1, MainStepIInv
  <1>2. ASSUME NEW w \in Workers, WorkerStep(w) PROVE IInv'
    BY <1>2, WorkerStepIInv
  <1>3. CASE Spurious
    <2>1. /\ UNCHANGED <<bench, contention_thread_count, adds, mainAt, spawned,
                         at, latches, start_signal, shared, i, taken>>
          /\ WaitTypeOK' /\ WokenOnly
      BY <1>3, Woken DEF Spurious, IInv
    <2>2. Team' = Team /\ ToReady' = ToReady /\ ToEnd' = ToEnd
      BY <2>1, CountsKept
    <2>3. Positions'
      BY <2>1, <2>2 DEF IInv, Positions
    <2>4. Latches'
      BY <2>1, <2>2 DEF IInv, Latches, latches
    <2>5. Sleeping'
      BY <2>1, MainSleepingKept
    <2>6. /\ start_signal' <=> mainAt' \in (Underway \cup {"t1", "clear_start"})
          /\ mainAt' # "done" => taken' < Samples
      BY <2>1 DEF IInv, Progress
    <2>7. /\ mainAt' = "reset" => bench # "mutex"
          /\ mainAt' \in {"set_atomic", "notify_atomic"} =>
               bench = "atomic_flag"
      BY <2>1 DEF IInv, Programs
    <2>8. QED
      BY <2>1, <2>3, <2>4, <2>5, <2>6, <2>7, MainIInv
         DEF IInv, TypeOK, latches, shared
  <1>4. CASE UNCHANGED vars
    BY <1>4 DEF vars, IInv, TypeOK, WaitTypeOK, Programs, Fits, Positions,
       Latches, Progress, Sleeping, Team, ToReady, ToEnd
  <1>5. QED
    BY <1>1, <1>2, <1>3, <1>4 DEF Next, Terminating

\* Every state of every run of a contention benchmark satisfies IInv.
THEOREM Invariance == Spec => []IInv
  BY InitIInv, StepIInv, PTL DEF Spec
-----------------------------------------------------------------------------
\* The variables keep their types, whatever the number of threads: no latch
\* is counted below zero.
THEOREM TypeCorrect == Spec => []TypeOK
  <1>1. IInv => TypeOK
    BY DEF IInv
  <1>2. QED
    BY <1>1, Invariance, PTL

\* The interval that measure() stops holds every increment of every thread.
THEOREM WorkIsTimed == Spec => []AllWorkIsTimed
  <1>1. IInv => AllWorkIsTimed
    <2> SUFFICES ASSUME IInv PROVE AllWorkIsTimed
      OBVIOUS
    <2>1. Running \subseteq Team
      BY DEF IInv, Positions, Running
    <2>2. mainAt \in BeforeStart =>
            \A w \in Running : at[w] \notin LoopSteps \cup Finished
      BY <2>1 DEF IInv, Positions, BeforeStart, Running, Idle, Arriving,
         Gathering, LoopSteps, Finished
    <2>3. mainAt \in AfterEnd => \A w \in Running : at[w] \in Gone
      BY <2>1 DEF IInv, Positions, AfterEnd, Idle, Running
    <2>4. \A w \in Running : at[w] \in Gone => i[w] = adds
      BY DEF IInv, Progress, Gone, Finished, Running
    <2>5. QED
      BY <2>2, <2>3, <2>4 DEF AllWorkIsTimed, Gone
  <1>2. QED
    BY <1>1, Invariance, PTL

-----------------------------------------------------------------------------
(* Two facts that hold over the end of a sample: whose count_down() of the  *)
(* end latch still runs, and how far the flag has been set.                *)

\* Whoever notifies the end is the last; all others are through.
LastIsAlone ==
    \A w \in Workers : at[w] = "notify_end" =>
        \A v \in Workers \ {w} : at[v] \in {"none", "exited"}

\* main has set the flag in this sample.
FlagSet == {"notify_atomic", "wait_end"} \cup (AfterEnd \ {"done"})

\* Nothing clears the flag: it is down in the first sample only.
FlagStays ==
    atomic_flag <=> bench = "atomic_flag" /\ (taken > 0 \/ mainAt \in FlagSet)

EndInv == LastIsAlone /\ FlagStays

\* The end latch reaches zero when the last thread counts itself down.
LEMMA LastCountsDown ==
  ASSUME IInv, LastIsAlone, NEW w \in Workers, CountEnd(w)
  PROVE  LastIsAlone'
  <1>1. PICK to \in Gone :
          /\ Moves(w, "count_end", to)
          /\ to = "notify_end" => end_signal = 1
    BY TeamFacts DEF IInv, CountEnd, WorkerGoes, ThreadOf, Moves, Advance, Fits,
       Gone
  <1>2. /\ at[w] = "count_end" /\ at'[w] = to
        /\ \A x \in Workers \ {w} : at'[x] = at[x]
        /\ w \in ToEnd
    BY <1>1, WorkerMoves
  <1>3. \A x \in Workers : at[x] # "notify_end"
    BY <1>2 DEF LastIsAlone
  <1>4. CASE to = "exited"
    BY <1>2, <1>3, <1>4 DEF LastIsAlone
  <1>5. CASE to = "notify_end"
    <2>1. end_signal = 1 /\ end_signal # destroyed
      BY <1>1, <1>5, DestroyedAssumption
    <2>2. Cardinality(ToEnd \ {w}) = 0
      BY <1>2, <2>1, Counts DEF IInv, Latches
    <2>3. /\ ToEnd \ {w} \in SUBSET (1 .. contention_thread_count)
          /\ contention_thread_count \in -1 .. MaxThreads
      BY TeamFacts DEF IInv, ToEnd, Team
    <2>4. ToEnd \ {w} = {}
      BY <2>2, <2>3, Count
    <2>5. \A x \in Workers \ {w} : at[x] \in {"none", "exited"}
      <3>1. TAKE x \in Workers \ {w}
      <3>2. CASE x \in Team
        BY <1>3, <2>4, <3>2 DEF ToEnd, Gone
      <3>3. CASE x \notin Team
        BY <3>3 DEF IInv, Positions
      <3>4. QED
        BY <3>2, <3>3
    <2>6. QED
      BY <1>2, <2>5 DEF LastIsAlone
  <1>6. QED
    BY <1>4, <1>5 DEF Gone

\* No other step of a thread leads to the notification of the end.
LEMMA LastStaysAlone ==
  ASSUME IInv, LastIsAlone, NEW w \in Workers, NEW from, NEW to,
         WorkerJumps(w, from, to), from # "none", from # "exited",
         to \notin {"none", "notify_end"},
         from = "notify_end" => to = "exited"
  PROVE  LastIsAlone'
  <1>1. /\ at[w] = from /\ at'[w] = to
        /\ \A x \in Workers \ {w} : at'[x] = at[x]
    BY DEF WorkerJumps, IInv, TypeOK
  <1>2. ASSUME NEW x \in Workers, at'[x] = "notify_end"
        PROVE  \A v \in Workers \ {x} : at'[v] \in {"none", "exited"}
    <2>1. x # w /\ at[x] = "notify_end"
      BY <1>1, <1>2
    <2>2. \A v \in Workers \ {x} : at[v] \in {"none", "exited"}
      BY <2>1 DEF LastIsAlone
    <2>3. QED
      BY <1>1, <2>1, <2>2
  <1>3. QED
    BY <1>2 DEF LastIsAlone

LEMMA WorkerStepEndInv ==
  ASSUME IInv, EndInv, NEW w \in Workers, WorkerStep(w)
  PROVE  EndInv'
  <1>1. ThreadOf(bench) /\ Fits(at[w]) /\ LastIsAlone
    BY TeamFacts DEF IInv, Programs, EndInv
  <1>2. FlagStays'
    BY DEF WorkerStep, CountReady, NotifyReady, WaitReady, WaitStart, Lock,
       WaitAtomic, Load, Store, Unlock, Notify, FetchAdd, CountEnd, NotifyEnd,
       EndIteration, WorkerGoes, WorkerStays, WorkerJumps, shared, EndInv,
       FlagStays
  <1>3. CASE CountEnd(w)
    BY <1>1, <1>2, <1>3, LastCountsDown DEF EndInv
  <1>4. CASE ~CountEnd(w)
    <2>1. \E from, to : /\ WorkerJumps(w, from, to)
                        /\ from # "none" /\ from # "exited"
                        /\ to \notin {"none", "notify_end"}
                        /\ from = "notify_end" => to = "exited"
      <3>1. CASE CountReady(w) \/ NotifyReady(w) \/ WaitReady(w)
        BY <1>1, <3>1 DEF CountReady, NotifyReady, WaitReady, WorkerGoes,
           WorkerStays, ThreadOf
      <3>2. CASE WaitStart(w)
        BY <1>1, <3>2 DEF WaitStart, WorkerGoes, WorkerStays, ThreadOf
      <3>3. CASE Lock(w)
        BY <1>1, <3>3 DEF Lock, WorkerGoes, WorkerJumps, ThreadOf, Fits
      <3>4. CASE WaitAtomic(w)
        <4>1. at[w] = "wait_atomic"
          BY <3>4 DEF WaitAtomic, WorkerGoes, WorkerStays, WorkerJumps
        <4>2. QED
          BY <1>1, <3>4, <4>1 DEF WaitAtomic, WorkerGoes, WorkerStays, ThreadOf,
             Fits
      <3>5. CASE Load(w)
        BY <1>1, <3>5 DEF Load, WorkerGoes, WorkerJumps, ThreadOf, Fits
      <3>6. CASE Store(w)
        BY <1>1, <3>6 DEF Store, WorkerGoes, WorkerJumps, ThreadOf, Fits
      <3>7. CASE Unlock(w) \/ Notify(w) \/ FetchAdd(w)
        BY <1>1, <3>7 DEF Unlock, Notify, FetchAdd, EndIteration, ThreadOf
      <3>8. CASE NotifyEnd(w)
        BY <1>1, <3>8 DEF NotifyEnd, ThreadOf
      <3>9. QED
        BY <1>4, <3>1, <3>2, <3>3, <3>4, <3>5, <3>6, <3>7, <3>8 DEF WorkerStep
    <2>2. LastIsAlone'
      BY <1>1, <2>1, LastStaysAlone
    <2>3. QED
      BY <1>2, <2>2 DEF EndInv
  <1>5. QED
    BY <1>3, <1>4

\* A step of main that leaves the threads and the flag alone.
LEMMA QuietEndInv ==
  ASSUME EndInv, UNCHANGED <<bench, at, atomic_flag, taken>>,
         mainAt' \in FlagSet <=> mainAt \in FlagSet
  PROVE  EndInv'
  BY DEF EndInv, LastIsAlone, FlagStays

LEMMA MainStepEndInv ==
  ASSUME IInv, EndInv, MainStep
  PROVE  EndInv'
  <1>1. /\ MeasureOf(bench) /\ bench \in Benchmarks
        /\ mainAt = "reset" => bench # "mutex"
        /\ mainAt \in {"set_atomic", "notify_atomic"} => bench = "atomic_flag"
    BY TeamFacts DEF IInv, TypeOK, Programs
  <1> USE DEF MainGoes, MainStays, MainJumps, shared, MeasureOf, FlagSet,
          AfterEnd
  <1>2. CASE MainReset
    BY <1>1, <1>2, QuietEndInv DEF MainReset
  <1>3. CASE MainConstruct
    BY <1>1, <1>3, QuietEndInv DEF MainConstruct
  <1>4. CASE MainSpawn
    <2>1. /\ mainAt = "spawn" /\ mainAt' = "spawn"
          /\ at' = [at EXCEPT ![spawned + 1] = "count_ready"]
          /\ UNCHANGED <<bench, atomic_flag, taken>>
      BY <1>4 DEF MainSpawn
    <2>2. \A w \in Workers : at[w] # "notify_end"
      <3>1. TAKE w \in Workers
      <3>2. at[w] \in {"none"} \cup Arriving \cup Gathering
        BY <2>1 DEF IInv, Positions
      <3>3. QED
        BY <3>2 DEF Arriving, Gathering
    <2>3. \A w \in Workers : at'[w] # "notify_end"
      BY <2>1, <2>2 DEF IInv, TypeOK
    <2>4. QED
      BY <2>1, <2>3 DEF EndInv, LastIsAlone, FlagStays
  <1>5. CASE MainWaitReady
    BY <1>1, <1>5, QuietEndInv DEF MainWaitReady
  <1>6. CASE MainT0
    BY <1>1, <1>6, QuietEndInv DEF MainT0
  <1>7. CASE MainSetStart
    BY <1>1, <1>7, QuietEndInv DEF MainSetStart
  <1>8. CASE MainNotifyStart
    <2>1. /\ mainAt = "notify_start"
          /\ mainAt' = IF bench = "atomic_flag" THEN "set_atomic"
                       ELSE "wait_end"
          /\ UNCHANGED <<bench, at, atomic_flag, taken>>
      BY <1>1, <1>8 DEF MainNotifyStart
    <2>2. QED
      BY <2>1 DEF EndInv, LastIsAlone, FlagStays
  <1>9. CASE MainSetAtomic
    <2>1. /\ mainAt' = "notify_atomic" /\ atomic_flag' = TRUE
          /\ bench = "atomic_flag"
          /\ UNCHANGED <<bench, at, taken>>
      BY <1>1, <1>9 DEF MainSetAtomic
    <2>2. QED
      BY <2>1 DEF EndInv, LastIsAlone, FlagStays
  <1>10. CASE MainNotifyAtomic
    BY <1>1, <1>10, QuietEndInv DEF MainNotifyAtomic
  <1>11. CASE MainWaitEnd
    BY <1>1, <1>11, QuietEndInv DEF MainWaitEnd
  <1>12. CASE MainT1
    BY <1>1, <1>12, QuietEndInv DEF MainT1
  <1>13. CASE MainClearStart
    BY <1>1, <1>13, QuietEndInv DEF MainClearStart
  <1>14. CASE MainDestroyEnd
    BY <1>1, <1>14, QuietEndInv DEF MainDestroyEnd
  <1>15. CASE MainDestroyReady
    BY <1>1, <1>15, QuietEndInv DEF MainDestroyReady
  <1>16. CASE MainJoin
    <2>1. /\ mainAt = "join" /\ mainAt' = "emplace"
          /\ at' = [w \in Workers |-> "none"]
          /\ UNCHANGED <<bench, atomic_flag, taken>>
      BY <1>1, <1>16 DEF MainJoin
    <2>2. QED
      BY <2>1 DEF EndInv, LastIsAlone, FlagStays
  <1>17. CASE MainEmplace
    <2>1. /\ mainAt = "emplace" /\ taken' = taken + 1 /\ taken \in Nat
          /\ UNCHANGED <<bench, at, atomic_flag>>
      BY <1>17, SamplesAssumption DEF MainEmplace, IInv, TypeOK
    <2>2. taken' > 0
      BY <2>1
    <2>3. QED
      BY <2>1, <2>2 DEF EndInv, LastIsAlone, FlagStays
  <1>18. QED
    BY <1>2, <1>3, <1>4, <1>5, <1>6, <1>7, <1>8, <1>9, <1>10, <1>11, <1>12,
       <1>13, <1>14, <1>15, <1>16, <1>17 DEF MainStep

LEMMA StepEndInv == IInv /\ EndInv /\ [Next]_vars => EndInv'
  <1> SUFFICES ASSUME IInv, EndInv, [Next]_vars PROVE EndInv'
    OBVIOUS
  <1>1. ASSUME NEW w \in Workers, WorkerStep(w) PROVE EndInv'
    BY <1>1, WorkerStepEndInv
  <1>2. CASE Spurious
    BY <1>2, QuietEndInv DEF Spurious, shared
  <1>3. CASE UNCHANGED vars
    BY <1>3, QuietEndInv DEF vars
  <1>4. QED
    BY <1>1, <1>2, <1>3, MainStepEndInv DEF Next, Terminating

\* Only the last thread can be late, and the flag stays set.
THEOREM EndInvariance == Spec => []EndInv
  <1>1. Init => EndInv
    BY DEF Init, FirstStep, EndInv, LastIsAlone, FlagStays, FlagSet, AfterEnd
  <1>2. QED
    BY <1>1, StepEndInv, Invariance, PTL DEF Spec

\* Nobody counts down or waits on a latch that measure() has destroyed, and
\* only one thread may still notify.
THEOREM LatchesAreAlive == Spec => []LatchesOutliveTheirUse
  <1>1. IInv /\ EndInv => LatchesOutliveTheirUse
    <2> SUFFICES ASSUME IInv, EndInv PROVE LatchesOutliveTheirUse
      OBVIOUS
    <2>1. /\ Cardinality(ToReady) # destroyed
          /\ Cardinality(ToEnd) # destroyed
      BY Counts, DestroyedAssumption, MaxThreadsAssumption DEF IInv
    <2>2. Running \subseteq Team /\ mainAt \in MainSteps
      BY DEF IInv, Positions, Running, TypeOK
    <2>3. ASSUME NEW w \in Workers,
                 at[w] \in {"count_ready", "notify_ready", "wait_ready"}
          PROVE  mainAt \in Alive
      BY <2>2, <2>3 DEF IInv, Positions, Running, MainSteps, Idle, AfterEnd,
         Gone, Underway, Alive
    <2>4. ASSUME NEW w \in Running, at[w] \notin Gone
          PROVE  mainAt \in Alive
      BY <2>2, <2>4 DEF IInv, Positions, Running, MainSteps, Idle, AfterEnd,
         Gone, Underway, Alive
    <2>5. mainAt \in Alive =>
            ready_signal # destroyed /\ end_signal # destroyed
      BY <2>1 DEF IInv, Latches
    <2>6. mainAt \in {"spawn", "wait_end"} => mainAt \in Alive
      BY DEF Alive
    <2>7. \A w \in Running : at[w] = "notify_end" =>
            \A v \in Running \ {w} : at[v] = "exited"
      BY DEF EndInv, LastIsAlone, Running
    <2>8. QED
      BY <2>3, <2>4, <2>5, <2>6, <2>7 DEF LatchesOutliveTheirUse, Gone
  <1>2. QED
    BY <1>1, Invariance, EndInvariance, PTL

\* Each call of measure() starts from the state the first one started from,
\* but for the flag, which only the first finds down.
THEOREM SamplesIndependent == Spec => []SamplesAreIndependent
  <1>1. IInv /\ EndInv => SamplesAreIndependent
    <2> SUFFICES ASSUME IInv, EndInv, mainAt \in {"reset", "construct", "done"},
                        mainAt \in {FirstStep(bench), "done"}
                 PROVE  /\ Running = {} /\ parked = AllAwake /\ ~start_signal
                        /\ mutex = Main /\ ready_signal = destroyed
                        /\ end_signal = destroyed
                        /\ atomic_flag <=> bench = "atomic_flag" /\ taken > 0
      BY DEF SamplesAreIndependent, FirstStep
    <2>1. \A w \in Workers : at[w] = "none"
      BY DEF IInv, Positions, Idle
    <2>2. parked \in [Threads -> Atomics \cup {Awake}]
      BY DEF IInv, TypeOK, WaitTypeOK
    <2>3. \A t \in Threads : parked[t] = Awake
      BY <2>1 DEF IInv, Sleeping, Threads
    <2>4. parked = AllAwake
      BY <2>2, <2>3 DEF AllAwake
    <2>5. mutex = Main
      BY <2>1 DEF IInv, Progress, TypeOK, Threads
    <2>6. ~start_signal /\ ready_signal = destroyed /\ end_signal = destroyed
      BY DEF IInv, Progress, Underway, Latches, Alive
    <2>7. atomic_flag <=> bench = "atomic_flag" /\ taken > 0
      BY DEF EndInv, FlagStays, FlagSet, AfterEnd
    <2>8. QED
      BY <2>1, <2>4, <2>5, <2>6, <2>7 DEF Running
  <1>2. QED
    BY <1>1, Invariance, EndInvariance, PTL
-----------------------------------------------------------------------------
(* How many increments are made, and what the counter is of them.          *)

\* The increments a thread has made in this sample: the last one before it
\* counts it.
Made(w) == IF at[w] = "none" THEN 0
           ELSE IF at[w] \in {"unlock", "notify"} THEN i[w] + 1 ELSE i[w]

each == contention_thread_count * adds
AllIncrements == Team \X (0 .. adds - 1)
Increments == {p \in AllIncrements : p[2] < Made(p[1])}

\* The number of them; the threads are gone before the sample is recorded.
Total == IF mainAt = "emplace" THEN each ELSE Cardinality(Increments)

Critical == {"load", "store", "unlock"}

\* The mutex admits one thread, so what it has read is what is there.
Exact ==
    /\ bench = "mutex" =>
         /\ counter = AsInt(taken * each + Total)
         /\ \A w \in Workers : at[w] \in Critical => mutex = w
         /\ \A w \in Workers : at[w] = "store" => loaded[w] = counter
    /\ bench = "atomic_add" /\ mainAt \notin {"reset", "done"} =>
         counter = Total

\* Without one, what a thread has read may be old, but not as old as the
\* thread: an increment was made before its second one.
Bounded ==
    bench \in {"atomic_flag", "atomic_large"}
    /\ mainAt \notin {"reset", "done"} =>
         /\ counter \in 0 .. Total
         /\ \A w \in Workers : at[w] = "store" =>
              /\ loaded[w] \in 0 .. Total
              /\ i[w] >= 1 => loaded[w] >= 1
              /\ contention_thread_count = 1 => loaded[w] = counter
         /\ contention_thread_count = 1 => counter = Total
         /\ (\E w \in Team : mainAt = "emplace" \/ Made(w) >= 1) =>
              counter >= 1
         /\ /\ adds >= 2 /\ contention_thread_count >= 1
            /\ mainAt = "emplace" \/ \A w \in Team : Made(w) = adds
            => counter >= 2

CInv ==
    /\ each <= MaxIncrements
    /\ Exact
    /\ Bounded
\* Some of the increments of N threads that each make A.
LEMMA SomeOf ==
  ASSUME NEW N \in Nat, NEW A \in Nat,
         NEW S \in SUBSET ((1 .. N) \X (0 .. A - 1))
  PROVE  /\ N * A \in Nat
         /\ IsFiniteSet(S)
         /\ Cardinality(S) \in 0 .. N * A
         /\ S = (1 .. N) \X (0 .. A - 1) => Cardinality(S) = N * A
         /\ S = {} <=> Cardinality(S) = 0
  <1>1. /\ IsFiniteSet(1 .. N) /\ Cardinality(1 .. N) = N
        /\ IsFiniteSet(0 .. A - 1) /\ Cardinality(0 .. A - 1) = A
    <2>1. IsFiniteSet(1 .. N) /\ Cardinality(1 .. N) = N
      BY FS_Interval
    <2>2. 0 \in Int /\ A - 1 \in Int
      OBVIOUS
    <2>3. /\ IsFiniteSet(0 .. A - 1)
          /\ Cardinality(0 .. A - 1) =
               IF 0 > A - 1 THEN 0 ELSE (A - 1) - 0 + 1
      BY <2>2, FS_Interval
    <2>4. (IF 0 > A - 1 THEN 0 ELSE (A - 1) - 0 + 1) = A
      OBVIOUS
    <2>5. QED
      BY <2>1, <2>3, <2>4
  <1> DEFINE All == (1 .. N) \X (0 .. A - 1)
  <1>2. IsFiniteSet(All) /\ Cardinality(All) = N * A
    BY <1>1, FS_Product
  <1>3. IsFiniteSet(S) /\ Cardinality(S) <= Cardinality(All)
    BY <1>2, FS_Subset
  <1>4. Cardinality(S) \in Nat /\ N * A \in Nat
    BY <1>3, FS_CardinalityType
  <1>5. S = {} <=> Cardinality(S) = 0
    BY <1>3, FS_EmptySet
  <1>6. S = All => Cardinality(S) = N * A
    BY <1>2
  <1>7. Cardinality(S) \in 0 .. N * A
    BY <1>2, <1>3, <1>4
  <1>8. QED
    BY <1>3, <1>4, <1>5, <1>6, <1>7

LEMMA Counted ==
  ASSUME TypeOK, contention_thread_count >= 0
  PROVE  /\ each \in Nat
         /\ IsFiniteSet(Increments)
         /\ Cardinality(Increments) \in 0 .. each
         /\ Increments = AllIncrements => Cardinality(Increments) = each
         /\ Increments = {} <=> Cardinality(Increments) = 0
  <1>1. contention_thread_count \in Nat /\ adds \in Nat
    BY TeamFacts, MaxAddsAssumption DEF TypeOK
  <1>2. AllIncrements = (1 .. contention_thread_count) \X (0 .. adds - 1)
    BY DEF AllIncrements, Team
  <1>3. Increments \in SUBSET AllIncrements
    BY DEF Increments
  <1>4. QED
    BY <1>1, <1>2, <1>3, SomeOf DEF each

LEMMA CountedNext ==
  ASSUME TypeOK, contention_thread_count >= 0,
         UNCHANGED <<contention_thread_count, adds>>
  PROVE  Cardinality(Increments') \in 0 .. each
  <1>1. contention_thread_count \in Nat /\ adds \in Nat
    BY TeamFacts, MaxAddsAssumption DEF TypeOK
  <1>2. Increments' \in SUBSET ((1 .. contention_thread_count)
                                \X (0 .. adds - 1))
    BY DEF Increments, AllIncrements, Team
  <1>3. QED
    BY <1>1, <1>2, SomeOf DEF each

\* A thread that makes one increment adds one to their number.
LEMMA OneMore ==
  ASSUME TypeOK, contention_thread_count >= 0,
         UNCHANGED <<contention_thread_count, adds>>,
         NEW w \in Team, Made(w) \in 0 .. adds - 1, Made(w)' = Made(w) + 1,
         \A x \in Team \ {w} : Made(x)' = Made(x)
  PROVE  Cardinality(Increments') = Cardinality(Increments) + 1
  <1>1. AllIncrements' = AllIncrements /\ adds \in Nat
    BY MaxAddsAssumption DEF AllIncrements, Team, TypeOK
  <1>2. <<w, Made(w)>> \in AllIncrements \ Increments
    BY <1>1 DEF AllIncrements, Increments
  <1>3. ASSUME NEW p \in AllIncrements
        PROVE  p[2] < Made(p[1])' <=> p[2] < Made(p[1]) \/ p = <<w, Made(w)>>
    <2>1. p[1] \in Team /\ p[2] \in 0 .. adds - 1 /\ p = <<p[1], p[2]>>
      BY DEF AllIncrements
    <2>2. CASE p[1] = w
      BY <1>1, <2>1, <2>2
    <2>3. CASE p[1] # w
      BY <2>1, <2>3
    <2>4. QED
      BY <2>2, <2>3
  <1>4. Increments' = {p \in AllIncrements : p[2] < Made(p[1])'}
    BY <1>1 DEF Increments
  <1>5. Increments' = Increments \cup {<<w, Made(w)>>}
    BY <1>2, <1>3, <1>4 DEF Increments
  <1>6. IsFiniteSet(Increments)
    BY Counted
  <1>7. QED
    BY <1>2, <1>5, <1>6, FS_AddElement

LEMMA NoneMore ==
  ASSUME UNCHANGED <<contention_thread_count, adds>>,
         \A w \in Team : Made(w)' = Made(w)
  PROVE  Increments' = Increments /\ each' = each /\ Team' = Team
  <1>1. AllIncrements' = AllIncrements /\ each' = each /\ Team' = Team
    BY DEF AllIncrements, Team, each
  <1>2. \A p \in AllIncrements : Made(p[1])' = Made(p[1])
    BY DEF AllIncrements
  <1>3. Increments' = {p \in AllIncrements : p[2] < Made(p[1])'}
    BY <1>1 DEF Increments
  <1>4. QED
    BY <1>1, <1>2, <1>3 DEF Increments

\* How many a thread can have made.
LEMMA MadeRange ==
  ASSUME IInv
  PROVE  /\ \A w \in Workers : Made(w) \in 0 .. adds
         /\ \A w \in Workers : at[w] = "store" => Made(w) = i[w] /\ i[w] < adds
         /\ mainAt \in Idle =>
              \A w \in Team : Made(w) = 0
         /\ mainAt \in Idle => Increments = {}
         /\ mainAt \in AfterEnd \ Idle =>
              /\ \A w \in Team : Made(w) = adds
              /\ Increments = AllIncrements
  <1>1. /\ at \in [Workers -> WorkerSteps]
        /\ i \in [Workers -> 0 .. adds] /\ adds \in Nat
        /\ Team \subseteq Workers
    BY TeamFacts, MaxAddsAssumption DEF IInv, TypeOK
  <1>2. \A w \in Workers : at[w] \in LoopSteps => i[w] < adds
    BY DEF IInv, Progress
  <1>3. \A w \in Workers : Made(w) \in 0 .. adds
    BY <1>1, <1>2 DEF Made, LoopSteps
  <1>4. \A w \in Workers : at[w] = "store" => Made(w) = i[w] /\ i[w] < adds
    BY <1>2 DEF Made, LoopSteps
  <1>5. mainAt \in Idle => \A w \in Team : Made(w) = 0
    BY DEF IInv, Positions, Made
  <1>6. mainAt \in Idle => Increments = {}
    BY <1>5 DEF Increments, AllIncrements
  <1>7. mainAt \in AfterEnd \ Idle => \A w \in Team : Made(w) = adds
    BY <1>1 DEF IInv, Positions, Progress, Made, Gone, Finished
  <1>8. mainAt \in AfterEnd \ Idle => Increments = AllIncrements
    BY <1>1, <1>7 DEF Increments, AllIncrements
  <1>9. QED
    BY <1>3, <1>4, <1>5, <1>6, <1>7, <1>8

\* What a step keeps that makes no increment.
LEMMA CInvKept ==
  ASSUME IInv, CInv,
         UNCHANGED <<bench, contention_thread_count, adds, counter, taken>>,
         \A w \in Workers : Made(w)' = Made(w),
         mainAt' = "emplace" <=> mainAt = "emplace",
         mainAt \in {"reset", "done"} => mainAt' \in {"reset", "done"},
         \A w \in Workers : at'[w] = "store" =>
           /\ i'[w] = i[w]
           /\ \/ at[w] = "store" /\ loaded'[w] = loaded[w]
              \/ at[w] = "load" /\ loaded'[w] = counter,
         bench = "mutex" => \A w \in Workers : at'[w] \in Critical => mutex' = w
  PROVE  CInv'
  <1>1. Team \subseteq Workers
    BY TeamFacts DEF IInv
  <1>2. Increments' = Increments /\ each' = each /\ Team' = Team
    BY <1>1, NoneMore
  <1>3. Total' = Total
    BY <1>2 DEF Total
  <1>4. Exact'
    <2>1. bench = "mutex" => counter' = AsInt(taken' * each' + Total')
      BY <1>2, <1>3 DEF CInv, Exact
    <2>2. bench = "mutex" =>
            \A w \in Workers : at'[w] = "store" => loaded'[w] = counter'
      BY DEF CInv, Exact
    <2>3. bench = "atomic_add" /\ mainAt' \notin {"reset", "done"} =>
            counter' = Total'
      BY <1>3 DEF CInv, Exact
    <2>4. QED
      BY <2>1, <2>2, <2>3 DEF Exact
  <1>5. Bounded'
    <2> SUFFICES ASSUME bench \in {"atomic_flag", "atomic_large"},
                        mainAt' \notin {"reset", "done"}
                 PROVE  Bounded'
      BY DEF Bounded
    <2>1. /\ counter \in 0 .. Total
          /\ \A w \in Workers : at[w] = "store" =>
               /\ loaded[w] \in 0 .. Total
               /\ i[w] >= 1 => loaded[w] >= 1
               /\ contention_thread_count = 1 => loaded[w] = counter
          /\ contention_thread_count = 1 => counter = Total
          /\ (\E w \in Team : mainAt = "emplace" \/ Made(w) >= 1) =>
               counter >= 1
          /\ /\ adds >= 2 /\ contention_thread_count >= 1
             /\ mainAt = "emplace" \/ \A w \in Team : Made(w) = adds
             => counter >= 2
      BY DEF CInv, Bounded
    <2>2. ASSUME NEW w \in Workers, at'[w] = "store"
          PROVE  /\ loaded'[w] \in 0 .. Total
                 /\ i'[w] >= 1 => loaded'[w] >= 1
                 /\ contention_thread_count = 1 => loaded'[w] = counter
      <3>1. CASE at[w] = "store" /\ loaded'[w] = loaded[w]
        BY <2>1, <2>2, <3>1
      <3>2. CASE at[w] = "load" /\ loaded'[w] = counter
        <4>1. w \in Team
          BY <3>2 DEF IInv, Positions
        <4>2. Made(w) = i[w]
          BY <3>2 DEF Made
        <4>3. QED
          BY <2>1, <2>2, <3>2, <4>1, <4>2
      <3>3. QED
        BY <2>2, <3>1, <3>2
    <2>3. (\E w \in Team' : mainAt' = "emplace" \/ Made(w)' >= 1) =>
            counter' >= 1
      BY <1>1, <1>2, <2>1
    <2>4. /\ adds' >= 2 /\ contention_thread_count' >= 1
          /\ mainAt' = "emplace" \/ \A w \in Team' : Made(w)' = adds'
          => counter' >= 2
      BY <1>1, <1>2, <2>1
    <2>5. QED
      BY <1>3, <2>1, <2>2, <2>3, <2>4 DEF Bounded
  <1>6. QED
    BY <1>2, <1>4, <1>5 DEF CInv

\* A thread's step that makes no increment, and ends none.
LEMMA ThreadCInv ==
  ASSUME IInv, CInv, NEW w \in Workers, NEW from, NEW to,
         WorkerJumps(w, from, to), UNCHANGED <<i, counter>>,
         {from, to} \cap {"none", "unlock", "notify"} = {},
         \/ to # "store" /\ UNCHANGED loaded
         \/ /\ from = "load" /\ to = "store"
            /\ loaded' = [loaded EXCEPT ![w] = counter],
         \/ UNCHANGED mutex /\ (bench = "mutex" /\ to \in Critical
                                => from \in Critical)
         \/ mutex = Main /\ mutex' = w /\ to \in Critical
  PROVE  CInv'
  <1>1. /\ UNCHANGED <<bench, contention_thread_count, adds, mainAt, taken>>
        /\ at \in [Workers -> WorkerSteps] /\ loaded \in [Workers -> Ints]
        /\ at[w] = from /\ at'[w] = to
        /\ \A x \in Workers \ {w} : at'[x] = at[x]
    BY DEF WorkerJumps, IInv, TypeOK
  <1>2. \A x \in Workers : Made(x)' = Made(x)
    BY <1>1 DEF Made
  <1>3. \A x \in Workers : at'[x] = "store" =>
          \/ at[x] = "store" /\ loaded'[x] = loaded[x]
          \/ at[x] = "load" /\ loaded'[x] = counter
    BY <1>1
  <1>4. ASSUME bench = "mutex", NEW x \in Workers, at'[x] \in Critical
        PROVE  mutex' = x
    <2>1. \A y \in Workers : at[y] \in Critical => mutex = y
      BY <1>4 DEF CInv, Exact
    <2>2. Main \notin Workers
      BY TeamFacts DEF IInv
    <2>3. QED
      BY <1>1, <1>4, <2>1, <2>2
  <1>5. QED
    BY <1>1, <1>2, <1>3, <1>4, CInvKept

\* The step that ends an iteration counts the increment it has made.
LEMMA EndCInv ==
  ASSUME IInv, CInv, NEW w \in Workers, NEW from \in {"unlock", "notify"},
         EndIteration(w, from), UNCHANGED <<counter, loaded>>,
         from = "unlock" \/ UNCHANGED mutex
  PROVE  CInv'
  <1> DEFINE to == IF i[w] + 1 < adds THEN thread_fun[bench]["wait_start"]
                   ELSE "count_end"
  <1>1. /\ i \in [Workers -> 0 .. adds] /\ adds \in Nat
        /\ at \in [Workers -> WorkerSteps]
        /\ ThreadOf(bench)
    BY TeamFacts, MaxAddsAssumption DEF IInv, TypeOK
  <1>2. i' = [i EXCEPT ![w] = i[w] + 1]
    BY DEF EndIteration
  <1>3. i'[w] = i[w] + 1 /\ \A x \in Workers \ {w} : i'[x] = i[x]
    BY <1>1, <1>2
  <1>4. WorkerJumps(w, from, to)
    BY <1>3 DEF EndIteration
  <1>5. to \in {"lock", "fetch_add", "wait_atomic", "count_end"}
    BY <1>1 DEF ThreadOf
  <1> HIDE DEF to
  <1>6. /\ UNCHANGED <<bench, contention_thread_count, adds, mainAt, taken>>
        /\ at[w] = from /\ at'[w] = to
        /\ \A x \in Workers \ {w} : at'[x] = at[x]
    BY <1>1, <1>4 DEF WorkerJumps
  <1>7. \A x \in Workers : Made(x)' = Made(x)
    BY <1>1, <1>3, <1>5, <1>6 DEF Made
  <1>8. \A x \in Workers : at'[x] = "store" => x # w
    BY <1>5, <1>6
  <1>9. ASSUME bench = "mutex", NEW x \in Workers, at'[x] \in Critical
        PROVE  mutex' = x
    <2>1. x # w
      BY <1>5, <1>6, <1>9 DEF Critical
    <2>2. \A y \in Workers : at[y] \in Critical => mutex = y
      BY <1>9 DEF CInv, Exact
    <2>3. QED
      BY <1>6, <1>9, <2>1, <2>2 DEF Critical
  <1>10. QED
    BY <1>3, <1>6, <1>7, <1>8, <1>9, CInvKept

\* The write that makes an increment of what was read.
LEMMA StoreCInv ==
  ASSUME IInv, CInv, NEW w \in Workers, Store(w)
  PROVE  CInv'
  <1>1. /\ UNCHANGED <<bench, contention_thread_count, adds, mainAt, taken,
                       mutex, loaded, i>>
        /\ at \in [Workers -> WorkerSteps]
        /\ at[w] = "store"
        /\ at' = [at EXCEPT ![w] = thread_fun[bench]["store"]]
        /\ counter' = AsInt(loaded[w] + 1)
    BY DEF Store, WorkerGoes, WorkerJumps, IInv, TypeOK
  <1>2. bench # "atomic_add" /\ bench \in Benchmarks
    BY <1>1 DEF IInv, Programs, Fits, TypeOK
  <1>3. /\ at'[w] \in {"unlock", "notify"}
        /\ \A x \in Workers \ {w} : at'[x] = at[x]
    BY <1>1, <1>2, TeamFacts DEF IInv, ThreadOf
  <1>4. /\ w \in Team /\ Team \subseteq Workers
        /\ mainAt \notin Idle /\ contention_thread_count \in Nat
        /\ contention_thread_count = 1 => Team = {w}
    <2>1. w \in Team /\ mainAt \notin Idle /\ Team \subseteq Workers
      BY <1>1, TeamFacts DEF IInv, Positions
    <2>2. contention_thread_count \in Nat
      BY <2>1, TeamFacts DEF IInv, Positions, Idle
    <2>3. contention_thread_count = 1 => Team = {w}
      BY <2>1, <2>2 DEF Team
    <2>4. QED
      BY <2>1, <2>2, <2>3
  <1>5. /\ Made(w) = i[w] /\ i[w] \in 0 .. adds - 1 /\ adds \in Nat
        /\ Made(w)' = Made(w) + 1
        /\ \A x \in Workers \ {w} : Made(x)' = Made(x)
    <2>1. Made(w) = i[w] /\ i[w] < adds /\ i[w] \in Nat /\ adds \in Nat
      BY <1>1, MadeRange, MaxAddsAssumption DEF IInv, TypeOK
    <2>2. Made(w)' = Made(w) + 1
      BY <1>1, <1>3, <2>1 DEF Made
    <2>3. \A x \in Workers \ {w} : Made(x)' = Made(x)
      BY <1>1, <1>3 DEF Made
    <2>4. QED
      BY <2>1, <2>2, <2>3
  <1>6. /\ Cardinality(Increments') = Cardinality(Increments) + 1
        /\ Cardinality(Increments) \in Nat /\ each \in Nat
        /\ Cardinality(Increments') <= each
    <2>1. Cardinality(Increments') = Cardinality(Increments) + 1
      BY <1>1, <1>4, <1>5, OneMore DEF IInv
    <2>2. /\ Cardinality(Increments) \in 0 .. each /\ each \in Nat
          /\ Cardinality(Increments') \in 0 .. each
      BY <1>1, <1>4, Counted, CountedNext DEF IInv
    <2>3. QED
      BY <2>1, <2>2
  <1>7. /\ Total = Cardinality(Increments) /\ Total' = Total + 1
        /\ Total' <= MaxInt /\ Total \in Nat /\ mainAt # "emplace"
        /\ mainAt \notin {"reset", "done"}
    BY <1>1, <1>4, <1>6, MaxIntAssumption DEF Total, Idle, CInv
  <1>8. Team' = Team /\ each' = each
    BY <1>1 DEF Team, each
  <1>9. CASE bench = "mutex"
    <2>1. /\ counter = AsInt(taken * each + Total)
          /\ \A x \in Workers : at[x] \in Critical => mutex = x
          /\ loaded[w] = counter
      BY <1>1, <1>9 DEF CInv, Exact
    <2>2. mutex = w
      BY <1>1, <2>1 DEF Critical
    <2>3. taken * each + Total \in Int
      BY <1>6, <1>7 DEF IInv, TypeOK
    <2>4. counter' = AsInt((taken * each + Total) + 1)
      BY <1>1, <2>1, <2>3, WrapsOnce
    <2>5. (taken * each + Total) + 1 = taken * each + (Total + 1)
      BY <1>6, <1>7 DEF IInv, TypeOK
    <2>6. \A x \in Workers : at'[x] \in Critical => mutex' = x
      BY <1>1, <1>3, <2>1, <2>2
    <2>7. \A x \in Workers : at'[x] # "store"
      BY <1>3, <2>1, <2>2 DEF Critical
    <2>8. Exact'
      BY <1>1, <1>2, <1>7, <1>8, <2>4, <2>5, <2>6, <2>7 DEF Exact
    <2>9. Bounded'
      BY <1>1, <1>9 DEF Bounded
    <2>10. QED
      BY <1>1, <1>8, <2>8, <2>9 DEF CInv
  <1>10. CASE bench \in {"atomic_flag", "atomic_large"}
    <2>1. /\ counter \in 0 .. Total
          /\ \A x \in Workers : at[x] = "store" =>
               /\ loaded[x] \in 0 .. Total
               /\ i[x] >= 1 => loaded[x] >= 1
               /\ contention_thread_count = 1 => loaded[x] = counter
          /\ contention_thread_count = 1 => counter = Total
      BY <1>7, <1>10 DEF CInv, Bounded
    <2>2. /\ loaded[w] \in 0 .. Total
          /\ i[w] >= 1 => loaded[w] >= 1
          /\ contention_thread_count = 1 => loaded[w] = Total
      BY <1>1, <2>1
    <2>3. counter' = loaded[w] + 1
      <3>1. loaded[w] + 1 \in 0 .. MaxInt
        BY <1>7, <2>2, MaxIntAssumption
      <3>2. QED
        BY <1>1, <3>1, WrapsOnce
    <2>4. counter' \in 0 .. Total'
      BY <1>7, <2>2, <2>3
    <2>5. \A x \in Workers : at'[x] = "store" =>
            /\ loaded'[x] \in 0 .. Total'
            /\ i'[x] >= 1 => loaded'[x] >= 1
            /\ contention_thread_count' = 1 => loaded'[x] = counter'
      <3>1. \A x \in Workers : at'[x] = "store" => x # w /\ at[x] = "store"
        BY <1>3
      <3>2. \A x \in Workers : at[x] = "store" => x \in Team
        BY DEF IInv, Positions
      <3>3. QED
        BY <1>1, <1>4, <1>7, <2>1, <3>1, <3>2
    <2>6. contention_thread_count' = 1 => counter' = Total'
      BY <1>1, <1>7, <2>2, <2>3
    <2>7. counter' >= 1
      BY <1>7, <2>2, <2>3
    <2>8. adds >= 2 /\ (\A x \in Team : Made(x)' = adds) => counter' >= 2
      BY <1>4, <1>5, <1>7, <2>2, <2>3
    <2>9. Bounded'
      BY <1>1, <1>7, <1>8, <2>4, <2>5, <2>6, <2>7, <2>8 DEF Bounded
    <2>10. Exact'
      BY <1>1, <1>10 DEF Exact
    <2>11. QED
      BY <1>1, <1>8, <2>9, <2>10 DEF CInv
  <1>11. QED
    BY <1>2, <1>9, <1>10 DEF Benchmarks

\* The addition that makes an increment at once.
LEMMA FetchAddCInv ==
  ASSUME IInv, CInv, NEW w \in Workers, FetchAdd(w)
  PROVE  CInv'
  <1> DEFINE to == IF i[w] + 1 < adds THEN thread_fun[bench]["wait_start"]
                   ELSE "count_end"
  <1>1. /\ UNCHANGED <<bench, contention_thread_count, adds, mainAt, taken>>
        /\ at \in [Workers -> WorkerSteps]
        /\ at[w] = "fetch_add"
        /\ i \in [Workers -> 0 .. adds] /\ adds \in Nat
        /\ i' = [i EXCEPT ![w] = i[w] + 1]
        /\ counter' = AsInt(counter + 1)
    BY MaxAddsAssumption
       DEF FetchAdd, EndIteration, WorkerJumps, IInv, TypeOK
  <1>2. bench = "atomic_add"
    BY <1>1 DEF IInv, Programs, Fits
  <1>3. i'[w] = i[w] + 1 /\ \A x \in Workers \ {w} : i'[x] = i[x]
    BY <1>1
  <1>4. at' = [at EXCEPT ![w] = to]
    BY <1>3 DEF FetchAdd, EndIteration, WorkerJumps
  <1>5. /\ at'[w] \in {"fetch_add", "count_end"}
        /\ \A x \in Workers \ {w} : at'[x] = at[x]
    BY <1>1, <1>2, <1>4, TeamFacts DEF IInv, ThreadOf
  <1>6. /\ w \in Team /\ Team \subseteq Workers
        /\ mainAt \notin Idle /\ contention_thread_count >= 0
    BY <1>1, TeamFacts DEF IInv, Positions, Idle
  <1>7. i[w] < adds
    BY <1>1 DEF IInv, Progress, LoopSteps
  <1>8. /\ Made(w) \in 0 .. adds - 1
        /\ Made(w)' = Made(w) + 1
        /\ \A x \in Workers \ {w} : Made(x)' = Made(x)
    BY <1>1, <1>3, <1>5, <1>7 DEF Made
  <1>9. Cardinality(Increments') = Cardinality(Increments) + 1
    BY <1>1, <1>6, <1>8, OneMore DEF IInv
  <1>10. each' = each
    BY <1>1 DEF each
  <1>11. /\ Cardinality(Increments) \in 0 .. each /\ each \in Nat
         /\ Cardinality(Increments') \in 0 .. each
    BY <1>1, <1>6, Counted, CountedNext DEF IInv
  <1>12. /\ Total = Cardinality(Increments) /\ Total' = Total + 1
         /\ Total' \in 0 .. MaxInt /\ Total \in Nat
    BY <1>1, <1>6, <1>9, <1>10, <1>11, MaxIntAssumption DEF Total, Idle, CInv
  <1>13. counter = Total
    BY <1>2, <1>6 DEF CInv, Exact, Idle
  <1>14. counter' = Total'
    BY <1>1, <1>12, <1>13, WrapsOnce
  <1>15. Exact' /\ Bounded'
    BY <1>1, <1>2, <1>14 DEF Exact, Bounded
  <1>16. QED
    BY <1>10, <1>15 DEF CInv

LEMMA WorkerStepCInv ==
  ASSUME IInv, CInv, NEW w \in Workers, WorkerStep(w)
  PROVE  CInv'
  <1>1. ThreadOf(bench) /\ bench \in Benchmarks /\ Fits(at[w])
    BY TeamFacts DEF IInv, TypeOK, Programs
  <1>2. CASE CountReady(w)
    <2>1. \E to \in {"notify_ready", "wait_ready"} :
            WorkerJumps(w, "count_ready", to)
      BY <1>1, <1>2 DEF CountReady, WorkerGoes, ThreadOf
    <2>2. QED
      BY <1>2, <2>1, ThreadCInv DEF CountReady, shared, Critical
  <1>3. CASE NotifyReady(w)
    <2>1. WorkerJumps(w, "notify_ready", "wait_ready")
      BY <1>1, <1>3 DEF NotifyReady, ThreadOf
    <2>2. QED
      BY <1>3, <2>1, ThreadCInv DEF NotifyReady, shared, Critical
  <1>4. CASE WaitReady(w)
    <2>1. \E to \in {"wait_ready", "wait_start"} :
            WorkerJumps(w, "wait_ready", to)
      BY <1>1, <1>4 DEF WaitReady, WorkerGoes, WorkerStays, ThreadOf
    <2>2. QED
      BY <1>4, <2>1, ThreadCInv DEF WaitReady, shared, Critical
  <1>5. CASE WaitStart(w)
    <2>1. \E to \in {"wait_start", "lock", "fetch_add", "wait_atomic"} :
            WorkerJumps(w, "wait_start", to)
      BY <1>1, <1>5 DEF WaitStart, WorkerGoes, WorkerStays, ThreadOf
    <2>2. QED
      BY <1>5, <2>1, ThreadCInv DEF WaitStart, shared, Critical
  <1>6. CASE Lock(w)
    <2>1. at[w] = "lock" /\ bench = "mutex"
      BY <1>1, <1>6 DEF Lock, WorkerGoes, WorkerJumps, Fits
    <2>2. WorkerJumps(w, "lock", "load")
      BY <1>1, <1>6, <2>1 DEF Lock, WorkerGoes, ThreadOf
    <2>3. QED
      BY <1>6, <2>2, ThreadCInv DEF Lock, Critical
  <1>7. CASE WaitAtomic(w)
    <2>1. at[w] = "wait_atomic"
      BY <1>7 DEF WaitAtomic, WorkerGoes, WorkerStays, WorkerJumps
    <2>2. bench \in {"atomic_flag", "atomic_large"}
      BY <1>1, <2>1 DEF Fits
    <2>3. \E to \in {"wait_atomic", "load"} :
            WorkerJumps(w, "wait_atomic", to)
      BY <1>1, <1>7, <2>2 DEF WaitAtomic, WorkerGoes, WorkerStays, ThreadOf
    <2>4. UNCHANGED <<shared, i>>
      BY <1>7 DEF WaitAtomic
    <2>5. QED
      BY <2>2, <2>3, <2>4, ThreadCInv DEF shared
  <1>8. CASE Load(w)
    <2>1. at[w] = "load" /\ bench # "atomic_add"
      BY <1>1, <1>8 DEF Load, WorkerGoes, WorkerJumps, Fits
    <2>2. WorkerJumps(w, "load", "store")
      BY <1>1, <1>8, <2>1 DEF Load, WorkerGoes, ThreadOf
    <2>3. QED
      BY <1>8, <2>2, ThreadCInv DEF Load, Critical
  <1>9. CASE Store(w)
    BY <1>9, StoreCInv
  <1>10. CASE Unlock(w)
    BY <1>10, EndCInv DEF Unlock
  <1>11. CASE Notify(w)
    BY <1>11, EndCInv DEF Notify, shared
  <1>12. CASE FetchAdd(w)
    BY <1>12, FetchAddCInv
  <1>13. CASE CountEnd(w)
    <2>1. \E to \in {"notify_end", "exited"} :
            WorkerJumps(w, "count_end", to)
      BY <1>1, <1>13 DEF CountEnd, WorkerGoes, ThreadOf
    <2>2. QED
      BY <1>13, <2>1, ThreadCInv DEF CountEnd, shared, Critical
  <1>14. CASE NotifyEnd(w)
    <2>1. WorkerJumps(w, "notify_end", "exited")
      BY <1>1, <1>14 DEF NotifyEnd, ThreadOf
    <2>2. QED
      BY <1>14, <2>1, ThreadCInv DEF NotifyEnd, shared, Critical
  <1>15. QED
    BY <1>2, <1>3, <1>4, <1>5, <1>6, <1>7, <1>8, <1>9, <1>10, <1>11, <1>12,
       <1>13, <1>14 DEF WorkerStep

\* A step of main that leaves the threads and the counter alone.
LEMMA QuietCInv ==
  ASSUME IInv, CInv,
         UNCHANGED <<bench, contention_thread_count, adds, at, mutex, counter,
                     loaded, i, taken>>,
         mainAt' = "emplace" <=> mainAt = "emplace",
         mainAt \in {"reset", "done"} => mainAt' \in {"reset", "done"}
  PROVE  CInv'
  <1>1. \A w \in Workers : Made(w)' = Made(w)
    BY DEF Made
  <1>2. bench = "mutex" => \A w \in Workers : at'[w] \in Critical => mutex' = w
    BY DEF CInv, Exact
  <1>3. QED
    BY <1>1, <1>2, CInvKept

LEMMA MainStepCInv ==
  ASSUME IInv, CInv, MainStep
  PROVE  CInv'
  <1>1. /\ MeasureOf(bench) /\ bench \in Benchmarks
        /\ mainAt = "reset" => bench # "mutex"
        /\ mainAt \in {"set_atomic", "notify_atomic"} => bench = "atomic_flag"
    BY TeamFacts DEF IInv, TypeOK, Programs
  <1>2. CASE MainReset
    <2>1. /\ mainAt = "reset" /\ mainAt' = "construct" /\ counter' = 0
          /\ UNCHANGED <<bench, contention_thread_count, adds, at, mutex,
                         loaded, i, taken>>
      BY <1>1, <1>2 DEF MainReset, MainGoes, MainJumps, MeasureOf
    <2>2. /\ \A w \in Workers : at[w] = "none"
          /\ \A w \in Team : Made(w) = 0
          /\ Increments = {}
      BY <2>1, MadeRange DEF IInv, Positions, Idle
    <2>3. \A w \in Team : Made(w)' = Made(w)
      BY <2>1 DEF Made
    <2>4. Increments' = {} /\ each' = each /\ Team' = Team
      BY <2>1, <2>2, <2>3, NoneMore
    <2>5. Total' = 0
      BY <2>1, <2>4, FS_EmptySet DEF Total
    <2>6. Exact'
      BY <1>1, <2>1, <2>5 DEF Exact
    <2>7. Bounded'
      <3>1. contention_thread_count >= 1 => \E w \in Team : Made(w)' = 0
        <4>1. contention_thread_count >= 1 => 1 \in Team
          BY TeamFacts DEF IInv, Team
        <4>2. QED
          BY <2>2, <2>3, <4>1
      <3>2. \A w \in Team : ~(Made(w)' >= 1)
        BY <2>2, <2>3
      <3>3. \A w \in Workers : at'[w] # "store"
        BY <2>1, <2>2
      <3>4. adds >= 2 => adds # 0
        BY MaxAddsAssumption DEF IInv, TypeOK
      <3>5. QED
        BY <2>1, <2>4, <2>5, <3>1, <3>2, <3>3, <3>4 DEF Bounded
    <2>8. QED
      BY <2>1, <2>4, <2>6, <2>7 DEF CInv
  <1>3. CASE MainConstruct
    <2>1. mainAt = "construct" /\ mainAt' \in {"spawn", "aborted"}
      BY <1>1, <1>3 DEF MainConstruct, MainGoes, MainJumps, MeasureOf
    <2>2. QED
      BY <1>3, <2>1, QuietCInv DEF MainConstruct, MainGoes, MainJumps, shared
  <1>4. CASE MainSpawn
    <2>1. /\ mainAt = "spawn" /\ mainAt' = "spawn"
          /\ at' = [at EXCEPT ![spawned + 1] = "count_ready"]
          /\ i' = [i EXCEPT ![spawned + 1] = 0]
          /\ UNCHANGED <<bench, contention_thread_count, adds, mutex, counter,
                         loaded, taken>>
      BY <1>4 DEF MainSpawn, MainStays, MainJumps, shared
    <2>2. /\ spawned + 1 \in Workers
          /\ at \in [Workers -> WorkerSteps] /\ i \in [Workers -> 0 .. adds]
          /\ at[spawned + 1] = "none"
      <3>1. /\ spawned + 1 \in Team /\ Team \subseteq Workers
            /\ spawned + 1 > spawned
        BY <1>4, TeamFacts, MaxThreadsAssumption
           DEF MainSpawn, IInv, TypeOK, Team
      <3>2. QED
        BY <2>1, <3>1 DEF IInv, Positions, TypeOK
    <2> DEFINE w == spawned + 1
    <2> HIDE DEF w
    <2>3. /\ at'[w] = "count_ready" /\ i'[w] = 0 /\ at[w] = "none"
          /\ \A x \in Workers \ {w} : at'[x] = at[x] /\ i'[x] = i[x]
      BY <2>1, <2>2 DEF w
    <2>4. \A x \in Workers : Made(x)' = Made(x)
      BY <2>3 DEF Made
    <2>5. bench = "mutex" =>
            \A x \in Workers : at'[x] \in Critical => mutex' = x
      BY <2>1, <2>3 DEF CInv, Exact, Critical
    <2>6. \A x \in Workers : at'[x] = "store" => x # w
      BY <2>3
    <2>7. QED
      BY <2>1, <2>3, <2>4, <2>5, <2>6, CInvKept
  <1>5. CASE MainWaitReady
    <2>1. mainAt = "spawn" /\ mainAt' \in {"spawn", "t0"}
      BY <1>1, <1>5
         DEF MainWaitReady, MainGoes, MainStays, MainJumps, MeasureOf
    <2>2. QED
      BY <1>5, <2>1, QuietCInv
         DEF MainWaitReady, MainGoes, MainStays, MainJumps, shared
  <1>6. ASSUME NEW from \in {"t0", "set_start", "notify_start", "set_atomic",
                             "notify_atomic", "wait_end", "t1", "clear_start",
                             "destroy_end", "destroy_ready"},
               MainGoes(from) \/ MainStays(from),
               UNCHANGED <<at, mutex, counter, loaded, i, taken>>
        PROVE  CInv'
    <2>1. mainAt = from /\ mainAt' \notin {"emplace"}
      BY <1>1, <1>6 DEF MainGoes, MainStays, MainJumps, MeasureOf
    <2>2. QED
      BY <1>6, <2>1, QuietCInv DEF MainGoes, MainStays, MainJumps
  <1>7. CASE MainT0 \/ MainSetStart \/ MainNotifyStart
    BY <1>6, <1>7 DEF MainT0, MainSetStart, MainNotifyStart, shared
  <1>8. CASE MainSetAtomic \/ MainNotifyAtomic
    BY <1>6, <1>8 DEF MainSetAtomic, MainNotifyAtomic, shared
  <1>9. CASE MainWaitEnd
    BY <1>6, <1>9 DEF MainWaitEnd, shared
  <1>10. CASE MainT1 \/ MainClearStart \/ MainDestroyEnd \/ MainDestroyReady
    BY <1>6, <1>10
       DEF MainT1, MainClearStart, MainDestroyEnd, MainDestroyReady, shared
  <1>11. CASE MainJoin
    <2>1. /\ mainAt = "join" /\ mainAt' = "emplace"
          /\ at' = [w \in Workers |-> "none"]
          /\ UNCHANGED <<bench, contention_thread_count, adds, mutex, counter,
                         loaded, i, taken>>
      BY <1>1, <1>11 DEF MainJoin, MainGoes, MainJumps, MeasureOf, shared
    <2>2. /\ contention_thread_count >= 0
          /\ \A w \in Team : Made(w) = adds
          /\ Increments = AllIncrements
      BY <2>1, MadeRange DEF IInv, Positions, AfterEnd, Idle
    <2>3. Total = each /\ each \in Nat
      BY <2>1, <2>2, Counted DEF IInv, Total
    <2>4. each' = each /\ Team' = Team /\ Total' = each
      BY <2>1 DEF each, Total, Team
    <2>5. \A w \in Workers : at'[w] = "none"
      BY <2>1
    <2>6. Exact'
      BY <2>1, <2>3, <2>4, <2>5 DEF CInv, Exact, Critical
    <2>7. Bounded'
      <3>1. adds >= 1 /\ adds \in Nat
        BY MaxAddsAssumption DEF IInv, TypeOK
      <3>2. QED
        BY <2>1, <2>2, <2>3, <2>4, <2>5, <3>1 DEF CInv, Bounded
    <2>8. QED
      BY <2>4, <2>6, <2>7 DEF CInv
  <1>12. CASE MainEmplace
    <2>1. /\ mainAt = "emplace" /\ taken' = taken + 1
          /\ mainAt' \in {"reset", "construct", "done"}
          /\ mainAt' = "construct" => bench = "mutex"
          /\ UNCHANGED <<bench, contention_thread_count, adds, at, mutex,
                         counter, loaded, i>>
      BY <1>12 DEF MainEmplace, MainJumps, FirstStep, shared
    <2>2. /\ \A w \in Workers : at[w] = "none"
          /\ Increments = {}
      BY <2>1, MadeRange DEF IInv, Positions, Idle
    <2>3. \A w \in Team : Made(w)' = Made(w)
      BY <2>1 DEF Made
    <2>4. Increments' = {} /\ each' = each
      BY <2>1, <2>2, <2>3, NoneMore
    <2>5. Total' = 0 /\ Total = each
      BY <2>1, <2>4, FS_EmptySet DEF Total
    <2>6. taken \in Int /\ each \in Int
      BY TeamFacts, MaxAddsAssumption DEF IInv, TypeOK, each
    <2>7. taken * each + each = (taken + 1) * each + 0
      BY <2>6
    <2>8. Exact'
      <3>1. bench = "mutex" => counter' = AsInt(taken' * each' + Total')
        BY <2>1, <2>4, <2>5, <2>7 DEF CInv, Exact
      <3>2. \A w \in Workers : at'[w] = "none"
        BY <2>1, <2>2
      <3>3. QED
        BY <2>1, <3>1, <3>2 DEF Exact, Critical
    <2>9. Bounded'
      BY <2>1 DEF Bounded
    <2>10. QED
      BY <2>4, <2>8, <2>9 DEF CInv
  <1>13. QED
    BY <1>2, <1>3, <1>4, <1>5, <1>7, <1>8, <1>9, <1>10, <1>11, <1>12
       DEF MainStep

LEMMA InitCInv == Init => CInv
  <1> SUFFICES ASSUME Init PROVE CInv
    OBVIOUS
  <1>1. IInv
    BY InitIInv
  <1>2. /\ mainAt \in {"reset", "construct"} /\ counter = 0 /\ taken = 0
        /\ mainAt = "construct" => bench = "mutex"
        /\ each <= MaxIncrements
        /\ \A w \in Workers : at[w] = "none"
    BY DEF Init, FirstStep, each
  <1>3. Increments = {}
    BY <1>1, <1>2, MadeRange DEF Idle
  <1>4. Total = 0
    BY <1>2, <1>3, FS_EmptySet DEF Total
  <1>5. each \in Int
    BY <1>1, TeamFacts, MaxAddsAssumption DEF IInv, TypeOK, each
  <1>6. taken * each + Total = 0
    BY <1>2, <1>4, <1>5
  <1>7. AsInt(0) = 0
    BY WrapsOnce, MaxIntAssumption
  <1>8. Exact
    BY <1>2, <1>6, <1>7 DEF Exact, Critical
  <1>9. Bounded
    BY <1>2 DEF Bounded
  <1>10. QED
    BY <1>2, <1>8, <1>9 DEF CInv

LEMMA StepCInv == IInv /\ CInv /\ [Next]_vars => CInv'
  <1> SUFFICES ASSUME IInv, CInv, [Next]_vars PROVE CInv'
    OBVIOUS
  <1>1. CASE MainStep
    BY <1>1, MainStepCInv
  <1>2. ASSUME NEW w \in Workers, WorkerStep(w) PROVE CInv'
    BY <1>2, WorkerStepCInv
  <1>3. CASE Spurious
    BY <1>3, QuietCInv DEF Spurious, shared
  <1>4. CASE UNCHANGED vars
    BY <1>4, QuietCInv DEF vars
  <1>5. QED
    BY <1>1, <1>2, <1>3, <1>4 DEF Next, Terminating

\* Every state of every run satisfies CInv.
THEOREM CountInvariance == Spec => []CInv
  BY InitCInv, StepCInv, Invariance, PTL DEF Spec
-----------------------------------------------------------------------------
\* No increment under the mutex and no atomic addition is lost, for any number
\* of threads, increments and samples; the counter of contention_mutex wraps
\* around like an int.
THEOREM NothingIsLost == Spec => []CountIsExact
  <1>1. IInv /\ CInv => CountIsExact
    <2> SUFFICES ASSUME IInv, CInv, mainAt \in AfterEnd \ {"done"}
                 PROVE  /\ bench = "mutex" =>
                             counter = AsInt((taken + 1) * each)
                        /\ bench = "atomic_add" => counter = each
      BY DEF CountIsExact, each
    <2>1. contention_thread_count >= 0 /\ mainAt \notin {"reset", "done"}
      BY DEF IInv, Positions, AfterEnd
    <2>2. Total = each /\ each \in Nat
      <3>1. mainAt # "emplace" => Increments = AllIncrements
        BY MadeRange DEF AfterEnd, Idle
      <3>2. QED
        BY <2>1, <3>1, Counted DEF IInv, Total
    <2>3. taken * each + each = (taken + 1) * each
      BY <2>2 DEF IInv, TypeOK
    <2>4. QED
      BY <2>1, <2>2, <2>3 DEF CInv, Exact
  <1>2. QED
    BY <1>1, Invariance, CountInvariance, PTL

\* With a flag or a large atomic no increment is invented, and with at least
\* two threads and increments never all but one are lost.
THEOREM LossBounded == Spec => []LossIsBounded
  <1>1. IInv /\ CInv => LossIsBounded
    <2> SUFFICES ASSUME IInv, CInv, mainAt \in AfterEnd \ {"done"},
                        bench \in {"atomic_flag", "atomic_large"}
                 PROVE  counter \in Fewest(contention_thread_count) .. each
      BY DEF LossIsBounded, each
    <2>1. /\ contention_thread_count \in Nat /\ adds \in Nat \ {0}
          /\ mainAt \notin {"reset", "done"}
      <3>1. contention_thread_count >= 0
        BY DEF IInv, Positions, AfterEnd
      <3>2. QED
        BY <3>1, TeamFacts, MaxAddsAssumption DEF IInv, TypeOK, AfterEnd
    <2>2. /\ Total = each /\ each \in Nat
          /\ mainAt = "emplace" \/ \A w \in Team : Made(w) = adds
      <3>1. mainAt # "emplace" => /\ Increments = AllIncrements
                                  /\ \A w \in Team : Made(w) = adds
        BY MadeRange DEF AfterEnd, Idle
      <3>2. QED
        BY <2>1, <3>1, Counted DEF IInv, Total
    <2>3. /\ counter \in 0 .. each
          /\ contention_thread_count = 1 => counter = each
          /\ (\E w \in Team : mainAt = "emplace" \/ Made(w) >= 1) =>
               counter >= 1
          /\ adds >= 2 /\ contention_thread_count >= 1 => counter >= 2
      BY <2>1, <2>2 DEF CInv, Bounded
    <2>4. contention_thread_count >= 1 => counter >= 1
      <3>1. contention_thread_count >= 1 => 1 \in Team
        BY <2>1 DEF Team
      <3>2. QED
        BY <2>1, <2>2, <2>3, <3>1
    <2>5. contention_thread_count = 1 => each = adds
      BY <2>1 DEF each
    <2>6. QED
      BY <2>1, <2>2, <2>3, <2>4, <2>5 DEF Fewest
  <1>2. QED
    BY <1>1, Invariance, CountInvariance, PTL
=============================================================================
