------------------------- MODULE LatencyRoundProofs -------------------------
(***************************************************************************)
(* Proofs about LatencyRound, for every number of rounds and for every     *)
(* latency benchmark.  None of the four safety invariants is inductive:    *)
(* each depends on how far main and the thread are relative to each other. *)
(* IInv says exactly that, and gives each shared object's value as a       *)
(* function of the two positions.                                          *)
(***************************************************************************)
EXTENDS LatencyRound, TLAPS

\* main's steps between the release and the end of the round
AfterRelease == {"notify", "clear_ready", "wait_t1", "exchange", "join"}

\* The steps of main at which no thread exists.
NoThread ==
    IF bench = "thread_start"
    THEN {"t0", "spawn", "wait_t1", "exchange", "emplace", "done"}
    ELSE {"prepare", "lock", "spawn", "emplace", "done"}

\* The steps the two programs of a benchmark consist of.
Programs ==
    /\ mainAt \in IF bench = "thread_start"
                  THEN {"t0", "spawn", "join", "wait_t1", "exchange",
                        "emplace", "done"}
                  ELSE MainSteps
    /\ mainAt = "prepare" => bench \in Prepared
    /\ mainAt = "lock" => bench = "scoped_lock"
    /\ mainAt = "notify" => bench \notin {"semaphore", "scoped_lock"}
    /\ threadAt \in IF bench = "thread_start"
                    THEN {"none", "now", "store_t1", "notify_t1", "exited"}
                    ELSE ThreadSteps
    /\ threadAt = "test_and_set" => bench = "spinlock"
    /\ threadAt = "reset" => bench \in {"atomic_flag_test",
                                        "atomic_flag_clear", "scoped_lock"}

\* How far the two are relative to each other.
Positions ==
    /\ threadAt = "none" <=> mainAt \in NoThread
    /\ bench \in Gated =>
         /\ mainAt \in {"t0", "release"} \cup AfterRelease
               => threadAt # "set_ready"
         /\ threadAt \in BehindGate \cup {"test_and_set"}
               => mainAt \in AfterRelease
         /\ mainAt \in {"exchange", "join"}
               => threadAt \in {"notify_t1", "reset", "exited"}

\* What each signal and each primitive holds.
Values ==
    /\ ready_signal = (/\ bench \in Gated
                       /\ threadAt \notin {"none", "set_ready"}
                       /\ mainAt \in {"wait_ready", "t0", "release", "notify",
                                      "clear_ready"})
    /\ semaphore = IF /\ bench = "semaphore"
                      /\ mainAt \in AfterRelease
                      /\ threadAt \in {"notify_ready", "acquire"}
                   THEN 1 ELSE 0
    /\ mutex = IF bench # "scoped_lock" THEN "free"
               ELSE IF mainAt \in {"spawn", "wait_ready", "t0", "release"}
                    THEN "main"
                    ELSE IF threadAt \in BehindGate \ {"exited"}
                         THEN "j" ELSE "free"
    /\ bench = "atomic_flag_test" =>
         atomic_flag = (mainAt \in AfterRelease /\ threadAt # "exited")
    /\ bench = "atomic_flag_clear" /\ mainAt # "prepare" =>
         atomic_flag = ~(mainAt \in AfterRelease /\ threadAt # "exited")
    /\ bench = "spinlock" /\ mainAt # "prepare" =>
         atomic_flag = ~(/\ mainAt \in AfterRelease
                         /\ threadAt \in {"notify_ready", "acquire",
                                          "test_and_set"})
    /\ bench \notin {"atomic_flag_test", "atomic_flag_clear", "spinlock"} =>
         ~atomic_flag

\* When the mailbox holds a stamp, and that it is this round's.
Mailbox ==
    /\ (t1_atomic # nullopt) <=>
         (\/ /\ bench \in Gated
             /\ threadAt \in {"notify_t1", "reset", "exited"}
             /\ mainAt # "join"
          \/ /\ bench = "thread_start"
             /\ \/ threadAt \in {"notify_t1", "exited"}
                \/ mainAt \in {"wait_t1", "exchange"})
    /\ t1_atomic # nullopt => t1_atomic = time

\* How the clock readings are ordered.
Readings ==
    /\ t0 <= clock
    /\ time <= clock
    /\ threadAt \in {"store_t1", "notify_t1", "reset", "exited"} => time > t0
    /\ t1_atomic # nullopt => time > t0
    /\ mainAt = "emplace" => sample > 0
    /\ mainAt = "join" /\ bench \in Gated => sample > 0
    /\ \A i \in DOMAIN payload : payload[i] > 0

\* Who sleeps where.
Sleeping ==
    /\ parked["main"] \in {Awake, "ready_signal", "t1_atomic"}
    /\ parked["main"] = "ready_signal" => mainAt = "wait_ready"
    /\ parked["main"] = "t1_atomic" => mainAt = "wait_t1"
    /\ parked["j"] # Awake =>
         /\ threadAt = "acquire"
         /\ bench \in {"atomic_flag_test", "atomic_flag_clear"}

IInv ==
    /\ TypeOK
    /\ Programs
    /\ Positions
    /\ Values
    /\ Mailbox
    /\ Readings
    /\ Sleeping
-----------------------------------------------------------------------------
\* What follows each step, for all six files at once.
MeasureOf(b) ==
    /\ measure[b]["spawn"] = IF b = "thread_start" THEN "join" ELSE "wait_ready"
    /\ measure[b]["t0"] = IF b = "thread_start" THEN "spawn" ELSE "release"
    /\ measure[b]["wait_t1"] = "exchange"
    /\ measure[b]["exchange"] = IF b = "thread_start" THEN "emplace" ELSE "join"
    /\ measure[b]["join"] = IF b = "thread_start" THEN "wait_t1" ELSE "emplace"
    /\ b = "scoped_lock" => measure[b]["lock"] = "spawn"
    /\ b # "thread_start" =>
         /\ measure[b]["wait_ready"] = "t0"
         /\ measure[b]["clear_ready"] = "wait_t1"
         /\ measure[b]["release"] = IF b \in {"semaphore", "scoped_lock"}
                                    THEN "clear_ready" ELSE "notify"
    /\ b \in {"atomic_flag_test", "atomic_flag_clear", "spinlock"} =>
         measure[b]["notify"] = "clear_ready"

ThreadOf(b) ==
    /\ thread_fun[b]["now"] = "store_t1"
    /\ thread_fun[b]["store_t1"] = "notify_t1"
    /\ thread_fun[b]["notify_t1"] =
         IF b \in {"semaphore", "spinlock", "thread_start"}
         THEN "exited" ELSE "reset"
    /\ b # "thread_start" =>
         /\ thread_fun[b]["set_ready"] = "notify_ready"
         /\ thread_fun[b]["notify_ready"] = "acquire"
         /\ thread_fun[b]["acquire"] = IF b = "spinlock" THEN "test_and_set"
                                                        ELSE "now"
    /\ b = "spinlock" => thread_fun[b]["test_and_set"] = "now"
    /\ b \in {"atomic_flag_test", "atomic_flag_clear", "scoped_lock"} =>
         thread_fun[b]["reset"] = "exited"

LEMMA Files == \A b \in Benchmarks : MeasureOf(b) /\ ThreadOf(b)
<1> SUFFICES ASSUME NEW b \in Benchmarks PROVE MeasureOf(b) /\ ThreadOf(b)
  OBVIOUS
<1>1. CASE b = "atomic_flag_test"
  BY <1>1 DEF MeasureOf, ThreadOf, measure, thread_fun,
     atomic_flag_test_measure, atomic_flag_test_thread_fun
<1>2. CASE b = "atomic_flag_clear"
  BY <1>2 DEF MeasureOf, ThreadOf, measure, thread_fun,
     atomic_flag_clear_measure, atomic_flag_clear_thread_fun
<1>3. CASE b = "semaphore"
  BY <1>3 DEF MeasureOf, ThreadOf, measure, thread_fun,
     semaphore_measure, semaphore_thread_fun
<1>4. CASE b = "scoped_lock"
  BY <1>4 DEF MeasureOf, ThreadOf, measure, thread_fun,
     scoped_lock_measure, scoped_lock_thread_fun
<1>5. CASE b = "spinlock"
  BY <1>5 DEF MeasureOf, ThreadOf, measure, thread_fun,
     spinlock_measure, spinlock_thread_fun
<1>6. CASE b = "thread_start"
  BY <1>6 DEF MeasureOf, ThreadOf, measure, thread_fun,
     thread_start_measure, thread_start_thread_fun
<1> QED
  BY <1>1, <1>2, <1>3, <1>4, <1>5, <1>6 DEF Benchmarks, Gated
-----------------------------------------------------------------------------
(* The typing part of IInv needs the rest of it, so the seven conjuncts are *)
(* preserved together: one step per action, and under it the conjuncts      *)
(* grouped by what they rest on.                                            *)
LEMMA InitIInv == Init => IInv
<1> SUFFICES ASSUME Init PROVE IInv
  OBVIOUS
<1> USE NulloptAssumption
    DEF Init, Benchmarks, Gated, Prepared, MainSteps, ThreadSteps, NoThread,
        AfterRelease, BehindGate, FirstStep, Threads, Atomics, Awake,
        WaitTypeOK, primitives, times, AllAwake
<1>1. TypeOK
  <2>1. t1_atomic \in Nat \cup {nullopt}
    OBVIOUS
  <2>2. /\ bench \in Benchmarks
        /\ mainAt \in MainSteps
        /\ threadAt \in ThreadSteps
        /\ WaitTypeOK
        /\ ready_signal \in BOOLEAN
        /\ atomic_flag \in BOOLEAN
        /\ semaphore \in {0, 1}
        /\ mutex \in {"free", "main", "j"}
    OBVIOUS
  <2>3. /\ clock \in Nat /\ t0 \in Nat /\ time \in Nat /\ sample \in Int
        /\ payload \in Seq(Int)
    OBVIOUS
  <2> HIDE DEF Init, Benchmarks, MainSteps, ThreadSteps, WaitTypeOK
  <2> QED
    BY <2>1, <2>2, <2>3, Zenon DEF TypeOK
<1>2. Programs /\ Positions
  BY DEF Programs, Positions
<1>3. Values /\ Mailbox
  BY DEF Values, Mailbox
<1>4. Readings /\ Sleeping
  BY DEF Readings, Sleeping
<1> QED
  BY <1>1, <1>2, <1>3, <1>4 DEF IInv

LEMMA StepIInv == IInv /\ [Next]_vars => IInv'
<1> SUFFICES ASSUME IInv, [Next]_vars PROVE IInv'
  OBVIOUS
<1>0. MeasureOf(bench) /\ ThreadOf(bench)
  BY Files DEF IInv, TypeOK
<1> USE <1>0, RoundsAssumption, NulloptAssumption
    DEF MeasureOf, ThreadOf, FirstOfThread, MainJumps, ThreadJumps, IInv,
        Benchmarks, Gated, Prepared, MainSteps, ThreadSteps, NoThread,
        AfterRelease, BehindGate, FirstStep, Threads, Atomics, Awake,
        WaitTypeOK, MainGoes, ThreadGoes, primitives, times
<1>1. CASE Prepare
  <2>1. TypeOK' /\ Programs' /\ Mailbox' /\ Readings' /\ Sleeping'
    BY <1>1 DEF Prepare, TypeOK, Programs, Mailbox, Readings, Sleeping
  <2>2. Positions' /\ Values'
    BY <1>1 DEF Prepare, Programs, Positions, Values
  <2> QED
    BY <2>1, <2>2
<1>2. CASE MainLock
  <2>1. TypeOK' /\ Programs' /\ Mailbox' /\ Readings' /\ Sleeping'
    BY <1>2 DEF MainLock, TypeOK, Programs, Mailbox, Readings, Sleeping
  <2>2. Positions' /\ Values'
    BY <1>2 DEF MainLock, Programs, Positions, Values
  <2> QED
    BY <2>1, <2>2
<1>3. CASE Spawn
  <2>1. TypeOK' /\ Programs' /\ Positions' /\ Values' /\ Readings'
    BY <1>3 DEF Spawn, TypeOK, Programs, Positions, Values, Readings
  <2>2. Mailbox' /\ Sleeping'
    BY <1>3 DEF Spawn, Programs, Positions, Mailbox, Sleeping
  <2> QED
    BY <2>1, <2>2
<1>4. CASE MainWaitReady
  <2>1. TypeOK' /\ Programs' /\ Values' /\ Mailbox' /\ Readings'
    BY <1>4 DEF MainWaitReady, WaitReturns, WaitBlocks, IsAwake, TypeOK,
         Programs, Values, Mailbox, Readings
  <2>2. Sleeping'
    BY <1>4 DEF MainWaitReady, WaitReturns, WaitBlocks, IsAwake, TypeOK,
         Programs, Positions, Sleeping
  <2>3. Positions'
    BY <1>4 DEF MainWaitReady, WaitReturns, WaitBlocks, IsAwake, TypeOK,
         Programs, Positions, Values
  <2> QED
    BY <2>1, <2>2, <2>3
<1>5. CASE MainT0
  <2>1. TypeOK'
    BY <1>5 DEF MainT0, TypeOK
  <2>2. Programs'
    BY <1>5 DEF MainT0, Programs
  <2>3. Positions'
    BY <1>5 DEF MainT0, Positions
  <2>4. Values'
    BY <1>5 DEF MainT0, Values
  <2>5. Mailbox'
    BY <1>5 DEF MainT0, Mailbox
  <2>6. Readings'
    <3>1. clock \in Nat /\ t0 \in Nat /\ time \in Nat /\ time <= clock
      BY DEF TypeOK, Readings
    <3>2. threadAt \notin {"store_t1", "notify_t1", "reset", "exited"}
      BY <1>5 DEF MainT0, TypeOK, Programs, Positions
    <3>3. t1_atomic = nullopt
      BY <1>5, <3>2 DEF MainT0, TypeOK, Programs, Positions, Mailbox
    <3>4. /\ t0' = clock + 1 /\ clock' = clock + 1
          /\ mainAt' \in {"spawn", "release"}
      BY <1>5 DEF MainT0
    <3> QED
      BY <1>5, <3>1, <3>2, <3>3, <3>4 DEF MainT0, Readings
  <2>7. Sleeping'
    BY <1>5 DEF MainT0, Sleeping
  <2> QED
    BY <2>1, <2>2, <2>3, <2>4, <2>5, <2>6, <2>7
<1>6. CASE MainRelease
  <2>1. ASSUME ReleaseFlagTest PROVE IInv'
    <3>1. mainAt = "release" /\ mainAt' = "notify" /\ bench' = bench
      BY <2>1 DEF ReleaseFlagTest
    <3>2. TypeOK' /\ Programs' /\ Positions'
      BY <1>6, <2>1, <3>1 DEF MainRelease, ReleaseFlagTest, TypeOK, Programs,
         Positions
    <3>3. Mailbox' /\ Readings' /\ Sleeping'
      BY <1>6, <2>1, <3>1 DEF MainRelease, ReleaseFlagTest, Programs,
         Positions, Mailbox, Readings, Sleeping
    <3>4. Values'
      BY <1>6, <2>1, <3>1 DEF MainRelease, ReleaseFlagTest, Programs,
         Positions, Values
    <3> QED
      BY <3>2, <3>3, <3>4
  <2>2. ASSUME ReleaseFlagClear PROVE IInv'
    <3>1. mainAt = "release" /\ mainAt' = "notify" /\ bench' = bench
      BY <2>2 DEF ReleaseFlagClear
    <3>2. TypeOK' /\ Programs' /\ Positions'
      BY <1>6, <2>2, <3>1 DEF MainRelease, ReleaseFlagClear, TypeOK, Programs,
         Positions
    <3>3. Mailbox' /\ Readings' /\ Sleeping'
      BY <1>6, <2>2, <3>1 DEF MainRelease, ReleaseFlagClear, Programs,
         Positions, Mailbox, Readings, Sleeping
    <3>4. Values'
      BY <1>6, <2>2, <3>1 DEF MainRelease, ReleaseFlagClear, Programs,
         Positions, Values
    <3> QED
      BY <3>2, <3>3, <3>4
  <2>3. ASSUME ReleaseSpinlock PROVE IInv'
    <3>1. mainAt = "release" /\ mainAt' = "notify" /\ bench' = bench
      BY <2>3 DEF ReleaseSpinlock
    <3>2. TypeOK' /\ Programs' /\ Positions'
      BY <1>6, <2>3, <3>1 DEF MainRelease, ReleaseSpinlock, TypeOK, Programs,
         Positions
    <3>3. Mailbox' /\ Readings' /\ Sleeping'
      BY <1>6, <2>3, <3>1 DEF MainRelease, ReleaseSpinlock, Programs,
         Positions, Mailbox, Readings, Sleeping
    <3>4. Values'
      BY <1>6, <2>3, <3>1 DEF MainRelease, ReleaseSpinlock, Programs,
         Positions, Values
    <3> QED
      BY <3>2, <3>3, <3>4
  <2>4. ASSUME ReleaseSemaphore PROVE IInv'
    <3>1. Programs' /\ Positions' /\ Mailbox' /\ Readings' /\ Sleeping'
      BY <1>6, <2>4 DEF MainRelease, ReleaseSemaphore, Programs, Positions,
         Mailbox, Readings, Sleeping
    <3>2. Values'
      BY <1>6, <2>4 DEF MainRelease, ReleaseSemaphore, Programs, Positions,
         Values
    <3>3. TypeOK'
      BY <1>6, <2>4 DEF MainRelease, ReleaseSemaphore, TypeOK, Programs,
         Positions, Values
    <3> QED
      BY <3>1, <3>2, <3>3
  <2>5. ASSUME ReleaseMutex PROVE IInv'
    <3>1. mainAt = "release" /\ mainAt' = "clear_ready" /\ bench' = bench
      BY <2>5 DEF ReleaseMutex
    <3>2. TypeOK' /\ Programs' /\ Positions'
      BY <1>6, <2>5, <3>1 DEF MainRelease, ReleaseMutex, TypeOK, Programs,
         Positions
    <3>3. Mailbox' /\ Readings' /\ Sleeping'
      BY <1>6, <2>5, <3>1 DEF MainRelease, ReleaseMutex, Programs,
         Positions, Mailbox, Readings, Sleeping
    <3>4. Values'
      BY <1>6, <2>5, <3>1 DEF MainRelease, ReleaseMutex, Programs,
         Positions, Values
    <3> QED
      BY <3>2, <3>3, <3>4
  <2> QED
    BY <1>6, <2>1, <2>2, <2>3, <2>4, <2>5 DEF MainRelease
<1>7. CASE MainNotify
  <2>1. TypeOK' /\ Programs' /\ Positions' /\ Values'
       /\ Mailbox' /\ Readings'
    BY <1>7 DEF MainNotify, NotifyOne, Sleepers, TypeOK, Programs, Positions,
         Values, Mailbox, Readings
  <2>2. Sleeping'
    BY <1>7 DEF MainNotify, NotifyOne, Sleepers, TypeOK, Programs, Positions,
         Sleeping
  <2> QED
    BY <2>1, <2>2
<1>8. CASE MainClearReady
  <2>1. mainAt = "clear_ready" /\ mainAt' = "wait_t1"
    BY <1>8 DEF MainClearReady, Programs
  <2>2. TypeOK'
    BY <1>8, <2>1 DEF MainClearReady, TypeOK
  <2>3. Programs' /\ Readings' /\ Sleeping'
    BY <1>8, <2>1 DEF MainClearReady, Programs, Readings, Sleeping
  <2>4. Values'
    BY <1>8, <2>1 DEF MainClearReady, Programs, Values
  <2>5. Positions' /\ Mailbox'
    BY <1>8, <2>1 DEF MainClearReady, Programs, Positions, Mailbox
  <2> QED
    BY <2>2, <2>3, <2>4, <2>5
<1>9. CASE MainWaitT1
  <2>1. TypeOK'
    BY <1>9 DEF MainWaitT1, WaitReturns, WaitBlocks, IsAwake, TypeOK
  <2>2. Programs'
    BY <1>9 DEF MainWaitT1, WaitReturns, WaitBlocks, IsAwake, Programs
  <2>3. Positions'
    <3>1. CASE t1_atomic # nullopt
      BY <1>9, <3>1 DEF MainWaitT1, WaitReturns, WaitBlocks, TypeOK,
         Programs, Positions, Mailbox
    <3>2. CASE t1_atomic = nullopt
      BY <1>9, <3>2 DEF MainWaitT1, WaitReturns, WaitBlocks, Positions
    <3> QED
      BY <3>1, <3>2
  <2>4. Values'
    BY <1>9 DEF MainWaitT1, WaitReturns, WaitBlocks, IsAwake, Values
  <2>5. Mailbox'
    BY <1>9 DEF MainWaitT1, WaitReturns, WaitBlocks, IsAwake, Mailbox
  <2>6. Readings'
    BY <1>9 DEF MainWaitT1, WaitReturns, WaitBlocks, IsAwake, Readings
  <2>7. Sleeping'
    BY <1>9 DEF MainWaitT1, WaitReturns, WaitBlocks, IsAwake, TypeOK,
         Programs, Positions, Sleeping
  <2> QED
    BY <2>1, <2>2, <2>3, <2>4, <2>5, <2>6, <2>7
<1>10. CASE MainExchange
  <2>1. TypeOK'
    BY <1>10 DEF MainExchange, TypeOK
  <2>2. Programs'
    BY <1>10 DEF MainExchange, Programs
  <2>3. Positions'
    BY <1>10 DEF MainExchange, Positions
  <2>4. Values'
    BY <1>10 DEF MainExchange, Values
  <2>5. Mailbox'
    BY <1>10 DEF MainExchange, Programs, Positions, Mailbox
  <2>6. Readings'
    <3>1. t1_atomic # nullopt
      BY <1>10 DEF MainExchange, TypeOK, Positions, Programs, Mailbox
    <3>2. t1_atomic = time /\ time > t0
      BY <3>1 DEF Mailbox, Readings
    <3>3. time \in Nat /\ t0 \in Nat
      BY DEF TypeOK
    <3>4. sample' > 0
      BY <1>10, <3>1, <3>2, <3>3 DEF MainExchange
    <3> QED
      BY <1>10, <3>4 DEF MainExchange, Readings
  <2>7. Sleeping'
    BY <1>10 DEF MainExchange, Sleeping
  <2> QED
    BY <2>1, <2>2, <2>3, <2>4, <2>5, <2>6, <2>7
<1>11. CASE MainJoin
  <2>1. TypeOK' /\ Programs' /\ Positions' /\ Values'
       /\ Mailbox' /\ Sleeping'
    BY <1>11 DEF MainJoin, TypeOK, Programs, Positions, Values, Mailbox,
         Sleeping
  <2>2. Readings'
    BY <1>11 DEF MainJoin, TypeOK, Programs, Positions, Readings
  <2> QED
    BY <2>1, <2>2
<1>12. CASE MainEmplace
  <2>1. TypeOK' /\ Programs' /\ Positions' /\ Values'
       /\ Mailbox' /\ Readings' /\ Sleeping'
    BY <1>12 DEF MainEmplace, TypeOK, Programs, Positions, Values, Mailbox,
         Readings, Sleeping
  <2> QED
    BY <2>1
<1>13. CASE ThreadSetReady
  <2>1. TypeOK' /\ Programs' /\ Positions' /\ Mailbox'
       /\ Readings' /\ Sleeping'
    BY <1>13 DEF ThreadSetReady, TypeOK, Programs, Positions, Mailbox,
         Readings, Sleeping
  <2>2. Values'
    BY <1>13 DEF ThreadSetReady, TypeOK, Programs, Positions, Values
  <2> QED
    BY <2>1, <2>2
<1>14. CASE ThreadNotifyReady
  <2>1. TypeOK' /\ Programs' /\ Positions' /\ Values'
       /\ Mailbox' /\ Readings'
    BY <1>14 DEF ThreadNotifyReady, NotifyOne, Sleepers, TypeOK, Programs,
         Positions, Values, Mailbox, Readings
  <2>2. Sleeping'
    BY <1>14 DEF ThreadNotifyReady, NotifyOne, Sleepers, TypeOK, Programs,
         Positions, Sleeping
  <2> QED
    BY <2>1, <2>2
<1>15. CASE ThreadAcquire
  <2>1. ASSUME AcquireFlag PROVE IInv'
    <3>1. TypeOK' /\ Programs' /\ Values' /\ Mailbox' /\ Readings'
      BY <1>15, <2>1 DEF ThreadAcquire, AcquireFlag, WaitReturns, WaitBlocks,
         IsAwake, TypeOK, Programs, Values, Mailbox, Readings
    <3>2. Sleeping'
      BY <1>15, <2>1 DEF ThreadAcquire, AcquireFlag, WaitReturns, WaitBlocks,
         IsAwake, TypeOK, Programs, Positions, Sleeping
    <3>3. Positions'
      BY <1>15, <2>1 DEF ThreadAcquire, AcquireFlag, WaitReturns, WaitBlocks,
         IsAwake, TypeOK, Programs, Positions, Values
    <3> QED
      BY <3>1, <3>2, <3>3
  <2>2. ASSUME AcquireSemaphore PROVE IInv'
    <3>1. TypeOK' /\ Programs' /\ Values' /\ Mailbox' /\ Readings'
      BY <1>15, <2>2 DEF ThreadAcquire, AcquireSemaphore, TypeOK, Programs,
         Values, Mailbox, Readings
    <3>2. Sleeping'
      BY <1>15, <2>2 DEF ThreadAcquire, AcquireSemaphore, TypeOK, Programs,
         Positions, Sleeping
    <3>3. Positions'
      BY <1>15, <2>2 DEF ThreadAcquire, AcquireSemaphore, TypeOK, Programs,
         Positions, Values
    <3> QED
      BY <3>1, <3>2, <3>3
  <2>3. ASSUME AcquireMutex PROVE IInv'
    <3>1. TypeOK' /\ Programs' /\ Values' /\ Mailbox' /\ Readings'
      BY <1>15, <2>3 DEF ThreadAcquire, AcquireMutex, TypeOK, Programs,
         Values, Mailbox, Readings
    <3>2. Sleeping'
      BY <1>15, <2>3 DEF ThreadAcquire, AcquireMutex, TypeOK, Programs,
         Positions, Sleeping
    <3>3. Positions'
      BY <1>15, <2>3 DEF ThreadAcquire, AcquireMutex, TypeOK, Programs,
         Positions, Values
    <3> QED
      BY <3>1, <3>2, <3>3
  <2>4. ASSUME SpinTest PROVE IInv'
    <3>1. TypeOK' /\ Programs' /\ Values' /\ Mailbox' /\ Readings'
      BY <1>15, <2>4 DEF ThreadAcquire, SpinTest, TypeOK, Programs, Values,
         Mailbox, Readings
    <3>2. Sleeping'
      BY <1>15, <2>4 DEF ThreadAcquire, SpinTest, TypeOK, Programs,
         Positions, Sleeping
    <3>3. Positions'
      BY <1>15, <2>4 DEF ThreadAcquire, SpinTest, TypeOK, Programs,
         Positions, Values
    <3> QED
      BY <3>1, <3>2, <3>3
  <2>5. ASSUME SpinTestAndSet PROVE IInv'
    <3>1. TypeOK' /\ Programs' /\ Positions'
      BY <1>15, <2>5 DEF ThreadAcquire, SpinTestAndSet, TypeOK, Programs,
         Positions
    <3>2. Values'
      BY <1>15, <2>5 DEF ThreadAcquire, SpinTestAndSet, TypeOK, Programs,
         Positions, Values
    <3>3. Mailbox' /\ Readings' /\ Sleeping'
      BY <1>15, <2>5 DEF ThreadAcquire, SpinTestAndSet, Programs,
         Positions, Mailbox, Readings, Sleeping
    <3> QED
      BY <3>1, <3>2, <3>3
  <2> QED
    BY <1>15, <2>1, <2>2, <2>3, <2>4, <2>5 DEF ThreadAcquire
<1>16. CASE ThreadNow
  <2>1. TypeOK' /\ Programs' /\ Positions' /\ Values' /\ Sleeping'
    BY <1>16 DEF ThreadNow, TypeOK, Programs, Positions, Values, Sleeping
  <2>2. Mailbox'
    BY <1>16 DEF ThreadNow, Programs, Positions, Mailbox
  <2>3. Readings'
    BY <1>16 DEF ThreadNow, TypeOK, Programs, Positions, Readings
  <2> QED
    BY <2>1, <2>2, <2>3
<1>17. CASE ThreadStoreT1
  <2>1. TypeOK' /\ Programs' /\ Positions' /\ Values'
       /\ Readings' /\ Sleeping'
    BY <1>17 DEF ThreadStoreT1, TypeOK, Programs, Positions, Values,
         Readings, Sleeping
  <2>2. Mailbox'
    BY <1>17 DEF ThreadStoreT1, TypeOK, Programs, Positions, Mailbox
  <2> QED
    BY <2>1, <2>2
<1>18. CASE ThreadNotifyT1
  <2>1. TypeOK' /\ Positions' /\ Values' /\ Mailbox' /\ Readings'
    BY <1>18 DEF ThreadNotifyT1, NotifyOne, Sleepers, TypeOK, Positions,
         Values, Mailbox, Readings
  <2>2. Programs' /\ Sleeping'
    BY <1>18 DEF ThreadNotifyT1, NotifyOne, Sleepers, TypeOK, Programs,
         Positions, Sleeping
  <2> QED
    BY <2>1, <2>2
<1>19. CASE ThreadReset
  <2>1. ASSUME ResetFlagTest PROVE IInv'
    <3>1. TypeOK' /\ Programs' /\ Positions'
      BY <1>19, <2>1 DEF ThreadReset, ResetFlagTest, TypeOK, Programs,
         Positions
    <3>2. Values'
      BY <1>19, <2>1 DEF ThreadReset, ResetFlagTest, TypeOK, Programs,
         Positions, Values
    <3>3. Mailbox' /\ Readings' /\ Sleeping'
      BY <1>19, <2>1 DEF ThreadReset, ResetFlagTest, Programs,
         Positions, Mailbox, Readings, Sleeping
    <3> QED
      BY <3>1, <3>2, <3>3
  <2>2. ASSUME ResetFlagClear PROVE IInv'
    <3>1. TypeOK' /\ Programs' /\ Positions'
      BY <1>19, <2>2 DEF ThreadReset, ResetFlagClear, TypeOK, Programs,
         Positions
    <3>2. Values'
      BY <1>19, <2>2 DEF ThreadReset, ResetFlagClear, TypeOK, Programs,
         Positions, Values
    <3>3. Mailbox' /\ Readings' /\ Sleeping'
      BY <1>19, <2>2 DEF ThreadReset, ResetFlagClear, Programs,
         Positions, Mailbox, Readings, Sleeping
    <3> QED
      BY <3>1, <3>2, <3>3
  <2>3. ASSUME ResetMutex PROVE IInv'
    <3>1. TypeOK' /\ Programs' /\ Positions' /\ Mailbox'
         /\ Readings' /\ Sleeping'
      BY <1>19, <2>3 DEF ThreadReset, ResetMutex, TypeOK, Programs,
         Positions, Mailbox, Readings, Sleeping
    <3>2. Values'
      BY <1>19, <2>3 DEF ThreadReset, ResetMutex, Programs, Positions, Values
    <3> QED
      BY <3>1, <3>2
  <2> QED
    BY <1>19, <2>1, <2>2, <2>3 DEF ThreadReset
<1>20. CASE Spurious
  <2>1. TypeOK' /\ Programs' /\ Positions' /\ Values'
       /\ Mailbox' /\ Readings' /\ Sleeping'
    BY <1>20 DEF Spurious, SpuriousWake, IsAwake, TypeOK, Programs,
         Positions, Values, Mailbox, Readings, Sleeping
  <2> QED
    BY <2>1
<1>21. CASE UNCHANGED vars
  <2>1. TypeOK' /\ Programs'
    BY <1>21 DEF vars, TypeOK, Programs
  <2>2. Positions' /\ Values'
    BY <1>21 DEF vars, Positions, Values
  <2>3. Mailbox' /\ Readings'
    BY <1>21 DEF vars, Mailbox, Readings
  <2>4. Sleeping'
    BY <1>21 DEF vars, Sleeping
  <2> QED
    BY <2>1, <2>2, <2>3, <2>4
<1> HIDE DEF IInv
<1> QED
  BY <1>1, <1>2, <1>3, <1>4, <1>5, <1>6, <1>7, <1>8, <1>9, <1>10, <1>11,
       <1>12, <1>13, <1>14, <1>15, <1>16, <1>17, <1>18, <1>19, <1>20, <1>21
     DEF Next, MainStep, ThreadStep, Terminating

\* IInv holds in every reachable state.
THEOREM Invariance == Spec => []IInv
  BY InitIInv, StepIInv, PTL DEF Spec
-----------------------------------------------------------------------------
\* The variables keep their types in every benchmark, for every number of
\* rounds; in particular the binary_semaphore's counter stays 0 or 1.
THEOREM TypeCorrect == Spec => []TypeOK
  BY Invariance, PTL DEF IInv

\* A round leaves nothing behind for the next one: primitive closed, signal
\* down, mailbox empty, thread gone.  IInv gives each object's value at the
\* step at which no thread exists.
THEOREM RoundsIndependent == Spec => []RoundsAreIndependent
<1>1. IInv => RoundsAreIndependent
  <2> SUFFICES ASSUME IInv, mainAt = FirstStep(bench) \/ mainAt = "done"
               PROVE  /\ Closed
                      /\ ~ready_signal
                      /\ t1_atomic = nullopt
                      /\ threadAt = "none"
                      /\ parked = AllAwake
    BY DEF RoundsAreIndependent
  <2> USE DEF IInv, FirstStep, NoThread, Gated, Benchmarks, Prepared
  <2>1. threadAt = "none"
    BY DEF TypeOK, Positions
  <2>2. mainAt \notin AfterRelease \cup {"prepare", "wait_ready"}
    BY DEF AfterRelease
  <2>3. Closed
    BY <2>1, <2>2 DEF Closed, TypeOK, Values, AfterRelease, BehindGate
  <2>4. ~ready_signal /\ t1_atomic = nullopt
    BY <2>1, <2>2 DEF TypeOK, Programs, Values, Mailbox, AfterRelease
  <2>5. parked = AllAwake
    BY <2>1, <2>2 DEF TypeOK, WaitTypeOK, Sleeping, AllAwake, AfterRelease,
       Threads, Atomics, Awake
  <2> QED
    BY <2>1, <2>3, <2>4, <2>5
<1> QED
  BY <1>1, Invariance, PTL

\* Every sample measures the handoff: the stamp was taken behind the primitive
\* after this round's release, hence after t0.
THEOREM StampsFollowRelease == Spec => []StampAfterRelease
<1>1. IInv => StampAfterRelease
  BY DEF IInv, StampAfterRelease, Positions, Readings, AfterRelease,
     BeforeRelease
<1> QED
  BY <1>1, Invariance, PTL

\* No stamp is overwritten, and the exchange never dereferences an empty
\* optional.
THEOREM MailboxIsOfOne == Spec => []MailboxProtocol
<1>1. IInv => MailboxProtocol
  BY DEF IInv, MailboxProtocol, TypeOK, Programs, Positions, Mailbox, Gated,
     Benchmarks, BehindGate, AfterRelease, NoThread
<1> QED
  BY <1>1, Invariance, PTL

\* No primitive is used outside its contract.
THEOREM ContractsKept == Spec => []PrimitiveContracts
<1>1. IInv => PrimitiveContracts
  BY DEF IInv, PrimitiveContracts, TypeOK, Programs, Positions, Values,
     Gated, Prepared, Benchmarks, BehindGate, AfterRelease
<1> QED
  BY <1>1, Invariance, PTL
-----------------------------------------------------------------------------
(* Each round is a Handoff.                                                 *)

\* As long as the benchmark runs there is a round to come.
Counted == mainAt # "done" => Len(payload) < Rounds

LEMMA CountedInvariant == Spec => []Counted
<1>1. Init => Counted
  BY RoundsAssumption DEF Init, Counted
<1>2. IInv /\ Counted /\ [Next]_vars => Counted'
  <2> SUFFICES ASSUME IInv, Counted, [Next]_vars PROVE Counted'
    OBVIOUS
  <2>1. CASE MainEmplace
    BY <2>1, RoundsAssumption
       DEF MainEmplace, MainJumps, Counted, IInv, TypeOK, FirstStep
  <2>2. CASE ~MainEmplace
    <3>1. UNCHANGED payload /\ (mainAt = "done" => mainAt' = "done")
      BY <2>2 DEF Next, MainStep, ThreadStep, Spurious, Terminating, vars,
         Prepare, MainLock, Spawn, MainWaitReady, MainT0, MainRelease,
         ReleaseFlagTest, ReleaseFlagClear, ReleaseSpinlock,
         ReleaseSemaphore, ReleaseMutex, MainNotify, MainClearReady,
         MainWaitT1, MainExchange, MainJoin, ThreadSetReady,
         ThreadNotifyReady, ThreadAcquire, AcquireFlag, AcquireSemaphore,
         AcquireMutex, SpinTest, SpinTestAndSet, ThreadNow, ThreadStoreT1,
         ThreadNotifyT1, ThreadReset, MainGoes, MainJumps, ThreadGoes,
         ThreadJumps, times
    <3> QED
      BY <2>2, <3>1 DEF Counted
  <2> QED
    BY <2>1, <2>2
<1> QED
  BY <1>1, <1>2, Invariance, PTL DEF Spec

\* A round goes on or stays where it is.
LEMMA PhaseKept ==
  ASSUME UNCHANGED <<bench, payload>>, Collected' <=> Collected,
         mainAt' \in BeforeRelease \cup {"done"}
           <=> mainAt \in BeforeRelease \cup {"done"},
         \/ Stamped' <=> Stamped
         \/ mainAt \in BeforeRelease \cup {"done"}
         \/ Collected
  PROVE  UNCHANGED H!vars
  BY DEF H!vars, HandoffPhase

LEMMA StepImplements ==
  IInv /\ IInv' /\ Counted /\ [Next]_vars => [H!Next]_H!vars
<1> SUFFICES ASSUME IInv, IInv', Counted, [Next]_vars PROVE [H!Next]_H!vars
  OBVIOUS
<1>0. MeasureOf(bench) /\ ThreadOf(bench) /\ bench \in Benchmarks
  BY Files DEF IInv, TypeOK
<1> USE <1>0 DEF MeasureOf, ThreadOf, FirstOfThread, MainJumps, MainGoes,
        ThreadJumps, ThreadGoes, times, Benchmarks, Gated, BeforeRelease
<1>1. CASE MainRelease
  <2>1. /\ mainAt = "release" /\ mainAt' \in {"notify", "clear_ready"}
        /\ UNCHANGED <<bench, payload, threadAt>>
    BY <1>1 DEF MainRelease, ReleaseFlagTest, ReleaseFlagClear,
       ReleaseSpinlock, ReleaseSemaphore, ReleaseMutex
  <2>2. bench \in Gated /\ threadAt \notin BehindGate
    BY <2>1 DEF IInv, Programs, Positions, AfterRelease
  <2>3. H!Offer
    BY <2>1, <2>2 DEF H!Offer, HandoffPhase, Collected, Stamped, BehindGate,
       Counted
  <2> QED
    BY <2>3 DEF H!Next
<1>2. CASE Spawn
  <2>1. CASE bench = "thread_start"
    <3>1. H!Offer
      BY <1>2, <2>1 DEF Spawn, H!Offer, HandoffPhase, Collected, Stamped,
         Counted
    <3> QED
      BY <3>1 DEF H!Next
  <2>2. CASE bench # "thread_start"
    BY <1>2, <2>2, PhaseKept DEF Spawn, Collected
  <2> QED
    BY <2>1, <2>2
<1>3. CASE ThreadNow
  <2>1. /\ threadAt = "now" /\ threadAt' = "store_t1"
        /\ UNCHANGED <<bench, payload, mainAt>>
    BY <1>3 DEF ThreadNow
  <2>2. ~Collected /\ mainAt \notin BeforeRelease \cup {"done"}
    <3>1. CASE bench = "thread_start"
      BY <2>1, <3>1 DEF IInv, Programs, Positions, Collected, NoThread
    <3>2. CASE bench # "thread_start"
      BY <2>1, <3>2 DEF IInv, Positions, Collected, AfterRelease, BehindGate,
         NoThread
    <3> QED
      BY <3>1, <3>2
  <2>3. ~Stamped
    BY <2>1 DEF IInv, Positions, Stamped, NoThread
  <2>4. H!Pass
    BY <2>1, <2>2, <2>3 DEF H!Pass, HandoffPhase, Collected, Stamped
  <2> QED
    BY <2>4 DEF H!Next
<1>4. CASE MainExchange
  <2>1. Stamped
    BY <1>4 DEF MainExchange, IInv, Positions, Stamped
  <2>2. H!Collect
    BY <1>4, <2>1 DEF MainExchange, H!Collect, HandoffPhase, Collected
  <2> QED
    BY <2>2 DEF H!Next
<1>5. CASE MainEmplace
  <2>1. /\ mainAt' \in BeforeRelease \cup {"done"}
        /\ Len(payload') = Len(payload) + 1
    BY <1>5 DEF MainEmplace, FirstStep, IInv, TypeOK
  <2>2. H!Record
    BY <1>5, <2>1 DEF MainEmplace, H!Record, HandoffPhase, Collected
  <2> QED
    BY <2>2 DEF H!Next
<1>6. CASE MainJoin
  <2>1. CASE bench = "thread_start"
    BY <1>6, <2>1, PhaseKept DEF MainJoin, Collected, Stamped
  <2>2. CASE bench # "thread_start"
    BY <1>6, <2>2, PhaseKept DEF MainJoin, Collected
  <2> QED
    BY <2>1, <2>2
<1>7. CASE Prepare \/ MainLock \/ MainWaitReady \/ MainT0
  <2>1. /\ UNCHANGED <<bench, payload, threadAt>>
        /\ mainAt \in BeforeRelease /\ mainAt' \in BeforeRelease
    BY <1>7 DEF IInv, Programs, Prepared, Prepare, MainLock, MainWaitReady,
       MainT0, FirstStep
  <2> QED
    BY <2>1, PhaseKept DEF Collected
<1>8. CASE MainNotify \/ MainClearReady \/ MainWaitT1
  <2>1. /\ UNCHANGED <<bench, payload, threadAt>>
        /\ mainAt \in {"notify", "clear_ready", "wait_t1"}
        /\ mainAt' \in {"clear_ready", "wait_t1", "exchange"}
        /\ bench = "thread_start" =>
             mainAt = "wait_t1" /\ mainAt' \in {"wait_t1", "exchange"}
    BY <1>8 DEF IInv, Programs, MainNotify, MainClearReady, MainWaitT1
  <2>2. Stamped' <=> Stamped
    BY <2>1 DEF Stamped
  <2> QED
    BY <2>1, <2>2, PhaseKept DEF Collected
<1>9. CASE /\ ThreadStep
           /\ ~ThreadNow
  <2>1. /\ UNCHANGED <<bench, payload, mainAt>>
        /\ threadAt' \in {"store_t1", "notify_t1", "reset", "exited"}
             <=> threadAt \in {"store_t1", "notify_t1", "reset", "exited"}
    BY <1>9 DEF ThreadStep, ThreadSetReady, ThreadNotifyReady, ThreadAcquire,
       AcquireFlag, AcquireSemaphore, AcquireMutex, SpinTest, SpinTestAndSet,
       ThreadStoreT1, ThreadNotifyT1, ThreadReset, IInv, Programs
  <2> QED
    BY <2>1, PhaseKept DEF Collected, Stamped
<1>10. CASE Spurious \/ Terminating \/ UNCHANGED vars
  <2>1. UNCHANGED <<bench, payload, mainAt, threadAt>>
    BY <1>10 DEF Spurious, Terminating, vars
  <2> QED
    BY <2>1, PhaseKept DEF Collected, Stamped
<1> QED
  BY <1>1, <1>2, <1>3, <1>4, <1>5, <1>6, <1>7, <1>8, <1>9, <1>10
     DEF Next, MainStep

\* In every benchmark the thread gets through only after the release, its
\* stamp is collected only after it was taken, and each round is recorded
\* before the next begins, for every number of rounds.
THEOREM RoundsAreHandoffs == Spec => H!Safety
<1>1. Init => H!Init
  BY DEF Init, H!Init, HandoffPhase, Collected, BeforeRelease, FirstStep
<1>2. IInv /\ IInv' /\ Counted /\ [Next]_vars => [H!Next]_H!vars
  BY StepImplements
<1>3. Spec => [](IInv /\ Counted)
  BY Invariance, CountedInvariant, PTL
<1> QED
  BY <1>1, <1>2, <1>3, PTL DEF Spec, H!Safety
=============================================================================
