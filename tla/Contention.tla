----------------------------- MODULE Contention -----------------------------
(***************************************************************************)
(* The contention benchmarks: measure() starts contention_thread_count     *)
(* threads that each increment one shared integer a number of times, and   *)
(* stops the time from the common start to the last increment.  The four   *)
(* files share their skeleton; what differs is how an increment is made,   *)
(* so the benchmark is a variable that Init chooses.                       *)
(*                                                                         *)
(* A step is one access to shared state.  The ++ of an int that is not     *)
(* atomic is a read and a write.  measure() and thread_fun() of each file  *)
(* are given by what follows each of their steps; what a step does is an   *)
(* action of its own.                                                      *)
(***************************************************************************)
EXTENDS Integers, Sequences

CONSTANTS MaxThreads,   \* bound on contention_thread_count
          MaxAdds,      \* bound on adds, 1000 in the code
          MaxIncrements,  \* bound on the increments of one sample
          Samples,      \* n of add_payload()
          MaxInt,       \* the largest int
          destroyed     \* a latch whose lifetime has ended

ASSUME MaxThreadsAssumption == MaxThreads \in Nat
ASSUME MaxAddsAssumption == MaxAdds \in Nat \ {0}
ASSUME SamplesAssumption == Samples \in Nat \ {0}
ASSUME MaxIntAssumption ==
    MaxInt \in Nat /\ MaxIncrements \in 0 .. MaxInt
ASSUME DestroyedAssumption == destroyed \notin Int

VARIABLES bench,
          contention_thread_count,
          adds,           \* parameter of measure() and thread_fun()
          mainAt,         \* next step of measure()
          spawned,        \* threads started in this sample
          at,             \* next step of each thread_fun()
          parked,         \* the atomic each thread sleeps on (WaitNotify)
          ready_signal,   \* counter of the latch, or destroyed
          end_signal,     \* counter of the latch, or destroyed
          start_signal,
          atomic_flag,    \* the signal of contention_atomic_flag
          mutex,          \* owner of the std::mutex, or Main: nobody
          counter,        \* the shared integer
          loaded,         \* what each thread has read of it
          i,              \* loop counter of each thread
          taken           \* samples recorded

vars == <<bench, contention_thread_count, adds, mainAt, spawned, at, parked,
          ready_signal, end_signal, start_signal, atomic_flag, mutex, counter,
          loaded, i, taken>>

Benchmarks == {"mutex", "atomic_add", "atomic_flag", "atomic_large"}

\* An int of the build: two's complement.  The language leaves the overflow of
\* ++counter undefined; the compiler adds and wraps around, as fetch_add does.
Ints == -(MaxInt + 1) .. MaxInt
AsInt(n) == ((n + MaxInt + 1) % (2 * (MaxInt + 1))) - (MaxInt + 1)
-----------------------------------------------------------------------------
(* The four files *)

\* What follows each step.  The latches are locals of measure(), declared
\* after the vector of threads: they end before the threads are joined.
mutex_measure ==
    [construct |-> "spawn", spawn |-> "t0", t0 |-> "set_start",
     set_start |-> "notify_start", notify_start |-> "wait_end",
     wait_end |-> "t1", t1 |-> "clear_start", clear_start |-> "destroy_end",
     destroy_end |-> "destroy_ready", destroy_ready |-> "join",
     join |-> "emplace"]

atomic_add_measure ==
    [reset |-> "construct", construct |-> "spawn", spawn |-> "t0",
     t0 |-> "set_start", set_start |-> "notify_start",
     notify_start |-> "wait_end", wait_end |-> "t1", t1 |-> "clear_start",
     clear_start |-> "destroy_end", destroy_end |-> "destroy_ready",
     destroy_ready |-> "join", join |-> "emplace"]

atomic_flag_measure ==
    [reset |-> "construct", construct |-> "spawn", spawn |-> "t0",
     t0 |-> "set_start", set_start |-> "notify_start",
     notify_start |-> "set_atomic", set_atomic |-> "notify_atomic",
     notify_atomic |-> "wait_end", wait_end |-> "t1", t1 |-> "clear_start",
     clear_start |-> "destroy_end", destroy_end |-> "destroy_ready",
     destroy_ready |-> "join", join |-> "emplace"]

atomic_large_measure ==
    [reset |-> "construct", construct |-> "spawn", spawn |-> "t0",
     t0 |-> "set_start", set_start |-> "notify_start",
     notify_start |-> "wait_end", wait_end |-> "t1", t1 |-> "clear_start",
     clear_start |-> "destroy_end", destroy_end |-> "destroy_ready",
     destroy_ready |-> "join", join |-> "emplace"]

measure == [mutex |-> mutex_measure, atomic_add |-> atomic_add_measure,
            atomic_flag |-> atomic_flag_measure,
            atomic_large |-> atomic_large_measure]

FirstStep(b) == IF b = "mutex" THEN "construct" ELSE "reset"

\* The body of the loop is what stands between wait_start and count_end.
mutex_thread_fun ==
    [count_ready |-> "wait_ready", wait_ready |-> "wait_start",
     wait_start |-> "lock", lock |-> "load", load |-> "store",
     store |-> "unlock", unlock |-> "count_end", count_end |-> "exited"]

atomic_add_thread_fun ==
    [count_ready |-> "wait_ready", wait_ready |-> "wait_start",
     wait_start |-> "fetch_add", fetch_add |-> "count_end",
     count_end |-> "exited"]

atomic_flag_thread_fun ==
    [count_ready |-> "wait_ready", wait_ready |-> "wait_start",
     wait_start |-> "wait_atomic", wait_atomic |-> "load", load |-> "store",
     store |-> "notify", notify |-> "count_end", count_end |-> "exited"]

atomic_large_thread_fun ==
    [count_ready |-> "wait_ready", wait_ready |-> "wait_start",
     wait_start |-> "wait_atomic", wait_atomic |-> "load", load |-> "store",
     store |-> "notify", notify |-> "count_end", count_end |-> "exited"]

thread_fun == [mutex |-> mutex_thread_fun, atomic_add |-> atomic_add_thread_fun,
               atomic_flag |-> atomic_flag_thread_fun,
               atomic_large |-> atomic_large_thread_fun]
-----------------------------------------------------------------------------
\* hardware_concurrency() / 2 - 1, in C++ integer arithmetic
ThreadCounts == {hc \div 2 - 1 : hc \in 0 .. 2 * MaxThreads + 3}

Main == 0
Workers == 1 .. MaxThreads
Threads == Workers \cup {Main}
Atomics == {"ready_signal", "end_signal", "start_signal", "atomic"}

INSTANCE WaitNotify

Init ==
    /\ bench \in Benchmarks
    /\ contention_thread_count \in ThreadCounts
    /\ adds \in 1 .. MaxAdds
    /\ contention_thread_count * adds <= MaxIncrements
    /\ mainAt = FirstStep(bench)
    /\ spawned = 0
    /\ at = [w \in Workers |-> "none"]
    /\ parked = AllAwake
    /\ ready_signal = destroyed
    /\ end_signal = destroyed
    /\ start_signal = FALSE
    /\ atomic_flag = FALSE
    /\ mutex = Main
    /\ counter = 0
    /\ loaded = [w \in Workers |-> 0]
    /\ i = [w \in Workers |-> 0]
    /\ taken = 0

MainJumps(from, to) ==
    /\ mainAt = from
    /\ mainAt' = to
    /\ UNCHANGED <<bench, contention_thread_count, adds>>

MainGoes(from) == MainJumps(from, measure[bench][from])
MainStays(step) == MainJumps(step, step)

WorkerJumps(w, from, to) ==
    /\ at[w] = from
    /\ at' = [at EXCEPT ![w] = to]
    /\ UNCHANGED <<bench, contention_thread_count, adds, mainAt, spawned,
                   taken>>

WorkerGoes(w, from) == WorkerJumps(w, from, thread_fun[bench][from])
WorkerStays(w, step) == WorkerJumps(w, step, step)

latches == <<ready_signal, end_signal>>
shared == <<atomic_flag, mutex, counter, loaded>>
-----------------------------------------------------------------------------
(* The measuring thread *)

\* Mutant: the integer is not reset.
MainForgetsReset ==
    /\ MainGoes("reset")
    /\ UNCHANGED <<spawned, at, parked, latches, start_signal, shared, i,
                   taken>>

\* atomic.store(0) or value = 0
MainReset ==
    /\ MainGoes("reset")
    /\ counter' = 0
    /\ UNCHANGED <<spawned, at, parked, latches, start_signal, atomic_flag,
                   mutex, loaded, i, taken>>

\* threads.reserve() and the two latches; a negative count is no size.
MainConstruct ==
    /\ \/ /\ contention_thread_count < 0
          /\ MainJumps("construct", "aborted")
          /\ UNCHANGED latches
       \/ /\ contention_thread_count >= 0
          /\ MainGoes("construct")
          /\ ready_signal' = contention_thread_count
          /\ end_signal' = contention_thread_count
    /\ spawned' = 0
    /\ UNCHANGED <<at, parked, start_signal, shared, i, taken>>

\* threads.emplace_back(thread_fun, ...)
MainSpawn ==
    /\ spawned < contention_thread_count
    /\ MainStays("spawn")
    /\ spawned' = spawned + 1
    /\ at' = [at EXCEPT ![spawned'] = "count_ready"]
    /\ i' = [i EXCEPT ![spawned'] = 0]
    /\ UNCHANGED <<parked, latches, start_signal, shared, taken>>

\* ready_signal.wait()
MainWaitReady ==
    /\ spawned = contention_thread_count
    /\ \/ /\ WaitReturns(Main, ready_signal = 0)
          /\ MainGoes("spawn")
       \/ /\ WaitBlocks(Main, "ready_signal", ready_signal = 0)
          /\ MainStays("spawn")
    /\ UNCHANGED <<spawned, at, latches, start_signal, shared, i, taken>>

MainT0 ==
    /\ MainGoes("t0")
    /\ UNCHANGED <<spawned, at, parked, latches, start_signal, shared, i,
                   taken>>

\* start_signal.test_and_set()
MainSetStart ==
    /\ MainGoes("set_start")
    /\ start_signal' = TRUE
    /\ UNCHANGED <<spawned, at, parked, latches, shared, i, taken>>

\* Mutant: notify_one().
MainNotifiesOne ==
    /\ MainGoes("notify_start")
    /\ NotifyOne("start_signal")
    /\ UNCHANGED <<spawned, at, latches, start_signal, shared, i, taken>>

\* start_signal.notify_all()
MainNotifyStart ==
    /\ MainGoes("notify_start")
    /\ NotifyAll("start_signal")
    /\ UNCHANGED <<spawned, at, latches, start_signal, shared, i, taken>>

\* atomic.test_and_set(), in contention_atomic_flag only; no step ever
\* clears this flag again.
MainSetAtomic ==
    /\ MainGoes("set_atomic")
    /\ atomic_flag' = TRUE
    /\ UNCHANGED <<spawned, at, parked, latches, start_signal, mutex, counter,
                   loaded, i, taken>>

\* atomic.notify_one()
MainNotifyAtomic ==
    /\ MainGoes("notify_atomic")
    /\ NotifyOne("atomic")
    /\ UNCHANGED <<spawned, at, latches, start_signal, shared, i, taken>>

\* Mutant: main does not wait for the last increment.
MainSkipsEnd ==
    /\ MainGoes("wait_end")
    /\ UNCHANGED <<spawned, at, parked, latches, start_signal, shared, i,
                   taken>>

\* end_signal.wait()
MainWaitEnd ==
    /\ \/ /\ WaitReturns(Main, end_signal = 0)
          /\ MainGoes("wait_end")
       \/ /\ WaitBlocks(Main, "end_signal", end_signal = 0)
          /\ MainStays("wait_end")
    /\ UNCHANGED <<spawned, at, latches, start_signal, shared, i, taken>>

MainT1 ==
    /\ MainGoes("t1")
    /\ UNCHANGED <<spawned, at, parked, latches, start_signal, shared, i,
                   taken>>

\* Mutant: the start signal stays set.
MainForgetsClear ==
    /\ MainGoes("clear_start")
    /\ UNCHANGED <<spawned, at, parked, latches, start_signal, shared, i,
                   taken>>

\* start_signal.clear()
MainClearStart ==
    /\ MainGoes("clear_start")
    /\ start_signal' = FALSE
    /\ UNCHANGED <<spawned, at, parked, latches, shared, i, taken>>

\* The locals of measure() are destroyed in reverse order: the latches ...
MainDestroyEnd ==
    /\ MainGoes("destroy_end")
    /\ end_signal' = destroyed
    /\ UNCHANGED <<spawned, at, parked, ready_signal, start_signal, shared, i,
                   taken>>

MainDestroyReady ==
    /\ MainGoes("destroy_ready")
    /\ ready_signal' = destroyed
    /\ UNCHANGED <<spawned, at, parked, end_signal, start_signal, shared, i,
                   taken>>

\* Mutant: the threads are left running.
MainDetach ==
    /\ MainGoes("join")
    /\ UNCHANGED <<spawned, at, parked, latches, start_signal, shared, i,
                   taken>>

\* ... before the vector of jthreads, whose destructors join.
MainJoin ==
    /\ \A w \in Workers : at[w] \in {"none", "exited"}
    /\ MainGoes("join")
    /\ at' = [w \in Workers |-> "none"]
    /\ UNCHANGED <<spawned, parked, latches, start_signal, shared, i, taken>>

\* payload.emplace_back(fun()) and the loop of add_payload()
MainEmplace ==
    /\ MainJumps("emplace", IF taken + 1 < Samples THEN FirstStep(bench)
                            ELSE "done")
    /\ taken' = taken + 1
    /\ UNCHANGED <<spawned, at, parked, latches, start_signal, shared, i>>

MainStep ==
    \/ MainReset \/ MainConstruct \/ MainSpawn \/ MainWaitReady \/ MainT0
    \/ MainSetStart \/ MainNotifyStart \/ MainSetAtomic \/ MainNotifyAtomic
    \/ MainWaitEnd \/ MainT1 \/ MainClearStart \/ MainDestroyEnd
    \/ MainDestroyReady \/ MainJoin \/ MainEmplace
-----------------------------------------------------------------------------
(* A thread *)

\* The last step of an iteration, and the head of the for loop
EndIteration(w, from) ==
    /\ i' = [i EXCEPT ![w] = @ + 1]
    /\ WorkerJumps(w, from, IF i'[w] < adds
                            THEN thread_fun[bench]["wait_start"]
                            ELSE "count_end")

\* ready_signal.count_down(): the decrement ...
CountReady(w) ==
    /\ IF ready_signal = 1
       THEN WorkerJumps(w, "count_ready", "notify_ready")
       ELSE WorkerGoes(w, "count_ready")
    /\ ready_signal' = ready_signal - 1
    /\ UNCHANGED <<parked, end_signal, start_signal, shared, i>>

\* ... and, by whoever reaches zero, the notification of the waiters
NotifyReady(w) ==
    /\ WorkerJumps(w, "notify_ready", thread_fun[bench]["count_ready"])
    /\ NotifyAll("ready_signal")
    /\ UNCHANGED <<latches, start_signal, shared, i>>

\* ready_signal.wait()
WaitReady(w) ==
    /\ \/ /\ WaitReturns(w, ready_signal = 0)
          /\ WorkerGoes(w, "wait_ready")
       \/ /\ WaitBlocks(w, "ready_signal", ready_signal = 0)
          /\ WorkerStays(w, "wait_ready")
    /\ UNCHANGED <<latches, start_signal, shared, i>>

\* start_signal.wait(false)
WaitStart(w) ==
    /\ \/ /\ WaitReturns(w, start_signal)
          /\ WorkerGoes(w, "wait_start")
       \/ /\ WaitBlocks(w, "start_signal", start_signal)
          /\ WorkerStays(w, "wait_start")
    /\ UNCHANGED <<latches, start_signal, shared, i>>

\* Mutant: the lock guard is missing.
NoLock(w) ==
    /\ WorkerGoes(w, "lock")
    /\ UNCHANGED <<parked, latches, start_signal, shared, i>>

\* std::scoped_lock lock(mutex)
Lock(w) ==
    /\ mutex = Main
    /\ WorkerGoes(w, "lock")
    /\ mutex' = w
    /\ UNCHANGED <<parked, latches, start_signal, atomic_flag, counter,
                   loaded, i>>

\* atomic.wait(false), or atomic.wait(large_int{-1}), which nothing stores
WaitAtomic(w) ==
    LET differs == IF bench = "atomic_flag" THEN atomic_flag
                                            ELSE counter # -1
    IN /\ \/ /\ WaitReturns(w, differs)
             /\ WorkerGoes(w, "wait_atomic")
          \/ /\ WaitBlocks(w, "atomic", differs)
             /\ WorkerStays(w, "wait_atomic")
       /\ UNCHANGED <<latches, start_signal, shared, i>>

\* ++counter, ++value and store(load() + 1): the read ...
Load(w) ==
    /\ WorkerGoes(w, "load")
    /\ loaded' = [loaded EXCEPT ![w] = counter]
    /\ UNCHANGED <<parked, latches, start_signal, atomic_flag, mutex, counter,
                   i>>

\* ... and the write
Store(w) ==
    /\ WorkerGoes(w, "store")
    /\ counter' = AsInt(loaded[w] + 1)
    /\ UNCHANGED <<parked, latches, start_signal, atomic_flag, mutex, loaded,
                   i>>

\* ~scoped_lock()
Unlock(w) ==
    /\ EndIteration(w, "unlock")
    /\ mutex' = Main
    /\ UNCHANGED <<parked, latches, start_signal, atomic_flag, counter, loaded>>

\* atomic.notify_one()
Notify(w) ==
    /\ EndIteration(w, "notify")
    /\ NotifyOne("atomic")
    /\ UNCHANGED <<latches, start_signal, shared>>

\* atomic.fetch_add(1)
FetchAdd(w) ==
    /\ EndIteration(w, "fetch_add")
    /\ counter' = AsInt(counter + 1)
    /\ UNCHANGED <<parked, latches, start_signal, atomic_flag, mutex, loaded>>

\* Mutant: the thread counts itself down twice.
CountEndTwice(w) ==
    /\ IF end_signal = 1
       THEN WorkerJumps(w, "count_end", "notify_end")
       ELSE WorkerGoes(w, "count_end")
    /\ end_signal' = end_signal - 2
    /\ UNCHANGED <<parked, ready_signal, start_signal, shared, i>>

\* end_signal.count_down(), in the same two steps
CountEnd(w) ==
    /\ IF end_signal = 1
       THEN WorkerJumps(w, "count_end", "notify_end")
       ELSE WorkerGoes(w, "count_end")
    /\ end_signal' = end_signal - 1
    /\ UNCHANGED <<parked, ready_signal, start_signal, shared, i>>

NotifyEnd(w) ==
    /\ WorkerJumps(w, "notify_end", thread_fun[bench]["count_end"])
    /\ NotifyAll("end_signal")
    /\ UNCHANGED <<latches, start_signal, shared, i>>

WorkerStep(w) ==
    \/ CountReady(w) \/ NotifyReady(w) \/ WaitReady(w) \/ WaitStart(w)
    \/ Lock(w) \/ WaitAtomic(w) \/ Load(w) \/ Store(w) \/ Unlock(w)
    \/ Notify(w) \/ FetchAdd(w) \/ CountEnd(w) \/ NotifyEnd(w)
-----------------------------------------------------------------------------
Spurious ==
    /\ \E t \in Threads : SpuriousWake(t)
    /\ UNCHANGED <<bench, contention_thread_count, adds, mainAt, spawned, at,
                   latches, start_signal, shared, i, taken>>

Terminating ==
    /\ mainAt \in {"done", "aborted"}
    /\ UNCHANGED vars

Next ==
    \/ MainStep
    \/ \E w \in Workers : WorkerStep(w)
    \/ Spurious
    \/ Terminating

\* Every thread that can run does; no spurious wake-up is promised.
Spec ==
    /\ Init
    /\ [][Next]_vars
    /\ WF_vars(MainStep)
    /\ \A w \in Workers : WF_vars(WorkerStep(w))
-----------------------------------------------------------------------------
(* Properties *)

MainSteps == {"reset", "construct", "spawn", "t0", "set_start",
              "notify_start", "set_atomic", "notify_atomic", "wait_end", "t1",
              "clear_start", "destroy_end", "destroy_ready", "join",
              "emplace", "done", "aborted"}
LoopSteps == {"lock", "wait_atomic", "load", "store", "unlock", "notify",
              "fetch_add"}
WorkerSteps == {"none", "count_ready", "notify_ready", "wait_ready",
                "wait_start", "count_end", "notify_end", "exited"}
               \cup LoopSteps

\* The variables keep their types; no latch is counted below zero.
TypeOK ==
    /\ bench \in Benchmarks
    /\ contention_thread_count \in ThreadCounts
    /\ adds \in 1 .. MaxAdds
    /\ mainAt \in MainSteps
    /\ spawned \in 0 .. MaxThreads
    /\ at \in [Workers -> WorkerSteps]
    /\ WaitTypeOK
    /\ ready_signal \in (0 .. MaxThreads) \cup {destroyed}
    /\ end_signal \in (0 .. MaxThreads) \cup {destroyed}
    /\ start_signal \in BOOLEAN
    /\ atomic_flag \in BOOLEAN
    /\ mutex \in Threads
    /\ counter \in Ints
    /\ loaded \in [Workers -> Ints]
    /\ i \in [Workers -> 0 .. adds]
    /\ taken \in 0 .. Samples

Running == {w \in Workers : at[w] # "none"}
Finished == {"count_end", "notify_end", "exited"}

BeforeStart == {"reset", "construct", "spawn", "t0", "set_start"}
AfterEnd == {"t1", "clear_start", "destroy_end", "destroy_ready", "join",
             "emplace", "done"}

\* The measured interval holds all the work: no thread has begun when t0 is
\* read, and every thread has made all its increments when t1 is.
AllWorkIsTimed ==
    /\ mainAt \in BeforeStart =>
         \A w \in Running : at[w] \notin LoopSteps \cup Finished
    /\ mainAt \in AfterEnd =>
         \A w \in Running : at[w] \in {"notify_end", "exited"} /\ i[w] = adds

\* With a mutex or an atomic addition no increment is lost.  The counter of
\* contention_mutex runs on over all samples and, as an int, around: it is
\* exact only up to multiples of the number of ints.
CountIsExact ==
    mainAt \in AfterEnd \ {"done"} =>
        LET each == contention_thread_count * adds
        IN /\ bench = "mutex" => counter = AsInt((taken + 1) * each)
           /\ bench = "atomic_add" => counter = each

\* What is left when n threads increment by reading and writing: with one
\* thread everything, with more at least two of the increments.
Fewest(n) == IF n < 2 \/ adds = 1 THEN (IF n = 0 THEN 0 ELSE adds) ELSE 2

\* In contention_atomic_flag and contention_atomic_large increments are lost,
\* but never invented, and never all but one.
LossIsBounded ==
    mainAt \in AfterEnd \ {"done"} /\ bench \in {"atomic_flag", "atomic_large"}
        => counter \in Fewest(contention_thread_count)
                        .. contention_thread_count * adds

\* What readme.md says of the flag: each thread, signalled by the flag,
\* increments the shared integer.
FlagCountsEveryIncrement ==
    mainAt \in AfterEnd \ {"done"} /\ bench = "atomic_flag"
        => counter = contention_thread_count * adds

\* The latches are locals of measure() that end before the threads are
\* joined.  Still nobody counts down or waits on a latch that is gone.  What
\* may come too late is the notification at the end of the last count_down():
\* one thread per sample may make it, when all others are through.
LatchesOutliveTheirUse ==
    /\ (\/ mainAt = "spawn"
        \/ \E w \in Workers : at[w] \in {"count_ready", "notify_ready",
                                        "wait_ready"})
           => ready_signal # destroyed
    /\ (\/ mainAt = "wait_end"
        \/ \E w \in Running : at[w] \notin {"notify_end", "exited"})
           => end_signal # destroyed
    /\ \A w \in Running : at[w] = "notify_end" =>
         \A v \in Running \ {w} : at[v] = "exited"

\* A sample starts from the state the first one started from, but for the
\* counter of contention_mutex and the flag of contention_atomic_flag: that
\* one is down in the first sample only, where it makes the threads wait, and
\* set in every later one.
SamplesAreIndependent ==
    mainAt \in {FirstStep(bench), "done"} =>
        /\ Running = {}
        /\ parked = AllAwake
        /\ ~start_signal
        /\ mutex = Main
        /\ ready_signal = destroyed /\ end_signal = destroyed
        /\ atomic_flag <=> bench = "atomic_flag" /\ taken > 0

\* All samples are taken, unless the machine is so small that the number of
\* threads is negative; in particular every sleeping thread is woken.
SamplesComplete ==
    <>(mainAt = IF contention_thread_count < 0 THEN "aborted" ELSE "done")
=============================================================================
