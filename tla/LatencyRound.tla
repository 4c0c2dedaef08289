---------------------------- MODULE LatencyRound ----------------------------
(***************************************************************************)
(* The latency benchmarks: n rounds of measure(), each of which starts a   *)
(* thread running thread_fun(), lets it through one synchronisation        *)
(* primitive and takes the difference of two clock readings as its sample. *)
(* The six files share one skeleton; what differs is the primitive, so     *)
(* the benchmark is a variable that Init chooses and no step changes.      *)
(*                                                                         *)
(* A step is one access to shared state.  jthread's destructor joins.      *)
(* measure() and thread_fun() of each file are given by what follows each  *)
(* of their steps; what a step does is an action of its own.               *)
(*                                                                         *)
(* wait() compares the bits of the std::optional in the mailbox: an empty  *)
(* one is waited for only if all its bits are those of zero_value.         *)
(***************************************************************************)
EXTENDS Integers, Sequences

CONSTANTS Rounds,    \* n of add_payload()
          nullopt    \* easy_atomic::zero_value, an empty std::optional

ASSUME RoundsAssumption == Rounds \in Nat \ {0}
ASSUME NulloptAssumption == nullopt \notin Nat

VARIABLES bench,         \* which benchmark runs
          mainAt,        \* next step of measure() and of the loop around it
          threadAt,      \* next step of thread_fun(); "none": no thread
          parked,        \* the atomic each thread sleeps on (WaitNotify)
          ready_signal,  \* the thread is about to go for the primitive
          atomic_flag,   \* the measured flag, or the spinlock's m_lock
          semaphore,     \* counter of the binary_semaphore
          mutex,         \* owner of the std::mutex, or "free"
          t1_atomic,     \* the easy_atomic mailbox of the time stamp
          clock,         \* high_resolution_clock, one tick per reading
          t0,            \* local of measure()
          time,          \* local of thread_fun()
          sample,        \* value measure() is about to return
          payload        \* samples recorded by add_payload()

vars == <<bench, mainAt, threadAt, parked, ready_signal, atomic_flag,
          semaphore, mutex, t1_atomic, clock, t0, time, sample, payload>>

Threads == {"main", "j"}
Atomics == {"ready_signal", "atomic_flag", "t1_atomic"}

INSTANCE WaitNotify

\* The benchmarks in which the thread has to get through a primitive.
Gated == {"atomic_flag_test", "atomic_flag_clear", "semaphore",
          "scoped_lock", "spinlock"}
Benchmarks == Gated \cup {"thread_start"}

\* The benchmarks that close their flag before the first round.
Prepared == {"atomic_flag_clear", "spinlock"}

FirstStep(b) ==
    IF b = "thread_start" THEN "t0"
    ELSE IF b = "scoped_lock" THEN "lock" ELSE "spawn"

-----------------------------------------------------------------------------
(* The six files *)

atomic_flag_test_measure ==
    [spawn |-> "wait_ready", wait_ready |-> "t0", t0 |-> "release",
     release |-> "notify", notify |-> "clear_ready",
     clear_ready |-> "wait_t1", wait_t1 |-> "exchange", exchange |-> "join",
     join |-> "emplace"]

atomic_flag_test_thread_fun ==
    [set_ready |-> "notify_ready", notify_ready |-> "acquire",
     acquire |-> "now", now |-> "store_t1", store_t1 |-> "notify_t1",
     notify_t1 |-> "reset", reset |-> "exited"]

atomic_flag_clear_measure ==
    [spawn |-> "wait_ready", wait_ready |-> "t0", t0 |-> "release",
     release |-> "notify", notify |-> "clear_ready",
     clear_ready |-> "wait_t1", wait_t1 |-> "exchange", exchange |-> "join",
     join |-> "emplace"]

atomic_flag_clear_thread_fun ==
    [set_ready |-> "notify_ready", notify_ready |-> "acquire",
     acquire |-> "now", now |-> "store_t1", store_t1 |-> "notify_t1",
     notify_t1 |-> "reset", reset |-> "exited"]

semaphore_measure ==
    [spawn |-> "wait_ready", wait_ready |-> "t0", t0 |-> "release",
     release |-> "clear_ready", clear_ready |-> "wait_t1",
     wait_t1 |-> "exchange", exchange |-> "join", join |-> "emplace"]

semaphore_thread_fun ==
    [set_ready |-> "notify_ready", notify_ready |-> "acquire",
     acquire |-> "now", now |-> "store_t1", store_t1 |-> "notify_t1",
     notify_t1 |-> "exited"]

\* The last step of the thread is ~scoped_lock().
scoped_lock_measure ==
    [lock |-> "spawn", spawn |-> "wait_ready", wait_ready |-> "t0",
     t0 |-> "release", release |-> "clear_ready", clear_ready |-> "wait_t1",
     wait_t1 |-> "exchange", exchange |-> "join", join |-> "emplace"]

scoped_lock_thread_fun ==
    [set_ready |-> "notify_ready", notify_ready |-> "acquire",
     acquire |-> "now", now |-> "store_t1", store_t1 |-> "notify_t1",
     notify_t1 |-> "reset", reset |-> "exited"]

\* lock() spins in two loops, unlock() clears and notifies.
spinlock_measure ==
    [spawn |-> "wait_ready", wait_ready |-> "t0", t0 |-> "release",
     release |-> "notify", notify |-> "clear_ready",
     clear_ready |-> "wait_t1", wait_t1 |-> "exchange", exchange |-> "join",
     join |-> "emplace"]

spinlock_thread_fun ==
    [set_ready |-> "notify_ready", notify_ready |-> "acquire",
     acquire |-> "test_and_set", test_and_set |-> "now", now |-> "store_t1",
     store_t1 |-> "notify_t1", notify_t1 |-> "exited"]

\* The thread is joined before its stamp is collected.
thread_start_measure ==
    [t0 |-> "spawn", spawn |-> "join", join |-> "wait_t1",
     wait_t1 |-> "exchange", exchange |-> "emplace"]

thread_start_thread_fun ==
    [now |-> "store_t1", store_t1 |-> "notify_t1", notify_t1 |-> "exited"]

measure ==
    [atomic_flag_test |-> atomic_flag_test_measure,
     atomic_flag_clear |-> atomic_flag_clear_measure,
     semaphore |-> semaphore_measure,
     scoped_lock |-> scoped_lock_measure,
     spinlock |-> spinlock_measure,
     thread_start |-> thread_start_measure]

thread_fun ==
    [atomic_flag_test |-> atomic_flag_test_thread_fun,
     atomic_flag_clear |-> atomic_flag_clear_thread_fun,
     semaphore |-> semaphore_thread_fun,
     scoped_lock |-> scoped_lock_thread_fun,
     spinlock |-> spinlock_thread_fun,
     thread_start |-> thread_start_thread_fun]

FirstOfThread(b) == IF b = "thread_start" THEN "now" ELSE "set_ready"
-----------------------------------------------------------------------------
Init ==
    /\ bench \in Benchmarks
    /\ mainAt = IF bench \in Prepared THEN "prepare" ELSE FirstStep(bench)
    /\ threadAt = "none"
    /\ parked = AllAwake
    /\ ready_signal = FALSE
    /\ atomic_flag = FALSE
    /\ semaphore = 0
    /\ mutex = "free"
    /\ t1_atomic = nullopt
    /\ clock = 0
    /\ t0 = 0
    /\ time = 0
    /\ sample = 0
    /\ payload = <<>>

MainJumps(from, to) ==
    /\ mainAt = from
    /\ mainAt' = to
    /\ UNCHANGED <<bench, threadAt>>

MainGoes(from) == MainJumps(from, measure[bench][from])

ThreadJumps(from, to) ==
    /\ threadAt = from
    /\ threadAt' = to
    /\ UNCHANGED <<bench, mainAt>>

ThreadGoes(from) == ThreadJumps(from, thread_fun[bench][from])

primitives == <<atomic_flag, semaphore, mutex>>
times == <<clock, t0, time, sample, payload>>
-----------------------------------------------------------------------------
(* The measuring thread *)

\* Mutant: the flag is left open before the first round.
PrepareForgotten ==
    /\ MainJumps("prepare", FirstStep(bench))
    /\ UNCHANGED <<parked, ready_signal, primitives, t1_atomic, times>>

\* atomic_flag.test_and_set() or spinlock.lock(), once, before any round
Prepare ==
    /\ MainJumps("prepare", FirstStep(bench))
    /\ atomic_flag' = TRUE
    /\ UNCHANGED <<parked, ready_signal, semaphore, mutex, t1_atomic, times>>

\* mutex.lock(), in scoped_lock only
MainLock ==
    /\ mutex = "free"
    /\ MainGoes("lock")
    /\ mutex' = "main"
    /\ UNCHANGED <<parked, ready_signal, atomic_flag, semaphore, t1_atomic,
                   times>>

\* std::jthread j(thread_fun)
Spawn ==
    /\ mainAt = "spawn"
    /\ mainAt' = measure[bench]["spawn"]
    /\ threadAt' = FirstOfThread(bench)
    /\ UNCHANGED <<bench, parked, ready_signal, primitives, t1_atomic, times>>

\* ready_signal.wait(false)
MainWaitReady ==
    /\ \/ /\ WaitReturns("main", ready_signal)
          /\ MainGoes("wait_ready")
       \/ /\ WaitBlocks("main", "ready_signal", ready_signal)
          /\ MainJumps("wait_ready", "wait_ready")
    /\ UNCHANGED <<ready_signal, primitives, t1_atomic, times>>

MainT0 ==
    /\ MainGoes("t0")
    /\ clock' = clock + 1
    /\ t0' = clock + 1
    /\ UNCHANGED <<parked, ready_signal, primitives, t1_atomic, time, sample,
                   payload>>

ReleaseFlagTest ==
    /\ bench = "atomic_flag_test"
    /\ MainGoes("release")
    /\ atomic_flag' = TRUE
    /\ UNCHANGED <<semaphore, mutex>>

ReleaseFlagClear ==
    /\ bench = "atomic_flag_clear"
    /\ MainGoes("release")
    /\ atomic_flag' = FALSE
    /\ UNCHANGED <<semaphore, mutex>>

\* atomic_flag_spinlock::unlock()
ReleaseSpinlock ==
    /\ bench = "spinlock"
    /\ MainGoes("release")
    /\ atomic_flag' = FALSE
    /\ UNCHANGED <<semaphore, mutex>>

\* Mutant: semaphore.release(2).
ReleaseSemaphoreTwice ==
    /\ bench = "semaphore"
    /\ MainGoes("release")
    /\ semaphore' = semaphore + 2
    /\ UNCHANGED <<atomic_flag, mutex>>

ReleaseSemaphore ==
    /\ bench = "semaphore"
    /\ MainGoes("release")
    /\ semaphore' = semaphore + 1
    /\ UNCHANGED <<atomic_flag, mutex>>

ReleaseMutex ==
    /\ bench = "scoped_lock"
    /\ MainGoes("release")
    /\ mutex' = "free"
    /\ UNCHANGED <<atomic_flag, semaphore>>

MainRelease ==
    /\ \/ ReleaseFlagTest
       \/ ReleaseFlagClear
       \/ ReleaseSpinlock
       \/ ReleaseSemaphore
       \/ ReleaseMutex
    /\ UNCHANGED <<parked, ready_signal, t1_atomic, times>>

\* atomic_flag.notify_one()
MainNotify ==
    /\ MainGoes("notify")
    /\ NotifyOne("atomic_flag")
    /\ UNCHANGED <<ready_signal, primitives, t1_atomic, times>>

MainClearReady ==
    /\ MainGoes("clear_ready")
    /\ ready_signal' = FALSE
    /\ UNCHANGED <<parked, primitives, t1_atomic, times>>

\* wait_for_non_nullopt_and_exchange(): the wait ...
MainWaitT1 ==
    /\ \/ /\ WaitReturns("main", t1_atomic # nullopt)
          /\ MainGoes("wait_t1")
       \/ /\ WaitBlocks("main", "t1_atomic", t1_atomic # nullopt)
          /\ MainJumps("wait_t1", "wait_t1")
    /\ UNCHANGED <<ready_signal, primitives, t1_atomic, times>>

\* Mutant: exchange(std::nullopt).  The result is empty, but not all its bits
\* are those of zero_value: -1 stands for it.
MainExchangesNullopt ==
    /\ MainGoes("exchange")
    /\ sample' = IF t1_atomic = nullopt THEN 0 ELSE t1_atomic - t0
    /\ t1_atomic' = -1
    /\ UNCHANGED <<parked, ready_signal, primitives, clock, t0, time, payload>>

\* Mutant: the stamp is loaded and stays in the mailbox.
MainLoad ==
    /\ MainGoes("exchange")
    /\ sample' = IF t1_atomic = nullopt THEN 0 ELSE t1_atomic - t0
    /\ UNCHANGED <<parked, ready_signal, primitives, t1_atomic, clock, t0,
                   time, payload>>

\* ... and the exchange, with the subtraction of t0
MainExchange ==
    /\ MainGoes("exchange")
    /\ sample' = IF t1_atomic = nullopt THEN 0 ELSE t1_atomic - t0
    /\ t1_atomic' = nullopt
    /\ UNCHANGED <<parked, ready_signal, primitives, clock, t0, time, payload>>

\* Mutant: the thread is detached and the round goes on without it.
MainDetach ==
    /\ MainGoes("join")
    /\ UNCHANGED <<parked, ready_signal, primitives, t1_atomic, times>>

\* ~jthread()
MainJoin ==
    /\ mainAt = "join"
    /\ threadAt = "exited"
    /\ threadAt' = "none"
    /\ mainAt' = measure[bench]["join"]
    /\ UNCHANGED <<bench, parked, ready_signal, primitives, t1_atomic, times>>

\* payload.emplace_back(fun()) and the loop of add_payload()
MainEmplace ==
    /\ MainJumps("emplace", IF Len(payload) + 1 < Rounds
                            THEN FirstStep(bench) ELSE "done")
    /\ payload' = Append(payload, sample)
    /\ UNCHANGED <<parked, ready_signal, primitives, t1_atomic, clock, t0,
                   time, sample>>

MainStep ==
    \/ Prepare \/ MainLock \/ Spawn \/ MainWaitReady \/ MainT0 \/ MainRelease
    \/ MainNotify \/ MainClearReady \/ MainWaitT1 \/ MainExchange
    \/ MainJoin \/ MainEmplace
-----------------------------------------------------------------------------
(* The started thread *)

ThreadSetReady ==
    /\ ThreadGoes("set_ready")
    /\ ready_signal' = TRUE
    /\ UNCHANGED <<parked, primitives, t1_atomic, times>>

ThreadNotifyReady ==
    /\ ThreadGoes("notify_ready")
    /\ NotifyOne("ready_signal")
    /\ UNCHANGED <<ready_signal, primitives, t1_atomic, times>>

\* atomic_flag.wait(false) and atomic_flag.wait(true)
AcquireFlag ==
    LET open == atomic_flag = (bench = "atomic_flag_test")
    IN /\ bench \in {"atomic_flag_test", "atomic_flag_clear"}
       /\ \/ /\ WaitReturns("j", open)
             /\ ThreadGoes("acquire")
          \/ /\ WaitBlocks("j", "atomic_flag", open)
             /\ ThreadJumps("acquire", "acquire")
       /\ UNCHANGED primitives

\* semaphore.acquire()
AcquireSemaphore ==
    /\ bench = "semaphore"
    /\ semaphore > 0
    /\ ThreadGoes("acquire")
    /\ semaphore' = semaphore - 1
    /\ UNCHANGED <<parked, atomic_flag, mutex>>

\* std::scoped_lock lk(mutex)
AcquireMutex ==
    /\ bench = "scoped_lock"
    /\ mutex = "free"
    /\ ThreadGoes("acquire")
    /\ mutex' = "j"
    /\ UNCHANGED <<parked, atomic_flag, semaphore>>

\* atomic_flag_spinlock::lock(): the loop that only reads ...
SpinTest ==
    /\ bench = "spinlock"
    /\ ~atomic_flag
    /\ ThreadGoes("acquire")
    /\ UNCHANGED <<parked, primitives>>

\* ... and the loop that takes the flag
SpinTestAndSet ==
    /\ bench = "spinlock"
    /\ ~atomic_flag
    /\ ThreadGoes("test_and_set")
    /\ atomic_flag' = TRUE
    /\ UNCHANGED <<parked, semaphore, mutex>>

ThreadAcquire ==
    /\ \/ AcquireFlag
       \/ AcquireSemaphore
       \/ AcquireMutex
       \/ SpinTest
       \/ SpinTestAndSet
    /\ UNCHANGED <<ready_signal, t1_atomic, times>>

ThreadNow ==
    /\ ThreadGoes("now")
    /\ clock' = clock + 1
    /\ time' = clock + 1
    /\ UNCHANGED <<parked, ready_signal, primitives, t1_atomic, t0, sample,
                   payload>>

\* t1_atomic.store_and_notify_one(time): the store ...
ThreadStoreT1 ==
    /\ ThreadGoes("store_t1")
    /\ t1_atomic' = time
    /\ UNCHANGED <<parked, ready_signal, primitives, times>>

\* Mutant: store() without notify_one().
ThreadForgetsNotifyT1 ==
    /\ ThreadGoes("notify_t1")
    /\ UNCHANGED <<parked, ready_signal, primitives, t1_atomic, times>>

\* ... and the notification
ThreadNotifyT1 ==
    /\ ThreadGoes("notify_t1")
    /\ NotifyOne("t1_atomic")
    /\ UNCHANGED <<ready_signal, primitives, t1_atomic, times>>

\* Mutant: the flag stays set for the next round.
ResetFlagTestForgotten ==
    /\ bench = "atomic_flag_test"
    /\ UNCHANGED primitives

ResetFlagTest ==
    /\ bench = "atomic_flag_test"
    /\ atomic_flag' = FALSE
    /\ UNCHANGED <<semaphore, mutex>>

ResetFlagClear ==
    /\ bench = "atomic_flag_clear"
    /\ atomic_flag' = TRUE
    /\ UNCHANGED <<semaphore, mutex>>

\* ~scoped_lock()
ResetMutex ==
    /\ bench = "scoped_lock"
    /\ mutex' = "free"
    /\ UNCHANGED <<atomic_flag, semaphore>>

ThreadReset ==
    /\ ThreadGoes("reset")
    /\ \/ ResetFlagTest
       \/ ResetFlagClear
       \/ ResetMutex
    /\ UNCHANGED <<parked, ready_signal, t1_atomic, times>>

ThreadStep ==
    \/ ThreadSetReady \/ ThreadNotifyReady \/ ThreadAcquire \/ ThreadNow
    \/ ThreadStoreT1 \/ ThreadNotifyT1 \/ ThreadReset
-----------------------------------------------------------------------------
Spurious ==
    /\ \E t \in Threads : SpuriousWake(t)
    /\ UNCHANGED <<bench, mainAt, threadAt, ready_signal, primitives,
                   t1_atomic, times>>

\* All rounds done: the benchmark returns to main().
Terminating ==
    /\ mainAt = "done"
    /\ UNCHANGED vars

Next == MainStep \/ ThreadStep \/ Spurious \/ Terminating

\* The operating system keeps running a thread that can run.  It promises no
\* spurious wake-ups.
Spec ==
    /\ Init
    /\ [][Next]_vars
    /\ WF_vars(MainStep)
    /\ WF_vars(ThreadStep)
-----------------------------------------------------------------------------
(* Properties *)

MainSteps == {"prepare", "lock", "spawn", "wait_ready", "t0", "release",
              "notify", "clear_ready", "wait_t1", "exchange", "join",
              "emplace", "done"}
ThreadSteps == {"none", "set_ready", "notify_ready", "acquire",
                "test_and_set", "now", "store_t1", "notify_t1", "reset",
                "exited"}

\* The variables keep their types; the semaphore's counter never leaves the
\* range of a binary_semaphore (release() beyond its maximum is undefined).
TypeOK ==
    /\ bench \in Benchmarks
    /\ mainAt \in MainSteps
    /\ threadAt \in ThreadSteps
    /\ WaitTypeOK
    /\ ready_signal \in BOOLEAN
    /\ atomic_flag \in BOOLEAN
    /\ semaphore \in {0, 1}
    /\ mutex \in {"free", "main", "j"}
    /\ t1_atomic \in Nat \cup {nullopt}
    /\ clock \in Nat
    /\ t0 \in Nat
    /\ time \in Nat
    /\ sample \in Int
    /\ payload \in Seq(Int)

\* The steps of main from the beginning of a round until the primitive is
\* released, and those of the thread that lie behind the primitive.
BeforeRelease == {"prepare", "lock", "spawn", "wait_ready", "t0", "release"}
BehindGate == {"now", "store_t1", "notify_t1", "reset", "exited"}

\* How the primitive stands while no round runs: closed.
Closed == /\ atomic_flag = (bench \in Prepared)
          /\ semaphore = 0
          /\ mutex = "free"

\* Every round starts from the state the first round started from: the
\* signal of the last round is gone, its stamp is collected, the primitive
\* is closed again, and no thread is left.  The thread closes the flag only
\* after it has delivered its stamp, so main may already be past that.
RoundsAreIndependent ==
    (mainAt = FirstStep(bench) \/ mainAt = "done")
        => /\ Closed
           /\ ~ready_signal
           /\ t1_atomic = nullopt
           /\ threadAt = "none"
           /\ parked = AllAwake

\* A thread is behind the primitive only when main has released it in this
\* round: the stamp is younger than t0, so the sample measures the handoff.
StampAfterRelease ==
    /\ bench \in Gated /\ threadAt \in BehindGate
           => mainAt \notin BeforeRelease
    /\ threadAt \in {"store_t1", "notify_t1", "reset", "exited"} => time > t0
    /\ \A i \in DOMAIN payload : payload[i] > 0

\* easy_atomic is used as a mailbox of one: no stamp is stored over another,
\* and the exchange, which dereferences what it takes, finds one, although the
\* wait before it has only seen bits that are not those of zero_value.
MailboxProtocol ==
    /\ threadAt = "store_t1" => t1_atomic = nullopt
    /\ mainAt = "exchange" => t1_atomic \in Nat

\* The calls keep the preconditions of the primitives: release() leaves the
\* counter within the maximum of a binary_semaphore, only the owner of the
\* mutex unlocks it, and a flag is released only while it is closed.
PrimitiveContracts ==
    LET releasing == mainAt = "release"
    IN /\ bench = "semaphore" /\ releasing => semaphore = 0
       /\ bench = "scoped_lock" /\ releasing => mutex = "main"
       /\ bench = "scoped_lock" /\ threadAt = "reset" => mutex = "j"
       /\ bench \in Prepared /\ releasing => atomic_flag
       /\ bench = "atomic_flag_test" /\ releasing => ~atomic_flag

\* The stamp of the round has been taken, or is what main goes for.
Stamped ==
    \/ threadAt \in {"store_t1", "notify_t1", "reset", "exited"}
    \/ bench = "thread_start" /\ mainAt \in {"wait_t1", "exchange"}

Collected == \/ mainAt = "emplace"
             \/ mainAt = "join" /\ bench \in Gated

\* The benchmark implements Handoff: stamps are taken after the release and
\* collected after they were taken, round by round, until all are taken.
\* The part with fairness says that no notification is lost on the way.
HandoffPhase ==
    IF Collected THEN "collected"
    ELSE IF mainAt \in BeforeRelease \cup {"done"} THEN "idle"
    ELSE IF Stamped THEN "passed" ELSE "offered"

H == INSTANCE Handoff WITH phase <- HandoffPhase, taken <- Len(payload)

ImplementsHandoff == H!Spec
=============================================================================
