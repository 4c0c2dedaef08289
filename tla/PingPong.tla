------------------------------ MODULE PingPong ------------------------------
(***************************************************************************)
(* One cell of the thread map: get_latency() calls measure() a number of   *)
(* times, and each call lets two threads, pinned to the two cores under    *)
(* measurement, hand the atomic "platform" back and forth.  The sample is  *)
(* the elapsed time divided by the number of handoffs.                     *)
(*                                                                         *)
(* A step is one access to shared state.  Time is counted in handoffs: the *)
(* clock ticks when a player stores to platform, so a sample that measures *)
(* what it says is exactly 1.                                              *)
(***************************************************************************)
EXTENDS Integers, Sequences

CONSTANTS Pings,      \* pings: stores each player makes
          Calls,      \* calls of measure() by get_latency(), 5000 in the code
          nullopt,    \* the empty std::optional of easy_atomic
          destroyed   \* a latch whose lifetime has ended

ASSUME PingsAssumption == Pings \in Nat \ {0}
ASSUME CallsAssumption == Calls \in Nat \ {0}
ASSUME SentinelAssumption == nullopt \notin Int /\ destroyed \notin Int

VARIABLES mainAt,        \* next step of get_latency() and measure()
          at,            \* next step of each player; "none": no thread
          parked,        \* the atomic each thread sleeps on (WaitNotify)
          pinned,        \* the players that sit on their core
          start_signal,
          latch,         \* counter of std::latch latch(2), or destroyed
          platform,
          pings,         \* stores each player has made
          t1_atomic,     \* the easy_atomic mailbox of the time stamp
          clock,         \* high_resolution_clock, in handoffs
          t0,            \* local of measure()
          time,          \* local of thread_fun0()
          sample,        \* value measure() is about to return
          i,             \* local of get_latency(): calls made
          times          \* local of get_latency(): samples kept

vars == <<mainAt, at, parked, pinned, start_signal, latch, platform, pings,
          t1_atomic, clock, t0, time, sample, i, times>>

Players == {"j0", "j1"}
Threads == Players \cup {"main"}
Atomics == {"start_signal", "latch", "platform", "t1_atomic"}

INSTANCE WaitNotify

\* thread_fun0 waits while platform is 1 and then stores 1; thread_fun1
\* does the same with 0.
Own(p) == IF p = "j0" THEN 1 ELSE 0

Init ==
    /\ mainAt = "clear_start"
    /\ at = [p \in Players |-> "none"]
    /\ parked = AllAwake
    /\ pinned = {}
    /\ start_signal = FALSE
    /\ latch = destroyed
    /\ platform = 0
    /\ pings = [p \in Players |-> 0]
    /\ t1_atomic = nullopt
    /\ clock = 0
    /\ t0 = 0
    /\ time = 0
    /\ sample = 0
    /\ i = 0
    /\ times = <<>>

MainGoes(from, to) ==
    /\ mainAt = from
    /\ mainAt' = to

PlayerGoes(p, from, to) ==
    /\ at[p] = from
    /\ at' = [at EXCEPT ![p] = to]

\* What only the players, and what only main writes.
playerVars == <<pinned, pings, clock, time>>
mainVars == <<mainAt, start_signal, t0, sample, i, times>>
-----------------------------------------------------------------------------
(* The measuring thread *)

\* Mutant: the signal of the last call stays set.
MainForgetsClear ==
    /\ MainGoes("clear_start", "spawn")
    /\ UNCHANGED <<at, parked, start_signal, latch, platform, t1_atomic, t0,
                   sample, i, times, playerVars>>

MainClearStart ==
    /\ MainGoes("clear_start", "spawn")
    /\ start_signal' = FALSE
    /\ UNCHANGED <<at, parked, latch, platform, t1_atomic, t0, sample, i,
                   times, playerVars>>

\* std::latch latch(2) and std::jthread j0 ...
MainSpawn0 ==
    /\ MainGoes("spawn", "spawn1")
    /\ latch' = 2
    /\ at' = [at EXCEPT !["j0"] = "pin"]
    /\ pinned' = {}
    /\ pings' = [p \in Players |-> 0]
    /\ UNCHANGED <<parked, start_signal, platform, t1_atomic, clock, t0, time,
                   sample, i, times>>

\* ... and std::jthread j1
MainSpawn1 ==
    /\ MainGoes("spawn1", "wait_latch")
    /\ at' = [at EXCEPT !["j1"] = "pin"]
    /\ UNCHANGED <<parked, start_signal, latch, platform, t1_atomic, t0,
                   sample, i, times, playerVars>>

\* Mutant: main does not wait for the players.
MainSkipsLatch ==
    /\ MainGoes("wait_latch", "t0")
    /\ UNCHANGED <<at, parked, start_signal, latch, platform, t1_atomic, t0,
                   sample, i, times, playerVars>>

\* Mutant: the latch lives in a scope that ends with latch.wait().
MainWaitLatchInScope ==
    /\ \/ /\ WaitReturns("main", latch = 0)
          /\ MainGoes("wait_latch", "t0")
          /\ latch' = destroyed
       \/ /\ WaitBlocks("main", "latch", latch = 0)
          /\ MainGoes("wait_latch", "wait_latch")
          /\ UNCHANGED latch
    /\ UNCHANGED <<at, start_signal, platform, t1_atomic, t0, sample,
                   i, times, playerVars>>

\* latch.wait()
MainWaitLatch ==
    /\ \/ /\ WaitReturns("main", latch = 0)
          /\ MainGoes("wait_latch", "t0")
       \/ /\ WaitBlocks("main", "latch", latch = 0)
          /\ MainGoes("wait_latch", "wait_latch")
    /\ UNCHANGED <<at, start_signal, latch, platform, t1_atomic, t0, sample,
                   i, times, playerVars>>

MainT0 ==
    /\ MainGoes("t0", "set_start")
    /\ t0' = clock
    /\ UNCHANGED <<at, parked, start_signal, latch, platform, t1_atomic,
                   sample, i, times, playerVars>>

\* start_signal.test_and_set()
MainSetStart ==
    /\ MainGoes("set_start", "notify_start")
    /\ start_signal' = TRUE
    /\ UNCHANGED <<at, parked, latch, platform, t1_atomic, t0, sample, i,
                   times, playerVars>>

\* Mutant: notify_one(), as in the latency benchmarks.
MainNotifiesOne ==
    /\ MainGoes("notify_start", "wait_t1")
    /\ NotifyOne("start_signal")
    /\ UNCHANGED <<at, start_signal, latch, platform, t1_atomic, t0, sample,
                   i, times, playerVars>>

\* start_signal.notify_all()
MainNotifyStart ==
    /\ MainGoes("notify_start", "wait_t1")
    /\ NotifyAll("start_signal")
    /\ UNCHANGED <<at, start_signal, latch, platform, t1_atomic, t0, sample,
                   i, times, playerVars>>

\* wait_for_non_nullopt_and_exchange(): the wait ...
MainWaitT1 ==
    /\ \/ /\ WaitReturns("main", t1_atomic # nullopt)
          /\ MainGoes("wait_t1", "exchange")
       \/ /\ WaitBlocks("main", "t1_atomic", t1_atomic # nullopt)
          /\ MainGoes("wait_t1", "wait_t1")
    /\ UNCHANGED <<at, start_signal, latch, platform, t1_atomic, t0, sample,
                   i, times, playerVars>>

\* Mutant: the stamp is loaded and stays in the mailbox.
MainLoad ==
    /\ MainGoes("exchange", "store_platform")
    /\ sample' = (t1_atomic - t0) \div (2 * Pings)
    /\ UNCHANGED <<at, parked, start_signal, latch, platform, t1_atomic, t0,
                   i, times, playerVars>>

\* ... and the exchange, with the value measure() returns
MainExchange ==
    /\ MainGoes("exchange", "store_platform")
    /\ sample' = (t1_atomic - t0) \div (2 * Pings)
    /\ t1_atomic' = nullopt
    /\ UNCHANGED <<at, parked, start_signal, latch, platform, t0, i, times,
                   playerVars>>

\* platform.store(0), without a notification
MainStorePlatform ==
    /\ MainGoes("store_platform", "join1")
    /\ platform' = 0
    /\ UNCHANGED <<at, parked, start_signal, latch, t1_atomic, t0, sample, i,
                   times, playerVars>>

\* The locals of measure() are destroyed in reverse order: j1, j0, latch.
MainJoin(p) ==
    /\ MainGoes(IF p = "j1" THEN "join1" ELSE "join0",
                IF p = "j1" THEN "join0" ELSE "destroy_latch")
    /\ at[p] = "exited"
    /\ at' = [at EXCEPT ![p] = "none"]
    /\ UNCHANGED <<parked, start_signal, latch, platform, t1_atomic, t0,
                   sample, i, times, playerVars>>

MainDestroyLatch ==
    /\ MainGoes("destroy_latch", "emplace")
    /\ latch' = destroyed
    /\ UNCHANGED <<at, parked, start_signal, platform, t1_atomic, t0, sample,
                   i, times, playerVars>>

\* The body of get_latency()'s loop: the first sample is tossed.
MainEmplace ==
    /\ MainGoes("emplace", IF i + 1 < Calls THEN "clear_start" ELSE "done")
    /\ i' = i + 1
    /\ times' = IF i = 0 THEN times ELSE Append(times, sample)
    /\ UNCHANGED <<at, parked, start_signal, latch, platform, t1_atomic, t0,
                   sample, playerVars>>

MainStep ==
    \/ MainClearStart \/ MainSpawn0 \/ MainSpawn1 \/ MainWaitLatch \/ MainT0
    \/ MainSetStart \/ MainNotifyStart \/ MainWaitT1 \/ MainExchange
    \/ MainStorePlatform \/ MainDestroyLatch \/ MainEmplace
    \/ \E p \in Players : MainJoin(p)
-----------------------------------------------------------------------------
(* The players *)

\* set_thread_affinity({ cpu_num })
Pin(p) ==
    /\ PlayerGoes(p, "pin", "count_down")
    /\ pinned' = pinned \cup {p}
    /\ UNCHANGED <<parked, latch, platform, pings, t1_atomic, clock, time,
                   mainVars>>

\* Mutant: the player counts itself down twice.
CountDownTwice(p) ==
    /\ PlayerGoes(p, "count_down",
                  IF latch = 1 THEN "notify_latch" ELSE "wait_start")
    /\ latch' = latch - 2
    /\ UNCHANGED <<parked, platform, t1_atomic, playerVars, mainVars>>

\* ready_signal.count_down(): the decrement ...
CountDown(p) ==
    /\ PlayerGoes(p, "count_down",
                  IF latch = 1 THEN "notify_latch" ELSE "wait_start")
    /\ latch' = latch - 1
    /\ UNCHANGED <<parked, platform, t1_atomic, playerVars, mainVars>>

\* ... and, by whoever reaches zero, the notification of the waiters
NotifyLatch(p) ==
    /\ PlayerGoes(p, "notify_latch", "wait_start")
    /\ NotifyAll("latch")
    /\ UNCHANGED <<latch, platform, t1_atomic, playerVars, mainVars>>

\* start_signal.wait(false)
WaitStart(p) ==
    /\ \/ /\ WaitReturns(p, start_signal)
          /\ PlayerGoes(p, "wait_start", "wait_platform")
       \/ /\ WaitBlocks(p, "start_signal", start_signal)
          /\ PlayerGoes(p, "wait_start", "wait_start")
    /\ UNCHANGED <<latch, platform, t1_atomic, playerVars, mainVars>>

\* platform.wait(): in the loop, and once more at the end of thread_fun0
WaitPlatform(p) ==
    /\ \/ /\ WaitReturns(p, platform # Own(p))
          /\ PlayerGoes(p, "wait_platform",
                        IF pings[p] < Pings THEN "store" ELSE "now")
       \/ /\ WaitBlocks(p, "platform", platform # Own(p))
          /\ PlayerGoes(p, "wait_platform", "wait_platform")
    /\ UNCHANGED <<latch, platform, t1_atomic, playerVars, mainVars>>

\* platform.store(): one handoff
Store(p) ==
    /\ PlayerGoes(p, "store", "notify")
    /\ platform' = Own(p)
    /\ pings' = [pings EXCEPT ![p] = @ + 1]
    /\ clock' = clock + 1
    /\ UNCHANGED <<parked, pinned, latch, t1_atomic, time, mainVars>>

\* Mutant: thread_fun0 does not wait for the last answer.
NotifyAndLeave(p) ==
    /\ PlayerGoes(p, "notify",
                  IF pings[p] < Pings THEN "wait_platform"
                  ELSE IF p = "j0" THEN "now" ELSE "exited")
    /\ NotifyOne("platform")
    /\ UNCHANGED <<latch, platform, t1_atomic, playerVars, mainVars>>

\* platform.notify_one(), and the head of the loop
Notify(p) ==
    /\ PlayerGoes(p, "notify",
                  IF p = "j0" \/ pings[p] < Pings
                  THEN "wait_platform" ELSE "exited")
    /\ NotifyOne("platform")
    /\ UNCHANGED <<latch, platform, t1_atomic, playerVars, mainVars>>

Now(p) ==
    /\ PlayerGoes(p, "now", "store_t1")
    /\ time' = clock
    /\ UNCHANGED <<parked, pinned, latch, platform, pings, t1_atomic, clock,
                   mainVars>>

\* t1_atomic.store_and_notify_one(time)
StoreT1(p) ==
    /\ PlayerGoes(p, "store_t1", "notify_t1")
    /\ t1_atomic' = time
    /\ UNCHANGED <<parked, latch, platform, playerVars, mainVars>>

NotifyT1(p) ==
    /\ PlayerGoes(p, "notify_t1", "exited")
    /\ NotifyOne("t1_atomic")
    /\ UNCHANGED <<latch, platform, t1_atomic, playerVars, mainVars>>

PlayerStep(p) ==
    \/ Pin(p) \/ CountDown(p) \/ NotifyLatch(p) \/ WaitStart(p)
    \/ WaitPlatform(p) \/ Store(p) \/ Notify(p)
    \/ Now(p) \/ StoreT1(p) \/ NotifyT1(p)
-----------------------------------------------------------------------------
Spurious ==
    /\ \E t \in Threads : SpuriousWake(t)
    /\ UNCHANGED <<at, latch, platform, t1_atomic, playerVars, mainVars>>

\* get_latency() goes on to the median.
Terminating ==
    /\ mainAt = "done"
    /\ UNCHANGED vars

Next ==
    \/ MainStep
    \/ \E p \in Players : PlayerStep(p)
    \/ Spurious
    \/ Terminating

\* Every thread that can run does; no spurious wake-up is promised.
Spec ==
    /\ Init
    /\ [][Next]_vars
    /\ WF_vars(MainStep)
    /\ \A p \in Players : WF_vars(PlayerStep(p))
-----------------------------------------------------------------------------
(* Properties *)

MainSteps == {"clear_start", "spawn", "spawn1", "wait_latch", "t0",
              "set_start", "notify_start", "wait_t1", "exchange",
              "store_platform", "join1", "join0", "destroy_latch", "emplace",
              "done"}
PlayerSteps == {"none", "pin", "count_down", "notify_latch", "wait_start",
                "wait_platform", "store", "notify", "now", "store_t1",
                "notify_t1", "exited"}

\* The variables keep their types; the latch is never counted below zero.
TypeOK ==
    /\ mainAt \in MainSteps
    /\ at \in [Players -> PlayerSteps]
    /\ WaitTypeOK
    /\ pinned \subseteq Players
    /\ start_signal \in BOOLEAN
    /\ latch \in (0 .. 2) \cup {destroyed}
    /\ platform \in {0, 1}
    /\ pings \in [Players -> 0 .. Pings]
    /\ t1_atomic \in Nat \cup {nullopt}
    /\ clock \in Nat
    /\ t0 \in Nat
    /\ time \in Nat
    /\ sample \in Int
    /\ i \in 0 .. Calls
    /\ times \in Seq(Int)

\* Dividing by 2*pings yields the time of one handoff: between t0 and the
\* stamp lie exactly 2*pings stores, whatever the two threads and main did.
SamplesAreSingleHandoffs ==
    /\ mainAt \in {"store_platform", "join1", "join0", "destroy_latch",
                   "emplace"} => sample = 1
    /\ \A n \in DOMAIN times : times[n] = 1

\* Every store of a player changes the platform, so each is a handoff the
\* partner waits for; main's own store after the measurement changes nothing,
\* so it cannot swallow a handoff still under way.
StoresAreHandoffs ==
    [][/\ \A p \in Players : at[p] = "store" /\ at'[p] = "notify"
                                => platform' # platform
       /\ mainAt = "store_platform" /\ mainAt' = "join1"
             => platform' = platform]_vars

\* When the clock is started, both players sit on their core and neither has
\* begun to play.
StartedTogether ==
    mainAt \in {"t0", "set_start"} =>
        /\ pinned = Players
        /\ \A p \in Players : at[p] \in {"notify_latch", "wait_start"}

\* The latch is a local of measure() that the threads hold by reference:
\* nobody counts down, notifies or waits on it outside its lifetime.
LatchOutlivesItsUse ==
    (\/ mainAt = "wait_latch"
     \/ \E p \in Players : at[p] \in {"count_down", "notify_latch"})
        => latch # destroyed

\* A call of measure() starts from the state the first one started from;
\* start_signal alone is still set, and is cleared first.
CallsAreIndependent ==
    mainAt \in {"clear_start", "done"} =>
        /\ \A p \in Players : at[p] = "none"
        /\ parked = AllAwake
        /\ platform = 0
        /\ t1_atomic = nullopt
        /\ latch = destroyed

\* Each call of measure() is one Handoff: started, played to the end, its
\* stamp collected, its sample recorded, until all calls are made.  The part
\* with fairness says that neither player waits forever on the platform.
HandoffPhase ==
    CASE mainAt \in {"wait_t1", "notify_start", "exchange"} ->
           IF at["j0"] \in {"store_t1", "notify_t1", "exited"}
           THEN "passed" ELSE "offered"
      [] mainAt \in {"store_platform", "join1", "join0", "destroy_latch",
                     "emplace"} -> "collected"
      [] OTHER -> "idle"

H == INSTANCE Handoff WITH phase <- HandoffPhase, taken <- i, Rounds <- Calls

ImplementsHandoff == H!Spec
=============================================================================
