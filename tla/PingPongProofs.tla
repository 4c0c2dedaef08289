--------------------------- MODULE PingPongProofs ---------------------------
(***************************************************************************)
(* Proofs about PingPong for every number of pings and calls: that each    *)
(* sample divides exactly the handoffs it claims to, that the players      *)
(* start together, that the latch outlives its users, and that calls are   *)
(* independent.  IInv describes a call by the positions of main and of the *)
(* two players and by how many stores each player has made.                *)
(***************************************************************************)
EXTENDS PingPong, TLAPS

\* The steps of main at which there is no latch, and at which a player runs
\* that has not been joined.
NoLatch == {"clear_start", "spawn", "emplace", "done"}
Runs(p) ==
    IF p = "j0" THEN MainSteps \ (NoLatch \cup {"destroy_latch"})
    ELSE MainSteps \ (NoLatch \cup {"destroy_latch", "spawn1", "join0"})

\* main's steps from the start signal to the end of the measurement, and from
\* there to the end of the call
Playing == {"notify_start", "wait_t1", "exchange"}
Over == {"store_platform", "join1", "join0", "destroy_latch", "emplace"}

\* A player's steps before it is off, and thread_fun0's after its last ping
Uncounted == {"pin", "count_down"}
Waiting == Uncounted \cup {"notify_latch", "wait_start"}
Through == {"now", "store_t1", "notify_t1", "exited"}

\* Between its creation and std::jthread j1 the latch counts a thread that
\* does not exist yet.
Expected(p) == at[p] = "none" /\ mainAt = "spawn1"

\* How far main and the players are relative to each other.
Positions ==
    /\ \A p \in Players : at[p] # "none" <=> mainAt \in Runs(p)
    /\ mainAt \in {"t0", "set_start"} =>
         \A p \in Players : at[p] \in Waiting \ Uncounted
    /\ mainAt \in Playing \cup {"store_platform", "join1", "join0"} =>
         \A p \in Players : at[p] \notin Uncounted
    /\ \A p \in Players : at[p] \notin Waiting \cup {"none"} =>
                              mainAt \in Playing \cup Over
    /\ mainAt \in {"exchange", "store_platform", "join1", "join0"} =>
         at["j0"] \in {"notify_t1", "exited"}
    /\ at["j1"] \notin {"now", "store_t1", "notify_t1"}

\* The latch counts the players that have not counted down.
Remaining(p) ==
    IF at[p] \in Uncounted \/ Expected(p) THEN 1 ELSE 0

Starting ==
    /\ latch = IF mainAt \in NoLatch THEN destroyed
               ELSE Remaining("j0") + Remaining("j1")
    /\ \A p \in Players : at[p] \notin {"none", "pin"} => p \in pinned
    /\ mainAt \in {"spawn", "spawn1", "wait_latch", "t0", "set_start"} =>
         ~start_signal

\* Whose turn it is, from the stores made.
Game ==
    /\ platform = pings["j0"] - pings["j1"]
    /\ \A p \in Players :
         /\ at[p] \in Waiting \/ Expected(p) => pings[p] = 0
         /\ at[p] = "store" => platform # Own(p) /\ pings[p] < Pings
    /\ at["j1"] = "wait_platform" => pings["j1"] < Pings
    /\ at["j0"] \in Through => platform = 0 /\ pings["j0"] = Pings
    /\ mainAt \in {"join0", "destroy_latch", "emplace", "done",
                   "clear_start", "spawn"} => platform = 0

\* The clock counts the stores of this call, the stamp has all of them.
Clock ==
    /\ mainAt \in {"set_start"} \cup Playing =>
         clock = t0 + pings["j0"] + pings["j1"]
    /\ /\ at["j0"] \in {"store_t1", "notify_t1", "exited"}
       /\ mainAt \in Playing
       => time = t0 + 2 * Pings
    /\ t1_atomic # nullopt <=>
         at["j0"] \in {"notify_t1", "exited"} /\ mainAt \in Playing
    /\ t1_atomic # nullopt => t1_atomic = time
    /\ mainAt \in Over => sample = 1
    /\ \A k \in DOMAIN times : times[k] = 1
    /\ i < Calls <=> mainAt # "done"

\* Who sleeps where.
Sleeping ==
    /\ parked["main"] # Awake =>
         \/ parked["main"] = "latch" /\ mainAt = "wait_latch"
         \/ parked["main"] = "t1_atomic" /\ mainAt = "wait_t1"
    /\ \A p \in Players : parked[p] # Awake =>
         \/ parked[p] = "start_signal" /\ at[p] = "wait_start"
         \/ parked[p] = "platform" /\ at[p] = "wait_platform"

IInv ==
    /\ TypeOK
    /\ Positions
    /\ Starting
    /\ Game
    /\ Clock
    /\ Sleeping
-----------------------------------------------------------------------------
\* A number divided by itself.
LEMMA Unit == \A n \in Nat \ {0} : n \div n = 1
  OBVIOUS

LEMMA InitIInv == Init => IInv
  <1> SUFFICES ASSUME Init PROVE IInv
    OBVIOUS
  <1> USE PingsAssumption, CallsAssumption, SentinelAssumption
      DEF Init, Players, Threads, Atomics, WaitTypeOK, AllAwake, Awake
  <1>1. TypeOK
    <2>1. times \in Seq(Int) /\ t1_atomic \in Nat \cup {nullopt}
      OBVIOUS
    <2>2. /\ pings \in [Players -> 0 .. Pings]
          /\ i \in 0 .. Calls
          /\ latch \in (0 .. 2) \cup {destroyed}
          /\ clock \in Nat /\ t0 \in Nat /\ time \in Nat /\ sample \in Int
      OBVIOUS
    <2>3. /\ mainAt \in MainSteps /\ at \in [Players -> PlayerSteps]
          /\ WaitTypeOK
          /\ pinned \subseteq Players
          /\ start_signal \in BOOLEAN
          /\ platform \in {0, 1}
      BY DEF MainSteps, PlayerSteps
    <2> HIDE DEF Init, Players, WaitTypeOK
    <2>4. QED
      BY <2>1, <2>2, <2>3, Zenon DEF TypeOK
  <1>2. Positions /\ Starting
    BY DEF Positions, Starting, Runs, NoLatch, Playing, Over, Uncounted,
       Waiting, MainSteps
  <1>3. Game /\ Clock /\ Sleeping
    BY DEF Game, Clock, Sleeping, Playing, Over, Waiting, Uncounted, Through,
       Expected, Own
  <1>4. QED
    BY <1>1, <1>2, <1>3 DEF IInv

LEMMA StepIInv == IInv /\ [Next]_vars => IInv'
  <1> SUFFICES ASSUME IInv, [Next]_vars PROVE IInv'
    OBVIOUS
  <1> USE PingsAssumption, CallsAssumption, SentinelAssumption
      DEF IInv, MainGoes, PlayerGoes, playerVars, mainVars, Players, Runs,
          NoLatch, Playing, Over, Uncounted, Waiting, Through, MainSteps,
          PlayerSteps, Threads, Atomics, Awake, WaitTypeOK, Own
  <1>1. CASE MainClearStart
    <2>1. TypeOK'
      BY <1>1
         DEF MainClearStart, TypeOK, Positions, Starting, Game, Remaining,
             Expected
    <2>2. Positions'
      BY <1>1
         DEF MainClearStart, TypeOK, Positions, Starting, Clock, Remaining,
             Expected
    <2>3. Starting'
      BY <1>1
         DEF MainClearStart, TypeOK, Positions, Starting, Remaining, Expected
    <2>4. Game'
      BY <1>1 DEF MainClearStart, TypeOK, Positions, Game, Expected
    <2>5. Clock'
      BY <1>1 DEF MainClearStart, TypeOK, Positions, Game, Clock, Expected
    <2>6. Sleeping'
      BY <1>1 DEF MainClearStart, TypeOK, Positions, Sleeping
    <2> QED
      BY <2>1, <2>2, <2>3, <2>4, <2>5, <2>6
  <1>2. CASE MainSpawn0
    <2>1. TypeOK'
      BY <1>2
         DEF MainSpawn0, TypeOK, Positions, Starting, Game, Remaining, Expected
    <2>2. Positions'
      BY <1>2
         DEF MainSpawn0, TypeOK, Positions, Starting, Clock, Remaining,
             Expected
    <2>3. Starting'
      BY <1>2 DEF MainSpawn0, TypeOK, Positions, Starting, Remaining, Expected
    <2>4. Game'
      BY <1>2 DEF MainSpawn0, TypeOK, Positions, Game, Expected
    <2>5. Clock'
      BY <1>2 DEF MainSpawn0, TypeOK, Positions, Game, Clock, Expected
    <2>6. Sleeping'
      BY <1>2 DEF MainSpawn0, TypeOK, Positions, Sleeping
    <2> QED
      BY <2>1, <2>2, <2>3, <2>4, <2>5, <2>6
  <1>3. CASE MainSpawn1
    <2>1. TypeOK'
      BY <1>3
         DEF MainSpawn1, TypeOK, Positions, Starting, Game, Remaining, Expected
    <2>2. Positions'
      BY <1>3
         DEF MainSpawn1, TypeOK, Positions, Starting, Clock, Remaining,
             Expected
    <2>3. Starting'
      BY <1>3 DEF MainSpawn1, TypeOK, Positions, Starting, Remaining, Expected
    <2>4. Game'
      BY <1>3 DEF MainSpawn1, TypeOK, Positions, Game, Expected
    <2>5. Clock'
      BY <1>3 DEF MainSpawn1, TypeOK, Positions, Game, Clock, Expected
    <2>6. Sleeping'
      BY <1>3 DEF MainSpawn1, TypeOK, Positions, Sleeping
    <2> QED
      BY <2>1, <2>2, <2>3, <2>4, <2>5, <2>6
  <1>4. CASE MainWaitLatch
    <2>1. TypeOK'
      BY <1>4
         DEF MainWaitLatch, WaitReturns, WaitBlocks, IsAwake, TypeOK,
             Positions, Starting, Game, Remaining, Expected
    <2>2. Positions'
      BY <1>4
         DEF MainWaitLatch, WaitReturns, WaitBlocks, IsAwake, TypeOK,
             Positions, Starting, Clock, Remaining, Expected
    <2>3. Starting'
      BY <1>4
         DEF MainWaitLatch, WaitReturns, WaitBlocks, IsAwake, TypeOK,
             Positions, Starting, Remaining, Expected
    <2>4. Game'
      BY <1>4
         DEF MainWaitLatch, WaitReturns, WaitBlocks, IsAwake, TypeOK,
             Positions, Game, Expected
    <2>5. Clock'
      BY <1>4
         DEF MainWaitLatch, WaitReturns, WaitBlocks, IsAwake, TypeOK,
             Positions, Game, Clock, Expected
    <2>6. Sleeping'
      BY <1>4
         DEF MainWaitLatch, WaitReturns, WaitBlocks, IsAwake, TypeOK,
             Positions, Sleeping
    <2> QED
      BY <2>1, <2>2, <2>3, <2>4, <2>5, <2>6
  <1>5. CASE MainT0
    <2>1. TypeOK'
      BY <1>5 DEF MainT0, TypeOK, Positions, Starting, Game, Remaining, Expected
    <2>2. Positions'
      BY <1>5
         DEF MainT0, TypeOK, Positions, Starting, Clock, Remaining, Expected
    <2>3. Starting'
      BY <1>5 DEF MainT0, TypeOK, Positions, Starting, Remaining, Expected
    <2>4. Game'
      BY <1>5 DEF MainT0, TypeOK, Positions, Game, Expected
    <2>5. Clock'
      BY <1>5 DEF MainT0, TypeOK, Positions, Game, Clock, Expected
    <2>6. Sleeping'
      BY <1>5 DEF MainT0, TypeOK, Positions, Sleeping
    <2> QED
      BY <2>1, <2>2, <2>3, <2>4, <2>5, <2>6
  <1>6. CASE MainSetStart
    <2>1. TypeOK'
      BY <1>6
         DEF MainSetStart, TypeOK, Positions, Starting, Game, Remaining,
             Expected
    <2>2. Positions'
      BY <1>6
         DEF MainSetStart, TypeOK, Positions, Starting, Clock, Remaining,
             Expected
    <2>3. Starting'
      BY <1>6 DEF MainSetStart, TypeOK, Positions, Starting, Remaining, Expected
    <2>4. Game'
      BY <1>6 DEF MainSetStart, TypeOK, Positions, Game, Expected
    <2>5. Clock'
      BY <1>6 DEF MainSetStart, TypeOK, Positions, Game, Clock, Expected
    <2>6. Sleeping'
      BY <1>6 DEF MainSetStart, TypeOK, Positions, Sleeping
    <2> QED
      BY <2>1, <2>2, <2>3, <2>4, <2>5, <2>6
  <1>7. CASE MainNotifyStart
    <2>1. TypeOK'
      BY <1>7
         DEF MainNotifyStart, NotifyAll, TypeOK, Positions, Starting, Game,
             Remaining, Expected
    <2>2. Positions'
      BY <1>7
         DEF MainNotifyStart, NotifyAll, TypeOK, Positions, Starting, Clock,
             Remaining, Expected
    <2>3. Starting'
      BY <1>7
         DEF MainNotifyStart, NotifyAll, TypeOK, Positions, Starting,
             Remaining, Expected
    <2>4. Game'
      BY <1>7 DEF MainNotifyStart, NotifyAll, TypeOK, Positions, Game, Expected
    <2>5. Clock'
      BY <1>7
         DEF MainNotifyStart, NotifyAll, TypeOK, Positions, Game, Clock,
             Expected
    <2>6. Sleeping'
      BY <1>7 DEF MainNotifyStart, NotifyAll, TypeOK, Positions, Sleeping
    <2> QED
      BY <2>1, <2>2, <2>3, <2>4, <2>5, <2>6
  <1>8. CASE MainWaitT1
    <2>1. TypeOK'
      BY <1>8
         DEF MainWaitT1, WaitReturns, WaitBlocks, IsAwake, TypeOK, Positions,
             Starting, Game, Remaining, Expected
    <2>2. Positions'
      BY <1>8
         DEF MainWaitT1, WaitReturns, WaitBlocks, IsAwake, TypeOK, Positions,
             Starting, Clock, Remaining, Expected
    <2>3. Starting'
      BY <1>8
         DEF MainWaitT1, WaitReturns, WaitBlocks, IsAwake, TypeOK, Positions,
             Starting, Remaining, Expected
    <2>4. Game'
      BY <1>8
         DEF MainWaitT1, WaitReturns, WaitBlocks, IsAwake, TypeOK, Positions,
             Game, Expected
    <2>5. Clock'
      BY <1>8
         DEF MainWaitT1, WaitReturns, WaitBlocks, IsAwake, TypeOK, Positions,
             Game, Clock, Expected
    <2>6. Sleeping'
      BY <1>8
         DEF MainWaitT1, WaitReturns, WaitBlocks, IsAwake, TypeOK, Positions,
             Sleeping
    <2> QED
      BY <2>1, <2>2, <2>3, <2>4, <2>5, <2>6
  <1>9. CASE MainExchange
    <2>1. TypeOK'
      BY <1>9
         DEF MainExchange, TypeOK, Positions, Starting, Game, Remaining,
             Expected
    <2>2. Positions'
      BY <1>9
         DEF MainExchange, TypeOK, Positions, Starting, Clock, Remaining,
             Expected
    <2>3. Starting'
      BY <1>9 DEF MainExchange, TypeOK, Positions, Starting, Remaining, Expected
    <2>4. Game'
      BY <1>9 DEF MainExchange, TypeOK, Positions, Game, Expected
    <2>5. Clock'
      <3>1. t1_atomic = t0 + 2 * Pings /\ 2 * Pings \in Nat \ {0}
        BY <1>9 DEF MainExchange, TypeOK, Positions, Clock
      <3>2. sample' = (2 * Pings) \div (2 * Pings)
        BY <1>9, <3>1 DEF MainExchange, TypeOK
      <3>3. sample' = 1
        BY <3>1, <3>2, Unit
      <3>4. QED
        BY <1>9, <3>3 DEF MainExchange, TypeOK, Positions, Clock
    <2>6. Sleeping'
      BY <1>9 DEF MainExchange, TypeOK, Positions, Sleeping
    <2> QED
      BY <2>1, <2>2, <2>3, <2>4, <2>5, <2>6
  <1>10. CASE MainStorePlatform
    <2>1. TypeOK'
      BY <1>10
         DEF MainStorePlatform, TypeOK, Positions, Starting, Game, Remaining,
             Expected
    <2>2. Positions'
      BY <1>10
         DEF MainStorePlatform, TypeOK, Positions, Starting, Clock, Remaining,
             Expected
    <2>3. Starting'
      BY <1>10
         DEF MainStorePlatform, TypeOK, Positions, Starting, Remaining,
             Expected
    <2>4. Game'
      BY <1>10 DEF MainStorePlatform, TypeOK, Positions, Game, Expected
    <2>5. Clock'
      BY <1>10 DEF MainStorePlatform, TypeOK, Positions, Game, Clock, Expected
    <2>6. Sleeping'
      BY <1>10 DEF MainStorePlatform, TypeOK, Positions, Sleeping
    <2> QED
      BY <2>1, <2>2, <2>3, <2>4, <2>5, <2>6
  <1>11. CASE MainDestroyLatch
    <2>1. TypeOK'
      BY <1>11
         DEF MainDestroyLatch, TypeOK, Positions, Starting, Game, Remaining,
             Expected
    <2>2. Positions'
      BY <1>11
         DEF MainDestroyLatch, TypeOK, Positions, Starting, Clock, Remaining,
             Expected
    <2>3. Starting'
      BY <1>11
         DEF MainDestroyLatch, TypeOK, Positions, Starting, Remaining, Expected
    <2>4. Game'
      BY <1>11 DEF MainDestroyLatch, TypeOK, Positions, Game, Expected
    <2>5. Clock'
      BY <1>11 DEF MainDestroyLatch, TypeOK, Positions, Game, Clock, Expected
    <2>6. Sleeping'
      BY <1>11 DEF MainDestroyLatch, TypeOK, Positions, Sleeping
    <2> QED
      BY <2>1, <2>2, <2>3, <2>4, <2>5, <2>6
  <1>12. CASE MainEmplace
    <2>1. TypeOK'
      BY <1>12
         DEF MainEmplace, TypeOK, Positions, Starting, Game, Remaining,
             Expected
    <2>2. Positions'
      BY <1>12
         DEF MainEmplace, TypeOK, Positions, Starting, Clock, Remaining,
             Expected
    <2>3. Starting'
      BY <1>12 DEF MainEmplace, TypeOK, Positions, Starting, Remaining, Expected
    <2>4. Game'
      BY <1>12 DEF MainEmplace, TypeOK, Positions, Game, Expected
    <2>5. Clock'
      BY <1>12 DEF MainEmplace, TypeOK, Positions, Game, Clock, Expected
    <2>6. Sleeping'
      BY <1>12 DEF MainEmplace, TypeOK, Positions, Sleeping
    <2> QED
      BY <2>1, <2>2, <2>3, <2>4, <2>5, <2>6
  <1>13. ASSUME NEW p \in Players, MainJoin(p) PROVE IInv'
    <2>1. TypeOK'
      BY <1>13
         DEF MainJoin, TypeOK, Positions, Starting, Game, Remaining, Expected
    <2>2. Positions'
      BY <1>13
         DEF MainJoin, TypeOK, Positions, Starting, Clock, Remaining, Expected
    <2>3. Starting'
      BY <1>13 DEF MainJoin, TypeOK, Positions, Starting, Remaining, Expected
    <2>4. Game'
      BY <1>13 DEF MainJoin, TypeOK, Positions, Game, Expected
    <2>5. Clock'
      BY <1>13 DEF MainJoin, TypeOK, Positions, Game, Clock, Expected
    <2>6. Sleeping'
      BY <1>13 DEF MainJoin, TypeOK, Positions, Sleeping
    <2> QED
      BY <2>1, <2>2, <2>3, <2>4, <2>5, <2>6
  <1>14. ASSUME NEW p \in Players, Pin(p) PROVE IInv'
    <2>1. TypeOK'
      BY <1>14 DEF Pin, TypeOK, Positions, Starting, Game, Remaining, Expected
    <2>2. Positions'
      BY <1>14 DEF Pin, TypeOK, Positions, Starting, Clock, Remaining, Expected
    <2>3. Starting'
      BY <1>14 DEF Pin, TypeOK, Positions, Starting, Remaining, Expected
    <2>4. Game'
      BY <1>14 DEF Pin, TypeOK, Positions, Game, Expected
    <2>5. Clock'
      BY <1>14 DEF Pin, TypeOK, Positions, Game, Clock, Expected
    <2>6. Sleeping'
      BY <1>14 DEF Pin, TypeOK, Positions, Sleeping
    <2> QED
      BY <2>1, <2>2, <2>3, <2>4, <2>5, <2>6
  <1>15. ASSUME NEW p \in Players, CountDown(p) PROVE IInv'
    <2>1. TypeOK'
      BY <1>15
         DEF CountDown, TypeOK, Positions, Starting, Game, Remaining, Expected
    <2>2. Positions'
      BY <1>15
         DEF CountDown, TypeOK, Positions, Starting, Clock, Remaining, Expected
    <2>3. Starting'
      BY <1>15 DEF CountDown, TypeOK, Positions, Starting, Remaining, Expected
    <2>4. Game'
      BY <1>15 DEF CountDown, TypeOK, Positions, Game, Expected
    <2>5. Clock'
      BY <1>15 DEF CountDown, TypeOK, Positions, Game, Clock, Expected
    <2>6. Sleeping'
      BY <1>15 DEF CountDown, TypeOK, Positions, Sleeping
    <2> QED
      BY <2>1, <2>2, <2>3, <2>4, <2>5, <2>6
  <1>16. ASSUME NEW p \in Players, NotifyLatch(p) PROVE IInv'
    <2>1. TypeOK'
      BY <1>16
         DEF NotifyLatch, NotifyAll, TypeOK, Positions, Starting, Game,
             Remaining, Expected
    <2>2. Positions'
      BY <1>16
         DEF NotifyLatch, NotifyAll, TypeOK, Positions, Starting, Clock,
             Remaining, Expected
    <2>3. Starting'
      BY <1>16
         DEF NotifyLatch, NotifyAll, TypeOK, Positions, Starting, Remaining,
             Expected
    <2>4. Game'
      BY <1>16 DEF NotifyLatch, NotifyAll, TypeOK, Positions, Game, Expected
    <2>5. Clock'
      BY <1>16
         DEF NotifyLatch, NotifyAll, TypeOK, Positions, Game, Clock, Expected
    <2>6. Sleeping'
      BY <1>16 DEF NotifyLatch, NotifyAll, TypeOK, Positions, Sleeping
    <2> QED
      BY <2>1, <2>2, <2>3, <2>4, <2>5, <2>6
  <1>17. ASSUME NEW p \in Players, WaitStart(p) PROVE IInv'
    <2>1. TypeOK'
      BY <1>17
         DEF WaitStart, WaitReturns, WaitBlocks, IsAwake, TypeOK, Positions,
             Starting, Game, Remaining, Expected
    <2>2. Positions'
      BY <1>17
         DEF WaitStart, WaitReturns, WaitBlocks, IsAwake, TypeOK, Positions,
             Starting, Clock, Remaining, Expected
    <2>3. Starting'
      BY <1>17
         DEF WaitStart, WaitReturns, WaitBlocks, IsAwake, TypeOK, Positions,
             Starting, Remaining, Expected
    <2>4. Game'
      BY <1>17
         DEF WaitStart, WaitReturns, WaitBlocks, IsAwake, TypeOK, Positions,
             Game, Expected
    <2>5. Clock'
      BY <1>17
         DEF WaitStart, WaitReturns, WaitBlocks, IsAwake, TypeOK, Positions,
             Game, Clock, Expected
    <2>6. Sleeping'
      BY <1>17
         DEF WaitStart, WaitReturns, WaitBlocks, IsAwake, TypeOK, Positions,
             Sleeping
    <2> QED
      BY <2>1, <2>2, <2>3, <2>4, <2>5, <2>6
  <1>18. ASSUME NEW p \in Players, WaitPlatform(p) PROVE IInv'
    <2>1. TypeOK'
      BY <1>18
         DEF WaitPlatform, WaitReturns, WaitBlocks, IsAwake, TypeOK, Positions,
             Starting, Game, Remaining, Expected
    <2>2. Positions'
      BY <1>18
         DEF WaitPlatform, WaitReturns, WaitBlocks, IsAwake, TypeOK, Positions,
             Starting, Clock, Remaining, Expected
    <2>3. Starting'
      BY <1>18
         DEF WaitPlatform, WaitReturns, WaitBlocks, IsAwake, TypeOK, Positions,
             Starting, Remaining, Expected
    <2>4. Game'
      BY <1>18
         DEF WaitPlatform, WaitReturns, WaitBlocks, IsAwake, TypeOK, Positions,
             Game, Expected
    <2>5. Clock'
      BY <1>18
         DEF WaitPlatform, WaitReturns, WaitBlocks, IsAwake, TypeOK, Positions,
             Game, Clock, Expected
    <2>6. Sleeping'
      BY <1>18
         DEF WaitPlatform, WaitReturns, WaitBlocks, IsAwake, TypeOK, Positions,
             Sleeping
    <2> QED
      BY <2>1, <2>2, <2>3, <2>4, <2>5, <2>6
  <1>19. ASSUME NEW p \in Players, Store(p) PROVE IInv'
    <2>1. TypeOK'
      BY <1>19 DEF Store, TypeOK, Positions, Starting, Game, Remaining, Expected
    <2>2. Positions'
      BY <1>19
         DEF Store, TypeOK, Positions, Starting, Clock, Remaining, Expected
    <2>3. Starting'
      BY <1>19 DEF Store, TypeOK, Positions, Starting, Remaining, Expected
    <2>4. Game'
      BY <1>19 DEF Store, TypeOK, Positions, Game, Expected
    <2>5. Clock'
      BY <1>19 DEF Store, TypeOK, Positions, Game, Clock, Expected
    <2>6. Sleeping'
      BY <1>19 DEF Store, TypeOK, Positions, Sleeping
    <2> QED
      BY <2>1, <2>2, <2>3, <2>4, <2>5, <2>6
  <1>20. ASSUME NEW p \in Players, Notify(p) PROVE IInv'
    <2>1. TypeOK'
      BY <1>20
         DEF Notify, NotifyOne, Sleepers, TypeOK, Positions, Starting, Game,
             Remaining, Expected
    <2>2. Positions'
      BY <1>20
         DEF Notify, NotifyOne, Sleepers, TypeOK, Positions, Starting, Clock,
             Remaining, Expected
    <2>3. Starting'
      BY <1>20
         DEF Notify, NotifyOne, Sleepers, TypeOK, Positions, Starting,
             Remaining, Expected
    <2>4. Game'
      BY <1>20
         DEF Notify, NotifyOne, Sleepers, TypeOK, Positions, Game, Expected
    <2>5. Clock'
      BY <1>20
         DEF Notify, NotifyOne, Sleepers, TypeOK, Positions, Game, Clock,
             Expected
    <2>6. Sleeping'
      BY <1>20 DEF Notify, NotifyOne, Sleepers, TypeOK, Positions, Sleeping
    <2> QED
      BY <2>1, <2>2, <2>3, <2>4, <2>5, <2>6
  <1>21. ASSUME NEW p \in Players, Now(p) PROVE IInv'
    <2>1. TypeOK'
      BY <1>21 DEF Now, TypeOK, Positions, Starting, Game, Remaining, Expected
    <2>2. Positions'
      BY <1>21 DEF Now, TypeOK, Positions, Starting, Clock, Remaining, Expected
    <2>3. Starting'
      BY <1>21 DEF Now, TypeOK, Positions, Starting, Remaining, Expected
    <2>4. Game'
      BY <1>21 DEF Now, TypeOK, Positions, Game, Expected
    <2>5. Clock'
      BY <1>21 DEF Now, TypeOK, Positions, Game, Clock, Expected
    <2>6. Sleeping'
      BY <1>21 DEF Now, TypeOK, Positions, Sleeping
    <2> QED
      BY <2>1, <2>2, <2>3, <2>4, <2>5, <2>6
  <1>22. ASSUME NEW p \in Players, StoreT1(p) PROVE IInv'
    <2>1. TypeOK'
      BY <1>22
         DEF StoreT1, TypeOK, Positions, Starting, Game, Remaining, Expected
    <2>2. Positions'
      BY <1>22
         DEF StoreT1, TypeOK, Positions, Starting, Clock, Remaining, Expected
    <2>3. Starting'
      BY <1>22 DEF StoreT1, TypeOK, Positions, Starting, Remaining, Expected
    <2>4. Game'
      BY <1>22 DEF StoreT1, TypeOK, Positions, Game, Expected
    <2>5. Clock'
      BY <1>22 DEF StoreT1, TypeOK, Positions, Game, Clock, Expected
    <2>6. Sleeping'
      BY <1>22 DEF StoreT1, TypeOK, Positions, Sleeping
    <2> QED
      BY <2>1, <2>2, <2>3, <2>4, <2>5, <2>6
  <1>23. ASSUME NEW p \in Players, NotifyT1(p) PROVE IInv'
    <2>1. TypeOK'
      BY <1>23
         DEF NotifyT1, NotifyOne, Sleepers, TypeOK, Positions, Starting, Game,
             Remaining, Expected
    <2>2. Positions'
      BY <1>23
         DEF NotifyT1, NotifyOne, Sleepers, TypeOK, Positions, Starting, Clock,
             Remaining, Expected
    <2>3. Starting'
      BY <1>23
         DEF NotifyT1, NotifyOne, Sleepers, TypeOK, Positions, Starting,
             Remaining, Expected
    <2>4. Game'
      BY <1>23
         DEF NotifyT1, NotifyOne, Sleepers, TypeOK, Positions, Game, Expected
    <2>5. Clock'
      BY <1>23
         DEF NotifyT1, NotifyOne, Sleepers, TypeOK, Positions, Game, Clock,
             Expected
    <2>6. Sleeping'
      BY <1>23 DEF NotifyT1, NotifyOne, Sleepers, TypeOK, Positions, Sleeping
    <2> QED
      BY <2>1, <2>2, <2>3, <2>4, <2>5, <2>6
  <1>24. CASE Spurious
    <2>1. TypeOK'
      BY <1>24
         DEF Spurious, SpuriousWake, IsAwake, TypeOK, Positions, Starting,
             Game, Remaining, Expected
    <2>2. Positions'
      BY <1>24
         DEF Spurious, SpuriousWake, IsAwake, TypeOK, Positions, Starting,
             Clock, Remaining, Expected
    <2>3. Starting'
      BY <1>24
         DEF Spurious, SpuriousWake, IsAwake, TypeOK, Positions, Starting,
             Remaining, Expected
    <2>4. Game'
      BY <1>24
         DEF Spurious, SpuriousWake, IsAwake, TypeOK, Positions, Game, Expected
    <2>5. Clock'
      BY <1>24
         DEF Spurious, SpuriousWake, IsAwake, TypeOK, Positions, Game, Clock,
             Expected
    <2>6. Sleeping'
      BY <1>24 DEF Spurious, SpuriousWake, IsAwake, TypeOK, Positions, Sleeping
    <2> QED
      BY <2>1, <2>2, <2>3, <2>4, <2>5, <2>6
  <1>25. CASE UNCHANGED vars
    <2>1. TypeOK'
      BY <1>25 DEF vars, TypeOK, Positions, Starting, Game, Remaining, Expected
    <2>2. Positions'
      BY <1>25 DEF vars, TypeOK, Positions, Starting, Clock, Remaining, Expected
    <2>3. Starting'
      BY <1>25 DEF vars, TypeOK, Positions, Starting, Remaining, Expected
    <2>4. Game'
      BY <1>25 DEF vars, TypeOK, Positions, Game, Expected
    <2>5. Clock'
      BY <1>25 DEF vars, TypeOK, Positions, Game, Clock, Expected
    <2>6. Sleeping'
      BY <1>25 DEF vars, TypeOK, Positions, Sleeping
    <2> QED
      BY <2>1, <2>2, <2>3, <2>4, <2>5, <2>6
  <1> HIDE DEF IInv, Players
  <1> QED
    BY <1>1, <1>2, <1>3, <1>4, <1>5, <1>6, <1>7, <1>8, <1>9, <1>10, <1>11,
       <1>12, <1>13, <1>14, <1>15, <1>16, <1>17, <1>18, <1>19, <1>20, <1>21,
       <1>22, <1>23, <1>24, <1>25
       DEF Next, MainStep, PlayerStep, Terminating

\* IInv holds in every reachable state.
THEOREM Invariance == Spec => []IInv
  BY InitIInv, StepIInv, PTL DEF Spec
-----------------------------------------------------------------------------
\* The variables keep their types for every number of pings and calls; the
\* latch is never counted below zero.
THEOREM TypeCorrect == Spec => []TypeOK
  BY Invariance, PTL DEF IInv

\* Each sample is the time of exactly one handoff.
THEOREM SamplesExact == Spec => []SamplesAreSingleHandoffs
  <1>1. IInv => SamplesAreSingleHandoffs
    BY DEF IInv, SamplesAreSingleHandoffs, Clock, Over
  <1>2. QED
    BY <1>1, Invariance, PTL

\* The clock is started when both players are on their cores and wait.
THEOREM PlayersStartTogether == Spec => []StartedTogether
  <1>1. IInv => StartedTogether
    BY DEF IInv, StartedTogether, TypeOK, Positions, Starting, Waiting,
       Uncounted, Players
  <1>2. QED
    BY <1>1, Invariance, PTL

\* No thread touches the latch when it is not there.
THEOREM LatchIsAlive == Spec => []LatchOutlivesItsUse
  <1>1. IInv => LatchOutlivesItsUse
    BY SentinelAssumption
    DEF IInv, LatchOutlivesItsUse, TypeOK, Positions, Starting, Runs, NoLatch,
        Remaining, Expected, Players
  <1>2. QED
    BY <1>1, Invariance, PTL

\* A call of measure() finds what the first one found.
THEOREM CallsIndependent == Spec => []CallsAreIndependent
  <1>1. IInv => CallsAreIndependent
    BY DEF IInv, CallsAreIndependent, TypeOK, Positions, Starting, Game, Clock,
       Sleeping, Runs, NoLatch, Playing, Players, Threads, WaitTypeOK,
       AllAwake, Awake, Atomics
  <1>2. QED
    BY <1>1, Invariance, PTL

\* Only a player's own step takes it from its store to its notification, and
\* at a store the platform has the partner's value; main's store comes when
\* the platform is 0 already.
THEOREM EveryStoreCounts == Spec => StoresAreHandoffs
  <1> DEFINE A ==
        /\ \A p \in Players : at[p] = "store" /\ at'[p] = "notify"
                               => platform' # platform
        /\ mainAt = "store_platform" /\ mainAt' = "join1"
             => platform' = platform
  <1>1. IInv /\ [Next]_vars => [A]_vars
    <2> SUFFICES ASSUME IInv, Next PROVE A
      BY DEF vars
    <2> USE DEF IInv, MainGoes, PlayerGoes, playerVars, mainVars
    <2>1. ASSUME mainAt = "store_platform", mainAt' = "join1"
          PROVE  platform' = platform
      <3>1. platform = 0
        BY <2>1 DEF Positions, Game, Through
      <3>2. MainStorePlatform
        BY <2>1 DEF Next, MainStep, PlayerStep, Spurious, Terminating, vars,
           MainClearStart, MainSpawn0, MainSpawn1, MainWaitLatch, MainT0,
           MainSetStart, MainNotifyStart, MainWaitT1, MainExchange, MainJoin,
           MainDestroyLatch, MainEmplace, Pin, CountDown, NotifyLatch,
           WaitStart, WaitPlatform, Store, Notify, Now, StoreT1, NotifyT1
      <3>3. QED
        BY <3>1, <3>2 DEF MainStorePlatform
    <2>2. ASSUME NEW p \in Players, at[p] = "store", at'[p] = "notify"
          PROVE  platform' # platform
      <3>1. Store(p)
        <4>1. CASE MainStep
          BY <2>2, <4>1 DEF MainStep, TypeOK,
             MainClearStart, MainSpawn0, MainSpawn1, MainWaitLatch, MainT0,
             MainSetStart, MainNotifyStart, MainWaitT1, MainExchange,
             MainStorePlatform, MainJoin, MainDestroyLatch, MainEmplace
        <4>2. CASE \E q \in Players : PlayerStep(q)
          BY <2>2, <4>2 DEF PlayerStep, TypeOK, Pin, CountDown, NotifyLatch,
             WaitStart, WaitPlatform, Store, Notify, Now, StoreT1, NotifyT1
        <4>3. QED
          BY <2>2, <4>1, <4>2 DEF Next, Spurious, Terminating, vars
      <3>2. QED
        BY <2>2, <3>1 DEF Store, Game
    <2>3. QED
      BY <2>1, <2>2
  <1>2. QED
    BY <1>1, Invariance, PTL DEF Spec, StoresAreHandoffs
-----------------------------------------------------------------------------
(* Each call is a Handoff.  A step of PingPong either leaves the phase and  *)
(* the number of calls alone or is the step of Handoff named below.         *)

LEMMA PhaseKept ==
  ASSUME IInv, IInv', [Next]_vars,
         UNCHANGED i,
         mainAt' \in Playing <=> mainAt \in Playing,
         mainAt' \in Over <=> mainAt \in Over,
         mainAt \in Playing =>
           (at'["j0"] \in {"store_t1", "notify_t1", "exited"}
              <=> at["j0"] \in {"store_t1", "notify_t1", "exited"})
  PROVE  UNCHANGED H!vars
  BY DEF H!vars, HandoffPhase, Playing, Over, IInv, TypeOK

\* From the start signal to the last record each step has its counterpart.
LEMMA StepImplements == IInv /\ IInv' /\ [Next]_vars => [H!Next]_H!vars
  <1> SUFFICES ASSUME IInv, IInv', [Next]_vars PROVE [H!Next]_H!vars
    OBVIOUS
  <1> USE DEF MainGoes, PlayerGoes, playerVars, mainVars, Playing, Over
  <1>1. CASE MainSetStart
    <2>1. at["j0"] \in Waiting /\ i < Calls
      BY <1>1 DEF MainSetStart, IInv, Positions, Clock, Players
    <2>2. H!Offer
      BY <1>1, <2>1 DEF MainSetStart, H!Offer, HandoffPhase, Waiting, Uncounted
    <2>3. QED
      BY <2>2 DEF H!Next
  <1>2. CASE MainExchange
    <2>1. at["j0"] \in {"notify_t1", "exited"} /\ at'["j0"] = at["j0"]
      BY <1>2 DEF MainExchange, IInv, TypeOK, Positions
    <2>2. H!Collect
      BY <1>2, <2>1 DEF MainExchange, H!Collect, HandoffPhase
    <2>3. QED
      BY <2>2 DEF H!Next
  <1>3. CASE MainEmplace
    <2>1. H!Record
      BY <1>3 DEF MainEmplace, H!Record, HandoffPhase
    <2>2. QED
      BY <2>1 DEF H!Next
  <1>4. CASE Now("j0")
    <2>1. mainAt \in {"notify_start", "wait_t1"}
      BY <1>4 DEF Now, IInv, TypeOK, Positions, Players, Runs, Waiting,
         Uncounted, NoLatch
    <2>2. at'["j0"] = "store_t1" /\ mainAt' = mainAt /\ UNCHANGED i
      BY <1>4 DEF Now, IInv, TypeOK, Players
    <2>3. H!Pass
      BY <1>4, <2>1, <2>2 DEF Now, H!Pass, HandoffPhase
    <2>4. QED
      BY <2>3 DEF H!Next
  <1>5. CASE \/ MainClearStart \/ MainSpawn0 \/ MainSpawn1 \/ MainWaitLatch
             \/ MainT0 \/ MainNotifyStart \/ MainWaitT1 \/ MainStorePlatform
             \/ MainDestroyLatch \/ \E p \in Players : MainJoin(p)
    <2>1. /\ UNCHANGED i
          /\ mainAt' \in Playing <=> mainAt \in Playing
          /\ mainAt' \in Over <=> mainAt \in Over
          /\ mainAt \in Playing => UNCHANGED at
      BY <1>5 DEF MainClearStart, MainSpawn0, MainSpawn1, MainWaitLatch,
         MainT0, MainNotifyStart, MainWaitT1, MainStorePlatform,
         MainDestroyLatch, MainJoin
    <2>2. QED
      BY <2>1, PhaseKept
  <1>6. ASSUME NEW p \in Players, PlayerStep(p) PROVE [H!Next]_H!vars
    <2>1. UNCHANGED <<i, mainAt>>
      BY <1>6 DEF PlayerStep, Pin, CountDown, NotifyLatch, WaitStart,
         WaitPlatform, Store, Notify, Now, StoreT1, NotifyT1
    <2>2. CASE p = "j1"
      <3>1. UNCHANGED at["j0"]
        BY <1>6, <2>2 DEF PlayerStep, Pin, CountDown, NotifyLatch, WaitStart,
           WaitPlatform, Store, Notify, Now, StoreT1, NotifyT1, IInv, TypeOK,
           Players
      <3>2. QED
        BY <2>1, <3>1, PhaseKept
    <2>3. CASE p = "j0" /\ ~Now(p)
      <3>1. at'["j0"] \in {"store_t1", "notify_t1", "exited"}
              <=> at["j0"] \in {"store_t1", "notify_t1", "exited"}
        BY <1>6, <2>3 DEF PlayerStep, Pin, CountDown, NotifyLatch, WaitStart,
           WaitPlatform, Store, Notify, StoreT1, NotifyT1, IInv, TypeOK,
           Players
      <3>2. QED
        BY <2>1, <3>1, PhaseKept
    <2>4. QED
      BY <1>4, <2>2, <2>3 DEF Players
  <1>7. CASE Spurious \/ Terminating \/ UNCHANGED vars
    <2>1. UNCHANGED <<i, mainAt, at>>
      BY <1>7 DEF Spurious, Terminating, vars
    <2>2. QED
      BY <2>1, PhaseKept
  <1>8. QED
    BY <1>1, <1>2, <1>3, <1>5, <1>6, <1>7 DEF Next, MainStep

\* Calls are started, played to the end, collected and recorded in this order,
\* and no more often than Calls times; that they all are is left to the runs.
THEOREM CallsAreHandoffs == Spec => H!Safety
  <1>1. Init => H!Init
    BY DEF Init, H!Init, HandoffPhase
  <1>2. IInv /\ IInv' /\ [Next]_vars => [H!Next]_H!vars
    BY StepImplements
  <1>3. Spec => []IInv
    BY Invariance
  <1>4. QED
    BY <1>1, <1>2, <1>3, PTL DEF Spec, H!Safety
=============================================================================
