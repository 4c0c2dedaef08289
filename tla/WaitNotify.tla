----------------------------- MODULE WaitNotify -----------------------------
(***************************************************************************)
(* The blocking protocol of std::atomic<T>::wait, notify_one and           *)
(* notify_all, as every benchmark uses it.  The standard library is not    *)
(* part of the repository; the contract modelled is the one readme.md:94   *)
(* describes: wait() ends up in WaitOnAddress(), which compares the value  *)
(* and goes to sleep as one step and may wake up spuriously, while wait()  *)
(* itself returns only after it has read a value different from the old    *)
(* one.  Nothing wakes a sleeping thread but a notification or a spurious  *)
(* wake-up: a changed value alone does not.                                *)
(***************************************************************************)
CONSTANTS Threads,   \* the threads of the component
          Atomics    \* the atomic objects they wait on

VARIABLE parked      \* the atomic each thread sleeps on, or Awake

Awake == "awake"

WaitTypeOK == parked \in [Threads -> Atomics \cup {Awake}]

AllAwake == [t \in Threads |-> Awake]

IsAwake(t) == parked[t] = Awake

Sleepers(a) == {t \in Threads : parked[t] = a}

\* wait() reads a value that differs from the old one: it returns.
WaitReturns(t, differs) ==
    /\ IsAwake(t)
    /\ differs
    /\ UNCHANGED parked

\* wait() reads the old value: compare and go to sleep are one step.
WaitBlocks(t, a, differs) ==
    /\ IsAwake(t)
    /\ ~differs
    /\ parked' = [parked EXCEPT ![t] = a]

\* One sleeper of a wakes up, whichever the system picks.
NotifyOne(a) ==
    \/ /\ Sleepers(a) = {}
       /\ UNCHANGED parked
    \/ \E t \in Sleepers(a) : parked' = [parked EXCEPT ![t] = Awake]

NotifyAll(a) ==
    parked' = [t \in Threads |-> IF parked[t] = a THEN Awake ELSE parked[t]]

\* WaitOnAddress() returns although nobody notified; wait() reads again.
SpuriousWake(t) ==
    /\ ~IsAwake(t)
    /\ parked' = [parked EXCEPT ![t] = Awake]
=============================================================================
