------------------------------ MODULE Spinlocks ------------------------------
(***************************************************************************)
(* The two spinlocks of spinlock_latency.cpp, used by any number of        *)
(* threads.  The latency benchmark hands atomic_flag_spinlock from one     *)
(* thread to another (module LatencyRound); here each thread locks and     *)
(* unlocks for itself.  Which of the two classes is in use is a variable   *)
(* that Init chooses.                                                      *)
(*                                                                         *)
(* A step is one access to the lock's only member.  An iteration of a loop *)
(* that reads the lock as taken and stays in the loop changes nothing and  *)
(* is left out.                                                            *)
(***************************************************************************)
CONSTANTS Threads, nobody

ASSUME NobodyAssumption == nobody \notin Threads

VARIABLES kind,     \* the class in use
          at,       \* next step of each thread
          m_lock    \* m_lock of atomic_flag_spinlock, lock_ of tas_lock

vars == <<kind, at, m_lock>>

Kinds == {"atomic_flag_spinlock", "tas_lock"}

\* Mutant: each class runs the other one's loops.
EntrySwapped == IF kind = "tas_lock" THEN "test" ELSE "exchange"

\* The first step of lock().
Entry == IF kind = "tas_lock" THEN "exchange" ELSE "test"

Init ==
    /\ kind \in Kinds
    /\ at = [t \in Threads |-> "outside"]
    /\ m_lock = FALSE

Goes(t, from, to) ==
    /\ at[t] = from
    /\ at' = [at EXCEPT ![t] = to]
    /\ UNCHANGED kind

\* A thread calls lock().
Call(t) ==
    /\ Goes(t, "outside", Entry)
    /\ UNCHANGED m_lock

\* atomic_flag_spinlock::lock(): the loop that only reads
Test(t) ==
    /\ ~m_lock
    /\ Goes(t, "test", "test_and_set")
    /\ UNCHANGED m_lock

\* Mutant: the flag is set without a look at its old value.
SetUntested(t) ==
    /\ Goes(t, "test_and_set", "inside")
    /\ m_lock' = TRUE

\* ... and the loop that takes the flag: only who finds it clear has set it
TestAndSet(t) ==
    /\ ~m_lock
    /\ Goes(t, "test_and_set", "inside")
    /\ m_lock' = TRUE

\* Mutant: after the wait the lock is assumed to be free.
EnterAfterLoad(t) ==
    /\ ~m_lock
    /\ Goes(t, "load", "inside")
    /\ UNCHANGED m_lock

\* tas_lock::lock(): the exchange ...
Exchange(t) ==
    /\ Goes(t, "exchange", IF m_lock THEN "load" ELSE "inside")
    /\ m_lock' = TRUE

\* ... and the loop that waits before the next attempt
Load(t) ==
    /\ ~m_lock
    /\ Goes(t, "load", "exchange")
    /\ UNCHANGED m_lock

\* Mutant: unlock() only notifies.
ClearForgotten(t) ==
    /\ Goes(t, "inside", "notify")
    /\ UNCHANGED m_lock

\* unlock(): clear() or store(false) ...
Clear(t) ==
    /\ Goes(t, "inside", "notify")
    /\ m_lock' = FALSE

\* ... and notify_one(), which wakes nobody: no thread waits on the atomic
Notify(t) ==
    /\ Goes(t, "notify", "outside")
    /\ UNCHANGED m_lock

\* The steps of lock() and unlock().
Locking(t) == Test(t) \/ TestAndSet(t) \/ Exchange(t) \/ Load(t)

Unlocking(t) == Clear(t) \/ Notify(t)

Next == \E t \in Threads : Call(t) \/ Locking(t) \/ Unlocking(t)

\* A thread inside lock() or unlock() keeps running and leaves what the lock
\* protects; it need not call lock() again.
Spec ==
    /\ Init
    /\ [][Next]_vars
    /\ \A t \in Threads : WF_vars(Locking(t)) /\ WF_vars(Unlocking(t))
-----------------------------------------------------------------------------
(* Properties *)

Steps == {"outside", "test", "test_and_set", "exchange", "load", "inside",
          "notify"}

\* The variables keep their types, and a thread runs the code of its class.
TypeOK ==
    /\ kind \in Kinds
    /\ at \in [Threads -> Steps]
    /\ m_lock \in BOOLEAN
    /\ \A t \in Threads :
         /\ kind = "tas_lock" => at[t] \notin {"test", "test_and_set"}
         /\ kind = "atomic_flag_spinlock" => at[t] \notin {"exchange", "load"}

\* No two threads are between lock() and unlock() at the same time, although
\* several may have seen the lock free before one of them took it.
MutualExclusion ==
    \A t, u \in Threads : at[t] = "inside" /\ at[u] = "inside" => t = u

\* Both classes implement a lock.  The part with fairness says that threads
\* never wait for a lock nobody holds.
Holder ==
    IF \E t \in Threads : at[t] = "inside"
    THEN CHOOSE t \in Threads : at[t] = "inside" ELSE nobody

Waiting ==
    {t \in Threads : at[t] \in {"test", "test_and_set", "exchange", "load"}}

L == INSTANCE AbstractLock WITH holder <- Holder, waiting <- Waiting

ImplementsLock == L!Spec
=============================================================================
