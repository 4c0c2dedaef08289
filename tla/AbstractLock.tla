---------------------------- MODULE AbstractLock ----------------------------
(***************************************************************************)
(* What a lock promises its threads: at most one of them holds it, and     *)
(* while some wait and nobody holds it, one of them gets it.  It does not  *)
(* promise which: neither spinlock of the repository is fair.              *)
(***************************************************************************)
CONSTANTS Threads, nobody

VARIABLES holder,    \* the thread that holds the lock, or nobody
          waiting    \* the threads inside lock()

vars == <<holder, waiting>>

Init ==
    /\ holder = nobody
    /\ waiting = {}

Request(t) ==
    /\ t \notin waiting
    /\ t # holder
    /\ waiting' = waiting \cup {t}
    /\ UNCHANGED holder

Acquire(t) ==
    /\ holder = nobody
    /\ t \in waiting
    /\ holder' = t
    /\ waiting' = waiting \ {t}

Release(t) ==
    /\ holder = t
    /\ holder' = nobody
    /\ UNCHANGED waiting

AcquireByAnyone == \E t \in Threads : Acquire(t)

ReleaseByHolder == \E t \in Threads : Release(t)

Next == \E t \in Threads : Request(t) \/ Acquire(t) \/ Release(t)

Safety == Init /\ [][Next]_vars

Spec == Safety /\ WF_vars(AcquireByAnyone) /\ WF_vars(ReleaseByHolder)
=============================================================================
