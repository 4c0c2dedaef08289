-------------------------- MODULE SpinlocksProofs --------------------------
(***************************************************************************)
(* Mutual exclusion of both spinlocks for every set of threads, and that   *)
(* they implement a lock.                                                  *)
(***************************************************************************)
EXTENDS Spinlocks, TLAPS

(* The inductive invariant: the lock's member says whether a thread is     *)
(* inside.  Mutual exclusion alone is not inductive, for it does not keep  *)
(* a thread that found the member clear from joining one that is inside.   *)
TakenIffInside ==
    m_lock <=> \E t \in Threads : at[t] = "inside"

IInv == TypeOK /\ MutualExclusion /\ TakenIffInside

\* Nobody is inside at first.
LEMMA InitIInv == Init => IInv
  BY DEF Init, IInv, TypeOK, MutualExclusion, TakenIffInside, Steps, Kinds

\* A step of a thread other than the ones that enter or leave does not change
\* who is inside.
LEMMA OutsideStep ==
  ASSUME IInv, NEW t \in Threads, NEW from \in Steps, NEW to \in Steps,
         Goes(t, from, to), UNCHANGED m_lock,
         from # "inside", to # "inside",
         kind = "tas_lock" => to \notin {"test", "test_and_set"},
         kind = "atomic_flag_spinlock" => to \notin {"exchange", "load"}
  PROVE  IInv'
  <1>1. TypeOK'
    BY DEF IInv, TypeOK, Goes
  <1>2. \A u \in Threads : at'[u] = "inside" <=> at[u] = "inside"
    BY DEF IInv, TypeOK, Goes
  <1>3. QED
    BY <1>1, <1>2 DEF IInv, MutualExclusion, TakenIffInside

\* A thread enters only while the member is clear, and sets it.
LEMMA EnterStep ==
  ASSUME IInv, NEW t \in Threads, NEW from \in Steps,
         Goes(t, from, "inside"), ~m_lock, m_lock' = TRUE
  PROVE  IInv'
  <1>1. TypeOK'
    BY DEF IInv, TypeOK, Goes, Steps
  <1>2. \A u \in Threads : at[u] # "inside"
    BY DEF IInv, TakenIffInside
  <1>3. \A u \in Threads : at'[u] = "inside" <=> u = t
    BY <1>2 DEF IInv, TypeOK, Goes
  <1>4. QED
    BY <1>1, <1>3 DEF IInv, MutualExclusion, TakenIffInside

\* The only thread inside leaves and clears the member.
LEMMA LeaveStep ==
  ASSUME IInv, NEW t \in Threads, Clear(t)
  PROVE  IInv'
  <1>1. TypeOK'
    BY DEF IInv, TypeOK, Clear, Goes, Steps
  <1>2. \A u \in Threads : at[u] = "inside" => u = t
    BY DEF IInv, MutualExclusion, Clear, Goes
  <1>3. \A u \in Threads : at'[u] # "inside"
    BY <1>2 DEF IInv, TypeOK, Clear, Goes
  <1>4. QED
    BY <1>1, <1>3 DEF IInv, MutualExclusion, TakenIffInside, Clear

\* Every step preserves the invariant.
LEMMA StepIInv == IInv /\ [Next]_vars => IInv'
  <1> SUFFICES ASSUME IInv, [Next]_vars PROVE IInv'
    OBVIOUS
  <1>1. CASE UNCHANGED vars
    BY <1>1 DEF vars, IInv, TypeOK, MutualExclusion, TakenIffInside
  <1>2. ASSUME NEW t \in Threads, Call(t) PROVE IInv'
    BY <1>2, OutsideStep DEF Call, Entry, Steps, IInv, TypeOK, Kinds
  <1>3. ASSUME NEW t \in Threads, Test(t) PROVE IInv'
    <2>1. kind # "tas_lock"
      BY <1>3 DEF Test, Goes, IInv, TypeOK
    <2>2. QED
      BY <1>3, <2>1, OutsideStep DEF Test, Steps
  <1>4. ASSUME NEW t \in Threads, TestAndSet(t) PROVE IInv'
    BY <1>4, EnterStep DEF TestAndSet, Steps
  <1>5. ASSUME NEW t \in Threads, Exchange(t) PROVE IInv'
    <2>1. CASE m_lock
      <3>1. kind # "atomic_flag_spinlock" /\ UNCHANGED m_lock
        BY <1>5, <2>1 DEF Exchange, Goes, IInv, TypeOK
      <3>2. QED
        BY <1>5, <2>1, <3>1, OutsideStep DEF Exchange, Steps
    <2>2. CASE ~m_lock
      BY <1>5, <2>2, EnterStep DEF Exchange, Steps
    <2>3. QED
      BY <2>1, <2>2
  <1>6. ASSUME NEW t \in Threads, Load(t) PROVE IInv'
    <2>1. kind # "atomic_flag_spinlock"
      BY <1>6 DEF Load, Goes, IInv, TypeOK
    <2>2. QED
      BY <1>6, <2>1, OutsideStep DEF Load, Steps
  <1>7. ASSUME NEW t \in Threads, Clear(t) PROVE IInv'
    BY <1>7, LeaveStep
  <1>8. ASSUME NEW t \in Threads, Notify(t) PROVE IInv'
    BY <1>8, OutsideStep DEF Notify, Steps
  <1>9. QED
    BY <1>1, <1>2, <1>3, <1>4, <1>5, <1>6, <1>7, <1>8
       DEF Next, Locking, Unlocking

THEOREM Invariance == Spec => []IInv
  BY InitIInv, StepIInv, PTL DEF Spec

\* The variables keep their types, and a thread runs the code of its class.
THEOREM TypeCorrect == Spec => []TypeOK
  BY Invariance, PTL DEF IInv

\* No two threads are inside the lock at the same time.
THEOREM Exclusive == Spec => []MutualExclusion
  BY Invariance, PTL DEF IInv
-----------------------------------------------------------------------------
(* Implementation of AbstractLock: the steps, without the fairness. *)

\* While exactly t is inside, the abstract lock is held by t.
LEMMA HolderInside ==
  ASSUME MutualExclusion, NEW t \in Threads, at[t] = "inside"
  PROVE  Holder = t
  BY DEF Holder, MutualExclusion

\* While nobody is inside, nobody holds the abstract lock.
LEMMA HolderNobody ==
  ASSUME \A t \in Threads : at[t] # "inside"
  PROVE  Holder = nobody
  BY DEF Holder

\* The initial states are initial states of the abstract lock.
LEMMA InitImplements == Init => L!Init
  BY HolderNobody DEF Init, L!Init, Waiting

\* A step that leaves everyone on their side of lock() is a stutter.
LEMMA Stutters ==
  ASSUME \A u \in Threads : at'[u] = "inside" <=> at[u] = "inside",
         Waiting' = Waiting
  PROVE  UNCHANGED L!vars
  BY DEF L!vars, Holder

\* Every step is a step of the abstract lock or a stutter.
LEMMA StepImplements == IInv /\ IInv' /\ [Next]_vars => [L!Next]_L!vars
  <1> SUFFICES ASSUME IInv, IInv', [Next]_vars PROVE [L!Next]_L!vars
    OBVIOUS
  <1> USE DEF IInv
  <1>1. CASE UNCHANGED vars
    BY <1>1 DEF vars, L!vars, Holder, Waiting
  <1>2. ASSUME NEW t \in Threads, Call(t) PROVE [L!Next]_L!vars
    <2>1. at'[t] \in {"test", "exchange"} /\ at[t] = "outside"
      BY <1>2 DEF Call, Goes, Entry, TypeOK
    <2>2. \A u \in Threads : u # t => at'[u] = at[u]
      BY <1>2 DEF Call, Goes, TypeOK
    <2>3. Holder' = Holder
      BY <2>1, <2>2 DEF Holder
    <2>4. Waiting' = Waiting \cup {t} /\ t \notin Waiting
      BY <2>1, <2>2 DEF Waiting
    <2>5. t # Holder
      <3>1. CASE \E u \in Threads : at[u] = "inside"
        BY <3>1, <2>1, HolderInside
      <3>2. CASE \A u \in Threads : at[u] # "inside"
        BY <3>2, HolderNobody, NobodyAssumption
      <3>3. QED
        BY <3>1, <3>2
    <2>6. QED
      BY <2>3, <2>4, <2>5 DEF L!Next, L!Request
  <1>3. ASSUME NEW t \in Threads, NEW from \in Steps \ {"outside", "notify"},
               from # "inside", Goes(t, from, "inside"), ~m_lock
        PROVE  [L!Next]_L!vars
    <2>1. at[t] = from /\ at'[t] = "inside"
      BY <1>3 DEF Goes, TypeOK
    <2>2. \A u \in Threads : u # t => at'[u] = at[u]
      BY <1>3 DEF Goes, TypeOK
    <2>3. Holder = nobody
      BY <1>3, HolderNobody DEF TakenIffInside
    <2>4. Holder' = t
      BY <2>1 DEF Holder, MutualExclusion
    <2>5. t \in Waiting /\ Waiting' = Waiting \ {t}
      BY <1>3, <2>1, <2>2 DEF Waiting, Steps
    <2>6. QED
      BY <2>3, <2>4, <2>5 DEF L!Next, L!Acquire
  <1>4. ASSUME NEW t \in Threads, Clear(t) PROVE [L!Next]_L!vars
    <2>1. at[t] = "inside" /\ at'[t] = "notify"
      BY <1>4 DEF Clear, Goes, TypeOK
    <2>2. \A u \in Threads : u # t => at'[u] = at[u]
      BY <1>4 DEF Clear, Goes, TypeOK
    <2>3. Holder = t
      BY <2>1, HolderInside
    <2>4. Holder' = nobody
      BY <1>4 DEF TakenIffInside, Clear, Holder
    <2>5. Waiting' = Waiting
      BY <2>1, <2>2 DEF Waiting
    <2>6. QED
      BY <2>3, <2>4, <2>5 DEF L!Next, L!Release
  <1>5. ASSUME NEW t \in Threads, NEW from \in Steps, NEW to \in Steps,
               Goes(t, from, to), from # "inside", to # "inside",
               from \in {"outside", "notify"} <=> to \in {"outside", "notify"}
        PROVE  UNCHANGED L!vars
    <2>1. at[t] = from /\ at'[t] = to
      BY <1>5 DEF Goes, TypeOK
    <2>2. \A u \in Threads : u # t => at'[u] = at[u]
      BY <1>5 DEF Goes, TypeOK
    <2>3. Waiting' = Waiting
      BY <1>5, <2>1, <2>2 DEF Waiting, Steps
    <2>4. \A u \in Threads : at'[u] = "inside" <=> at[u] = "inside"
      BY <1>5, <2>1, <2>2
    <2>5. QED
      BY <2>3, <2>4, Stutters
  <1>6. ASSUME NEW t \in Threads, Test(t) \/ Load(t) \/ Notify(t)
        PROVE  [L!Next]_L!vars
    BY <1>5, <1>6 DEF Test, Load, Notify, Steps
  <1>7. ASSUME NEW t \in Threads, TestAndSet(t) PROVE [L!Next]_L!vars
    BY <1>3, <1>7 DEF TestAndSet, Steps
  <1>8. ASSUME NEW t \in Threads, Exchange(t) PROVE [L!Next]_L!vars
    <2>1. CASE m_lock
      BY <1>5, <1>8, <2>1 DEF Exchange, Steps
    <2>2. CASE ~m_lock
      BY <1>3, <1>8, <2>2 DEF Exchange, Steps
    <2>3. QED
      BY <2>1, <2>2
  <1>9. QED
    BY <1>1, <1>2, <1>4, <1>6, <1>7, <1>8 DEF Next, Locking, Unlocking

\* Both classes behave like a lock: whoever gets it found it free, and only
\* the holder gives it up.
THEOREM SpinlocksAreLocks == Spec => L!Safety
  <1>1. Init => L!Init
    BY InitImplements
  <1>2. IInv /\ IInv' /\ [Next]_vars => [L!Next]_L!vars
    BY StepImplements
  <1>3. Spec => []IInv
    BY Invariance
  <1>4. QED
    BY <1>1, <1>2, <1>3, PTL DEF Spec, L!Safety
=============================================================================
