------------------------------- MODULE Handoff -------------------------------
(***************************************************************************)
(* What a latency benchmark promises, whatever primitive it measures.  One *)
(* sample is one handoff: the measuring thread lets its partner go, the    *)
(* partner gets through and takes its time stamp, the measuring thread     *)
(* collects that stamp, and only when the partner is gone is the sample    *)
(* recorded and the next handoff begun.  All Rounds samples are taken.     *)
(***************************************************************************)
EXTENDS Naturals

CONSTANT Rounds

VARIABLES phase,   \* how far the current handoff is
          taken    \* samples recorded so far

vars == <<phase, taken>>

Init ==
    /\ phase = "idle"
    /\ taken = 0

Offer ==
    /\ phase = "idle"
    /\ taken < Rounds
    /\ phase' = "offered"
    /\ UNCHANGED taken

Pass ==
    /\ phase = "offered"
    /\ phase' = "passed"
    /\ UNCHANGED taken

Collect ==
    /\ phase = "passed"
    /\ phase' = "collected"
    /\ UNCHANGED taken

Record ==
    /\ phase = "collected"
    /\ phase' = "idle"
    /\ taken' = taken + 1

Next == Offer \/ Pass \/ Collect \/ Record

Safety == Init /\ [][Next]_vars

Spec == Safety /\ WF_vars(Next)
=============================================================================
