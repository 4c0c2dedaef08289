---------------------------- MODULE MCSpinlocks ----------------------------
(* Four threads and either class. *)
EXTENDS Spinlocks
=============================================================================
