---------------------------- MODULE MCContention ----------------------------
(* Every contention benchmark on machines with up to three worker threads. *)
EXTENDS Contention
=============================================================================
