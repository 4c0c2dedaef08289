------------------------------ MODULE MCPlots ------------------------------
(* Up to two benchmarks with a few samples each, some of them alike; three   *)
(* quarters instead of 99 % of so few are not all of them.                   *)
EXTENDS Plots
=============================================================================
