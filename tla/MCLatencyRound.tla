--------------------------- MODULE MCLatencyRound ---------------------------
(* Every latency benchmark, for a few rounds. *)
EXTENDS LatencyRound
=============================================================================
