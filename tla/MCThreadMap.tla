---------------------------- MODULE MCThreadMap ----------------------------
(* The map alone, for the core main may be moved to. *)
EXTENDS ThreadMap
=============================================================================
