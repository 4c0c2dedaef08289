--------------------------- MODULE MCEscapeSizes ---------------------------
(* Values of one, two and three digits, and those next to another digit. *)
EXTENDS EscapeSizes
=============================================================================
