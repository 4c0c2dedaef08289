--------------------------- MODULE MCGridReporter ---------------------------
(* Machines with up to three cores; three leave exactly one spare core, and  *)
(* their grid just fits the first window and is too tall for the other.      *)
EXTENDS GridReporter

MCWindows == {<<4, 6>>, <<3, 6>>}
=============================================================================
