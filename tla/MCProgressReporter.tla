------------------------- MODULE MCProgressReporter -------------------------
(* A few samples per benchmark, on machines without and with contention and  *)
(* on a console that scrolls.                                                *)
EXTENDS ProgressReporter

MCWindows == {<<3, 8>>, <<1, 9>>}
MCDescriptionSize ==
    [b \in Range(MainOrder) |-> IF b \in Contenders THEN 1 ELSE 2]
=============================================================================
