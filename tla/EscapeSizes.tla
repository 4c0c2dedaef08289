---------------------------- MODULE EscapeSizes ----------------------------
(***************************************************************************)
(* A vector of sequences, filled one by one, as get_string_reserve_size()  *)
(* and get_string_from_sequences() get it.                                 *)
(***************************************************************************)
EXTENDS EscapeSequences

CONSTANTS Values,       \* lines, columns, amounts, indices and components
          MaxLength     \* bound on the length of the vector

VARIABLE sequences

Colors == [red : Values, green : Values, blue : Values]

\* Every sequence the functions of oof.h return for these values.
Candidates ==
    UNION {{position(n, m) : n, m \in Values},
           {vposition(n) : n \in Values},
           {hposition(n) : n \in Values},
           {move(kind, n) : kind \in Moves, n \in Values},
           {fg_rgb(c) : c \in Colors},
           {bg_rgb(c) : c \in Colors},
           {fg_index(n) : n \in Values},
           {bg_index(n) : n \in Values},
           {set_index_color(n, c) : n \in Values, c \in Colors},
           {underline(on) : on \in BOOLEAN},
           {bold(on) : on \in BOOLEAN},
           {cursor_visibility(on) : on \in BOOLEAN},
           {reset_formatting, clear_screen, char("x")}}

Init == sequences = <<>>

Push ==
    /\ Len(sequences) < MaxLength
    /\ \E s \in Candidates : sequences' = Append(sequences, s)

Spec == Init /\ [][Push]_sequences
-----------------------------------------------------------------------------
\* What oof.h says of get_string_reserve_size(): it returns the exact size of
\* the string.
SizeIsExact == get_string_reserve_size(sequences) = WrittenLength(sequences)
=============================================================================
