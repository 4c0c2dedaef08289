--------------------------- MODULE EscapeSequences ---------------------------
(***************************************************************************)
(* The sequences of oof.h: how each is made, how long the string is that   *)
(* write_sequence_into_string() writes for it, and how long                *)
(* get_sequence_string_size() says it is.                                  *)
(***************************************************************************)
EXTENDS Integers, Sequences

LOCAL INSTANCE FiniteSetsExt

\* static_cast<uint8_t>
Byte(n) == n % 256

position(line, column) ==
    [kind |-> "position", m_line |-> Byte(line), m_column |-> Byte(column)]

vposition(line) == [kind |-> "vposition", m_line |-> Byte(line)]

hposition(column) == [kind |-> "hposition", m_column |-> Byte(column)]

Moves == {"move_left", "move_right", "move_up", "move_down"}

move(kind, amount) == [kind |-> kind, m_amount |-> Byte(amount)]

fg_rgb(color) == [kind |-> "fg_rgb", m_color |-> color]

bg_rgb(color) == [kind |-> "bg_rgb", m_color |-> color]

\* Indices outside 1 .. 255 are reported and replaced by 1.
ColorIndex(index) == IF index \in 1 .. 255 THEN index ELSE 1

fg_index(index) == [kind |-> "fg_index", m_index |-> ColorIndex(index)]

bg_index(index) == [kind |-> "bg_index", m_index |-> ColorIndex(index)]

set_index_color(index, color) ==
    [kind |-> "set_index_color", m_index |-> ColorIndex(index),
     m_color |-> color]

underline(on) == [kind |-> "underline", m_underline |-> on]

bold(on) == [kind |-> "bold", m_bold |-> on]

cursor_visibility(on) == [kind |-> "cursor_visibility", m_visibility |-> on]

reset_formatting == [kind |-> "reset"]

clear_screen == [kind |-> "clear_screen"]

char(letter) == [kind |-> "char", m_letter |-> letter]
-----------------------------------------------------------------------------
(* The strings *)

\* How many digits get_int_param_str_length() counts, and
\* write_int_to_string() writes, for a number below 1000.
Digits(n) == IF n < 10 THEN 1 ELSE IF n < 100 THEN 2 ELSE 3

Components(color) == <<color.red, color.green, color.blue>>

SumOver(numbers, Op(_)) ==
    MapThenSumSet(LAMBDA k : Op(numbers[k]), DOMAIN numbers)

\* The numbers between the introducer of a sequence and its final letter.
Numbers(s) ==
    CASE s.kind = "fg_rgb" -> <<38, 2>> \o Components(s.m_color)
      [] s.kind = "bg_rgb" -> <<48, 2>> \o Components(s.m_color)
      [] s.kind = "fg_index" -> <<38, 5, s.m_index>>
      [] s.kind = "bg_index" -> <<48, 5, s.m_index>>
      [] s.kind = "set_index_color" -> <<4, s.m_index>>
      [] s.kind = "underline" -> <<IF s.m_underline THEN 4 ELSE 24>>
      [] s.kind = "bold" -> <<IF s.m_bold THEN 1 ELSE 22>>
      [] s.kind = "cursor_visibility" -> <<25>>
      [] s.kind = "position" -> <<s.m_line + 1, s.m_column + 1>>
      [] s.kind = "vposition" -> <<s.m_line + 1>>
      [] s.kind = "hposition" -> <<s.m_column + 1>>
      [] s.kind \in Moves -> <<s.m_amount>>
      [] s.kind = "reset" -> <<0>>
      [] s.kind = "clear_screen" -> <<2>>

\* Numbers with a semicolon between each two.
WrittenNumbers(s) ==
    SumOver(Numbers(s), Digits) + Len(Numbers(s)) - 1

\* get_index_color_seq_str(): ";rgb:", three hexadecimal numbers, <ST>
IndexColorTail(color) ==
    LET hex(component) == IF component > 15 THEN 2 ELSE 1
    IN 5 + SumOver(Components(color), hex) + 2 + 2

\* The length of what write_sequence_into_string() appends.
WrittenSize(s) ==
    IF s.kind = "char" THEN 1
    ELSE 2 + WrittenNumbers(s)
           + (IF s.kind = "set_index_color" THEN IndexColorTail(s.m_color)
              ELSE IF s.kind = "cursor_visibility" THEN 2 ELSE 1)

\* What get_sequence_string_size() returns.
get_sequence_string_size(s) ==
    CASE s.kind = "char" -> 1
      [] s.kind = "set_index_color" ->
           LET component_size(c) == IF c < 15 THEN 2 ELSE 1
           IN 4 + Digits(s.m_index) + 4
                + SumOver(Components(s.m_color), component_size) + 2 + 2
      [] s.kind \in {"fg_rgb", "bg_rgb"} ->
           4 + 3 + SumOver(Components(s.m_color), Digits) + 3
      [] s.kind = "underline" -> (IF s.m_underline THEN 1 ELSE 2) + 3
      [] s.kind = "bold" -> (IF s.m_bold THEN 1 ELSE 2) + 3
      [] s.kind = "position" ->
           Digits(s.m_line) + 1 + Digits(s.m_column) + 3
      [] s.kind = "vposition" -> Digits(s.m_line) + 3
      [] s.kind = "hposition" -> Digits(s.m_column) + 3
      [] s.kind \in {"reset", "clear_screen"} -> 1 + 3
      [] s.kind = "cursor_visibility" -> 3 + 3
      [] s.kind \in Moves -> Digits(s.m_amount) + 3
      [] s.kind = "fg_index" -> 5 + Digits(s.m_index) + 3
      [] s.kind = "bg_index" -> 3

get_string_reserve_size(sequences) ==
    SumOver(sequences, get_sequence_string_size)

WrittenLength(sequences) == SumOver(sequences, WrittenSize)
=============================================================================
