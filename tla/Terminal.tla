------------------------------ MODULE Terminal ------------------------------
(***************************************************************************)
(* The console the escape sequences of oof.h are written to: a grid of     *)
(* cells, a cursor and the current formatting.  It is not part of the      *)
(* repository; modelled are the sequences the repository's code sends, as  *)
(* a virtual terminal documents them.  Cursor moves stop at the edge of    *)
(* the window, and a move by 0 is a move by 1.  After a letter in the last *)
(* column the cursor stays there until the next letter.                    *)
(***************************************************************************)
EXTENDS Integers, Sequences

\* The places of a window, which has a first and a last line and column.
Window(lines, columns) == (0 .. lines - 1) \X (0 .. columns - 1)

DefaultFormat == [m_underline |-> FALSE, m_bold |-> FALSE,
                  m_fg_color |-> "default", m_bg_color |-> "default"]

Blank == [m_letter |-> " ", m_format |-> DefaultFormat]

AtMost(n, limit) == IF n > limit THEN limit ELSE n
AtLeast(n, limit) == IF n < limit THEN limit ELSE n

\* A terminal t is [lines, columns, shown, line, column, format, visible].  In
\* column t.columns the cursor waits to wrap; every move but a letter starts at
\* the last column.
CursorColumn(t) == AtMost(t.column, t.columns - 1)

\* A window that shows cell everywhere, with the cursor at the left.
Opened(lines, columns, cell, line, format) ==
    [lines |-> lines, columns |-> columns, line |-> line, column |-> 0,
     shown |-> [p \in Window(lines, columns) |-> cell],
     format |-> format, visible |-> TRUE]

\* The beginning of the next line; the window scrolls up at its end.
NewLine(t) ==
    IF t.line < t.lines - 1
    THEN [t EXCEPT !.line = @ + 1, !.column = 0]
    ELSE [t EXCEPT !.column = 0,
                   !.shown = [p \in DOMAIN t.shown |->
                                IF p[1] = t.lines - 1 THEN Blank
                                ELSE t.shown[<<p[1] + 1, p[2]>>]]]

PutLetter(t, letter) ==
    LET w == IF t.column = t.columns THEN NewLine(t) ELSE t
    IN [w EXCEPT !.shown[<<w.line, w.column>>] =
                    [m_letter |-> letter, m_format |-> w.format],
                 !.column = @ + 1]

MoveTo(t, line, column) ==
    [t EXCEPT !.line = AtMost(AtLeast(line, 0), t.lines - 1),
              !.column = AtMost(AtLeast(column, 0), t.columns - 1)]

\* What the console does with one sequence.
Apply(t, s) ==
    CASE s.kind = "char" -> PutLetter(t, s.m_letter)
      [] s.kind = "newline" -> NewLine(t)
      [] s.kind = "reset" -> [t EXCEPT !.format = DefaultFormat]
      [] s.kind = "fg_rgb" -> [t EXCEPT !.format.m_fg_color = s.m_color]
      [] s.kind = "bg_rgb" -> [t EXCEPT !.format.m_bg_color = s.m_color]
      [] s.kind = "underline" ->
           [t EXCEPT !.format.m_underline = s.m_underline]
      [] s.kind = "bold" -> [t EXCEPT !.format.m_bold = s.m_bold]
      [] s.kind = "cursor_visibility" -> [t EXCEPT !.visible = s.m_visibility]
      [] s.kind = "position" -> MoveTo(t, s.m_line, s.m_column)
      [] s.kind = "move_left" ->
           MoveTo(t, t.line, CursorColumn(t) - AtLeast(s.m_amount, 1))
      [] s.kind = "move_right" ->
           MoveTo(t, t.line, CursorColumn(t) + AtLeast(s.m_amount, 1))
      [] s.kind = "move_up" ->
           MoveTo(t, t.line - AtLeast(s.m_amount, 1), CursorColumn(t))
      [] s.kind = "move_down" ->
           MoveTo(t, t.line + AtLeast(s.m_amount, 1), CursorColumn(t))
      [] s.kind = "hposition" -> MoveTo(t, t.line, s.m_column)

\* ... and with a string of them.
Display(t, sequences) ==
    LET after[n \in 0 .. Len(sequences)] ==
          IF n = 0 THEN t ELSE Apply(after[n - 1], sequences[n])
    IN after[Len(sequences)]
=============================================================================
