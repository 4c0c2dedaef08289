------------------------------- MODULE Screen -------------------------------
(***************************************************************************)
(* oof::screen: cells a program writes into, and get_string(), which       *)
(* returns the sequences that bring the console from the last frame to     *)
(* this one.  A frame repeats nothing: cells that have not changed are     *)
(* skipped, formatting is sent when it differs from that of the letter     *)
(* before, and the cursor is moved only where it would not be already.     *)
(*                                                                         *)
(* The string is displayed at once, on the console of module Terminal.     *)
(***************************************************************************)
EXTENDS EscapeSequences, Terminal, FiniteSets

CONSTANTS Cells,              \* what the program puts into a cell
          Texts,              \* strings it passes to write_into()
          Backgrounds,        \* cells it makes screens with
          Sizes,              \* <<width, height>> of the screens made
          Origins,            \* <<column, line>> of their first cell
          Lines, Columns,     \* size of the console's window
          nullopt             \* the empty std::optional

\* screen() reports sizes that are not positive.
ASSUME SizesAssumption ==
    /\ Sizes \subseteq (Nat \ {0}) \X (Nat \ {0})
    /\ Origins \subseteq Nat \X Nat
    /\ Lines \in Nat \ {0} /\ Columns \in Nat \ {0}

\* struct cell_format
IsFormat(format) ==
    format = [m_underline |-> format.m_underline, m_bold |-> format.m_bold,
              m_fg_color |-> format.m_fg_color,
              m_bg_color |-> format.m_bg_color]

\* struct cell
IsCell(cell) ==
    /\ cell = [m_letter |-> cell.m_letter, m_format |-> cell.m_format]
    /\ IsFormat(cell.m_format)

\* A text written with a format is some of the cells.
ASSUME CellsAssumption ==
    /\ \A cell \in Cells : IsCell(cell)
    /\ Backgrounds \subseteq Cells
    /\ \A text \in Texts, cell \in Cells : \A k \in DOMAIN text :
         [m_letter |-> text[k], m_format |-> cell.m_format] \in Cells

VARIABLES m_width, m_height, m_origin_line, m_origin_column,
          m_background,
          m_cells,            \* by index
          m_old_cells,        \* the last frame, or NoCells before the first
          console             \* a terminal, see Terminal

layout == <<m_width, m_height, m_origin_line, m_origin_column, m_background>>
vars == <<layout, m_cells, m_old_cells, console>>

Formats == {cell.m_format : cell \in Cells}

NoCells == <<>>

Indices == 0 .. m_width * m_height - 1

\* detail::cell_pos
get_column(index) == index % m_width
get_line(index) == index \div m_width

\* screen(): the console shows something else before.
Construct(size, origin, background, before) ==
    /\ m_width = size[1]
    /\ m_height = size[2]
    /\ m_origin_column = origin[1]
    /\ m_origin_line = origin[2]
    /\ m_background = background
    /\ m_cells = [index \in Indices |-> background]
    /\ m_old_cells = NoCells
    /\ console = before

\* A console full of other output, formatted unlike anything on the screen.
Other == [m_letter |-> "?", m_format |-> DefaultFormat]

Dirty == Opened(Lines, Columns, Other, 0,
                [m_underline |-> TRUE, m_bold |-> TRUE,
                 m_fg_color |-> "other", m_bg_color |-> "other"])

Init ==
    \E size \in Sizes, origin \in Origins, background \in Backgrounds :
        Construct(size, origin, background, Dirty)
-----------------------------------------------------------------------------
(* Writing *)

is_inside(column, line) ==
    column \in 0 .. m_width - 1 /\ line \in 0 .. m_height - 1

\* get_cell() reports a position outside and returns the first cell.
CellAt(column, line) ==
    IF is_inside(column, line) THEN line * m_width + column ELSE 0

\* get_cell(column, line) = cell
SetCell(column, line, cell) ==
    /\ m_cells' = [m_cells EXCEPT ![CellAt(column, line)] = cell]
    /\ UNCHANGED <<layout, m_old_cells, console>>

\* Mutant: the text runs on into the next line.
WriteIntoUnchecked(text, column, line, format) ==
    /\ is_inside(column, line)
    /\ m_cells' = [index \in DOMAIN m_cells \cup
                             {CellAt(column, line) + Len(text) - 1} |->
                     LET k == index - CellAt(column, line) + 1
                     IN IF k \in DOMAIN text
                        THEN [m_letter |-> text[k], m_format |-> format]
                        ELSE m_cells[index]]
    /\ UNCHANGED <<layout, m_old_cells, console>>

\* write_into(): a text that reaches the last column is reported as one that
\* does not fit, and nothing is written.
WriteInto(text, column, line, format) ==
    /\ is_inside(column, line)
    /\ column + Len(text) < m_width
    /\ m_cells' = [index \in Indices |->
                     LET k == index - CellAt(column, line) + 1
                     IN IF k \in DOMAIN text
                        THEN [m_letter |-> text[k], m_format |-> format]
                        ELSE m_cells[index]]
    /\ UNCHANGED <<layout, m_old_cells, console>>

Clear ==
    /\ m_cells' = [index \in Indices |-> m_background]
    /\ UNCHANGED <<layout, m_old_cells, console>>
-----------------------------------------------------------------------------
(* Drawing *)

When(condition, sequence) == IF condition THEN <<sequence>> ELSE <<>>

\* Mutant: a line jump needs no position, the console is as wide as this.
PositionNecessaryWithoutJump(last, index) ==
    \/ last = nullopt
    \/ index # last + 1

\* is_position_sequence_necessary()
PositionNecessary(last, index) ==
    \/ last = nullopt
    \/ index # last + 1
    \/ get_line(index) # get_line(last)

\* Mutant: underlining is only ever switched on.
FormatChangesOnlyOn(from, to) ==
    LET differs(part) == from = nullopt \/ from[part] # to[part]
    IN When(differs("m_fg_color"), fg_rgb(to.m_fg_color))
       \o When(differs("m_bg_color"), bg_rgb(to.m_bg_color))
       \o When(to.m_underline, underline(to.m_underline))
       \o When(differs("m_bold"), bold(to.m_bold))

\* The sequences that change the console's formatting; at the beginning of a
\* frame it is unknown.
FormatChanges(from, to) ==
    LET differs(part) == from = nullopt \/ from[part] # to[part]
    IN When(differs("m_fg_color"), fg_rgb(to.m_fg_color))
       \o When(differs("m_bg_color"), bg_rgb(to.m_bg_color))
       \o When(differs("m_underline"), underline(to.m_underline))
       \o When(differs("m_bold"), bold(to.m_bold))

\* draw_state::write_sequence() for the cell at index
WriteSequence(state, cells, index) ==
    LET cell == cells[index]
    IN IF m_old_cells # NoCells /\ cell = m_old_cells[index] THEN state
       ELSE [m_last_written_pos |-> index,
             m_format |-> cell.m_format,
             buffer |->
               state.buffer
               \o FormatChanges(state.m_format, cell.m_format)
               \o When(PositionNecessary(state.m_last_written_pos, index),
                       position(get_line(index) + m_origin_line,
                                get_column(index) + m_origin_column))
               \o <<char(cell.m_letter)>>]

\* update_sequence_buffer(): a frame that shows cells
Frame(cells) ==
    LET start == [m_last_written_pos |-> nullopt, m_format |-> nullopt,
                  buffer |-> <<reset_formatting>>]
        state[n \in 0 .. m_width * m_height] ==
          IF n = 0 THEN start ELSE WriteSequence(state[n - 1], cells, n - 1)
    IN state[m_width * m_height].buffer

\* Mutant: the frame is not remembered.
DrawForgotten(cells) ==
    /\ console' = Display(console, Frame(cells))
    /\ m_cells' = cells
    /\ UNCHANGED <<layout, m_old_cells>>

\* get_string(), and the string is written to the console; pixel_screen
\* computes the cells first.
Draw(cells) ==
    /\ console' = Display(console, Frame(cells))
    /\ m_cells' = cells
    /\ m_old_cells' = cells
    /\ UNCHANGED layout

GetString == Draw(m_cells)
-----------------------------------------------------------------------------
Next ==
    \/ \E column \in -1 .. m_width, line \in -1 .. m_height, cell \in Cells :
           SetCell(column, line, cell)
    \/ \E text \in Texts, column \in -1 .. m_width, line \in -1 .. m_height,
          format \in Formats : WriteInto(text, column, line, format)
    \/ Clear
    \/ GetString

Spec == Init /\ [][Next]_vars
-----------------------------------------------------------------------------
(* Properties *)

\* The variables keep their types; a text never grows the screen, and the
\* cursor stays in the window.
TypeOK ==
    /\ <<m_width, m_height>> \in Sizes
    /\ m_background \in Backgrounds
    /\ m_cells \in [Indices -> Cells]
    /\ m_old_cells \in [Indices -> Cells] \cup {NoCells}
    /\ DOMAIN console.shown = Window(Lines, Columns)
    /\ console.line \in 0 .. Lines - 1
    /\ console.column \in 0 .. Columns

\* The place of a cell on the console.
PlaceOf(index) ==
    <<get_line(index) + m_origin_line, get_column(index) + m_origin_column>>

\* However few sequences the frames have sent, the console shows the last
\* frame, every cell with its letter and its formatting, and around it what
\* it showed before.
ConsoleShowsLastFrame ==
    m_old_cells # NoCells =>
        /\ \A index \in Indices :
             console.shown[PlaceOf(index)] = m_old_cells[index]
        /\ \A p \in DOMAIN console.shown
                 \ {PlaceOf(index) : index \in Indices} :
             console.shown[p] = Other

\* A frame has as many letters as there are cells the console does not show
\* yet; since it shows all of them afterwards (ConsoleShowsLastFrame), these
\* are the cells it writes.  A frame without changes is the reset alone.
OnlyChangesAreDrawn ==
    LET frame == Frame(m_cells)
        drawn == {k \in DOMAIN frame : frame[k].kind = "char"}
        stale == {index \in Indices :
                    console.shown[PlaceOf(index)] # m_cells[index]}
    IN /\ Cardinality(drawn) = Cardinality(stale)
       /\ stale = {} => frame = <<reset_formatting>>
=============================================================================
