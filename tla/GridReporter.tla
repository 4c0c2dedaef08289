---------------------------- MODULE GridReporter ----------------------------
(***************************************************************************)
(* map_threads() with its grid_reporter: each step of ThreadMap together   *)
(* with what it sends to the console of module Terminal.                   *)
(*                                                                         *)
(* The reporter never positions the cursor.  Every write moves right and   *)
(* down from the top left corner of the grid and back again, so each       *)
(* depends on the cursor having been left in place by the one before.      *)
(***************************************************************************)
EXTENDS ThreadMap, EscapeSequences, Terminal

CONSTANT Windows   \* sizes of the console, <<lines, columns>>

ASSUME WindowsAssumption == Windows \subseteq (Nat \ {0}) \X (Nat \ {0})

VARIABLES console,   \* a terminal, see Terminal
          start      \* the line the cursor is in before

consoleVars == <<vars, console, start>>

RedLetters == [red |-> 255, green |-> 100, blue |-> 100]
YellowLetters == [red |-> 255, green |-> 255, blue |-> 100]
GreenLetters == [red |-> 100, green |-> 255, blue |-> 100]

newline == [kind |-> "newline"]

\* n times the same sequence
Repeat(sequence, n) ==
    LET length == Len(sequence)
    IN [k \in 1 .. n * length |-> sequence[((k - 1) % length) + 1]]

\* The m_core_count rows of a new grid.
Rows ==
    LET row == Repeat(<<char("-"), char(" ")>>, core_count) \o <<newline>>
    IN Repeat(row, core_count)

\* Mutant: the cursor is left below the grid.
grid_reporter_below ==
    <<cursor_visibility(FALSE), fg_rgb(RedLetters)>> \o Rows
    \o <<reset_formatting>>

\* grid_reporter()
grid_reporter ==
    <<cursor_visibility(FALSE), fg_rgb(RedLetters)>> \o Rows
    \o <<move("move_up", core_count), reset_formatting>>

\* Mutant: the letter itself is not counted on the way back.
relative_write_drifts(right, down, letter) ==
    (IF right > 0 THEN <<move("move_right", right)>> ELSE <<>>)
    \o (IF down > 0 THEN <<move("move_down", down)>> ELSE <<>>)
    \o <<char(letter), move("move_left", right)>>
    \o (IF down > 0 THEN <<move("move_up", down)>> ELSE <<>>)

\* relative_write() of a single letter
relative_write(right, down, letter) ==
    (IF right > 0 THEN <<move("move_right", right)>> ELSE <<>>)
    \o (IF down > 0 THEN <<move("move_down", down)>> ELSE <<>>)
    \o <<char(letter), move("move_left", right + 1)>>
    \o (IF down > 0 THEN <<move("move_up", down)>> ELSE <<>>)

\* Both cells of a pair of cores, in one color.
MarkCores(core_a, core_b, color) ==
    <<fg_rgb(color)>>
    \o relative_write(2 * core_a, core_b, "X")
    \o relative_write(2 * core_b, core_a, "X")
    \o <<reset_formatting>>

mark_cores_as_inprogress(core_a, core_b) ==
    MarkCores(core_a, core_b, YellowLetters)

mark_cores_as_done(core_a, core_b) == MarkCores(core_a, core_b, GreenLetters)

\* ~grid_reporter(): the cursor stays hidden.
grid_reporter_destructor == <<move("move_down", core_count)>>
-----------------------------------------------------------------------------
\* The console is empty, the cursor in any line of it.
ConsoleInit ==
    /\ Init
    /\ \E size \in Windows :
           /\ start \in 0 .. size[1] - 1
           /\ console = Opened(size[1], size[2], Blank, start, DefaultFormat)

Send(sequences) ==
    /\ console' = LET sent == sequences IN Display(console, sent)
    /\ UNCHANGED start

\* Of "mapping:" only the end of its line matters.
PrologueOnConsole ==
    Prologue /\ Send(<<newline>> \o grid_reporter)

MarkInProgressOnConsole ==
    MarkInProgress /\ Send(mark_cores_as_inprogress(cpu_a, cpu_b))

MarkDoneOnConsole == MarkDone /\ Send(mark_cores_as_done(cpu_a, cpu_b))

\* The reporter goes out of scope with the loop; a terminated program leaves
\* the console as it is.
PublishOnConsole == Publish /\ Send(grid_reporter_destructor)

\* The steps that send nothing.
SilentStep ==
    /\ \/ TakeIndex \/ StayPut \/ MoveAway \/ Abort \/ Measure
       \/ Migrate \/ Terminating
    /\ UNCHANGED <<console, start>>

ConsoleNext ==
    \/ PrologueOnConsole \/ MarkInProgressOnConsole \/ MarkDoneOnConsole
    \/ PublishOnConsole \/ SilentStep

\* The console takes what it is sent: main is as free to run as without it.
ConsoleSpec == ConsoleInit /\ [][ConsoleNext]_consoleVars /\ WF_vars(MainStep)
-----------------------------------------------------------------------------
(* Properties *)

\* The rows of a grid that is not wider than the window.
NotTooWide == core_count > 0 /\ 2 * core_count <= console.columns

\* ... and is not taller, with a line left for the cursor below it.
Fits == NotTooWide /\ core_count < console.lines

\* The line the grid's first row is in, and of a grid that is too tall the
\* first row that is left.  The window scrolls when there is not enough room
\* below the cursor.
Top == AtLeast(AtMost(start + 1, console.lines - 1 - core_count), 0)

CellLooks(state) ==
    [m_letter |-> IF state = "-" THEN "-" ELSE "X",
     m_format |-> [DefaultFormat EXCEPT
                     !.m_fg_color = IF state = "-" THEN RedLetters
                                    ELSE IF state = "done" THEN GreenLetters
                                    ELSE YellowLetters]]

\* In a window the grid fits into, every cell on the console shows the state
\* of its pair, whatever the order of the pairs: a cursor that came back one
\* column off would shift everything that follows.
ConsoleShowsGrid ==
    Fits /\ mainAt # "read_processor" =>
        \A c \in Cells :
            console.shown[<<Top + c[2], 2 * c[1]>>] = CellLooks(grid[c])

\* Between two writes the cursor is at the top left of the grid, and after the
\* map in the line below it, where the next output goes, in the default
\* format.  This needs no room: the moves of a grid too tall for the window
\* stop at its edges, but they stop there on the way back as well.  In a
\* window with room the line for the next output is empty.
CursorReturns ==
    NotTooWide /\ mainAt # "read_processor" =>
        LET below == IF mainAt = "done" THEN core_count ELSE 0
        IN /\ console.column = 0
           /\ console.line = AtMost(Top + below, console.lines - 1)
           /\ console.format = DefaultFormat
           /\ Fits => \A column \in 0 .. console.columns - 1 :
                        console.shown[<<Top + core_count, column>>] = Blank
=============================================================================
