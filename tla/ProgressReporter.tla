-------------------------- MODULE ProgressReporter --------------------------
(***************************************************************************)
(* main() with its progress_reporters: each step of Suite together with    *)
(* what it sends to the console of module Terminal.                        *)
(*                                                                         *)
(* Every benchmark has a line: its description, and a percentage that is   *)
(* written over the last one without clearing it.  The cursor is hidden    *)
(* while a reporter lives.                                                 *)
(***************************************************************************)
EXTENDS Suite, EscapeSequences, Terminal, TLC

CONSTANTS Windows,            \* sizes of the console, <<lines, columns>>
          DescriptionSize     \* letters of each benchmark's description

ASSUME ConsolesAssumption == Windows \subseteq (Nat \ {0}) \X (Nat \ {0})
ASSUME DescriptionsAssumption ==
    \A b \in Range(MainOrder) : DescriptionSize[b] \in Nat

VARIABLES console,   \* a terminal, see Terminal
          start      \* the line the cursor is in before

consoleVars == <<vars, console, start>>

newline == [kind |-> "newline"]

Text(letters) == [k \in DOMAIN letters |-> char(letters[k])]

\* The letters of a description are all alike, and unlike those of others.
DescriptionText(b) ==
    [k \in 1 .. DescriptionSize[b] |-> b] \o <<":">>

\* progress_reporter(), the cursor is hidden first
progress_reporter == <<cursor_visibility(FALSE)>>
                     \o Text(DescriptionText(Description(benchmark)))

\* m_progress_pos, from 1
m_progress_pos == DescriptionSize[Description(benchmark)] + 3

\* Mutant: the column is taken to be counted from 0.
get_horizontal_pos_str_from_0(pos) ==
    [kind |-> "hposition", m_column |-> pos - 3]

\* get_horizontal_pos_str(): columns are counted from 1
get_horizontal_pos_str(pos) == [kind |-> "hposition", m_column |-> pos - 1]

\* Mutant: the samples that are left are counted.
PercentLeft(progress) ==
    (200 * (n - 1 - progress) + n - 1) \div (2 * (n - 1))

\* std::round(100.0 * progress / (m_max - 1))
Percent(progress) == (200 * progress + n - 1) \div (2 * (n - 1))

\* std::to_string(int_percent) + "%"
PercentText(percent) ==
    (IF percent < 10 THEN <<percent>>
     ELSE IF percent < 100 THEN <<percent \div 10, percent % 10>>
     ELSE <<percent \div 100, (percent \div 10) % 10, percent % 10>>)
    \o <<"%">>

\* From yellow to green; such a color is named by its red component.
PercentColor(progress) == ToString((255 * (n - 1 - progress)) \div (n - 1))

\* Mutant: the formatting is not reset.
get_colored_perc_str_unreset(progress) ==
    <<fg_rgb(PercentColor(progress))>> \o Text(PercentText(Percent(progress)))

\* get_colored_perc_str()
get_colored_perc_str(progress) ==
    <<fg_rgb(PercentColor(progress))>>
    \o Text(PercentText(Percent(progress)))
    \o <<reset_formatting>>

\* What report() sends when it is due.
Shown(progress) ==
    <<get_horizontal_pos_str(m_progress_pos)>>
    \o get_colored_perc_str(progress)

\* Mutant: the cursor stays hidden, as grid_reporter leaves it.
progress_reporter_destructor_hidden == Shown(n - 1) \o <<newline>>

\* ~progress_reporter() and ~console_cursor_disabler()
progress_reporter_destructor ==
    Shown(n - 1) \o <<newline, cursor_visibility(TRUE)>>
-----------------------------------------------------------------------------
\* The console is empty, the cursor in any line of it.
ConsoleInit ==
    /\ Init
    /\ \E size \in Windows :
           /\ start \in 0 .. size[1] - 1
           /\ console = Opened(size[1], size[2], Blank, start, DefaultFormat)

Send(sequences) ==
    /\ console' = LET sent == sequences IN Display(console, sent)
    /\ UNCHANGED start

ConstructOnConsole == Construct /\ Send(progress_reporter)

ReportOnConsole == Report /\ Send(Shown(m_progress))

DestroyOnConsole == Destroy /\ Send(progress_reporter_destructor)

\* The steps that send nothing; a terminated program leaves the console as it
\* is.
SilentStep ==
    /\ \/ ReportTooSoon \/ Measure \/ Throw \/ Emplace \/ JsonWrite
       \/ Terminating
    /\ UNCHANGED <<console, start>>

ConsoleNext ==
    ConstructOnConsole \/ ReportOnConsole \/ DestroyOnConsole \/ SilentStep

\* The console takes what it is sent: main is as free to run as without it.
ConsoleSpec == ConsoleInit /\ [][ConsoleNext]_consoleVars /\ WF_vars(Step)
-----------------------------------------------------------------------------
(* Properties *)

\* The benchmarks that are over, and whether a reporter lives.
finished ==
    IF at \in {"json_write", "exited"} THEN Len(MainOrder) ELSE current - 1

reporting == at \in {"report", "measure", "emplace", "destroy", "terminated"}

\* The line of the console that a text has come to from the first one.
LineOf(b) ==
    start + b - 1
    - AtLeast(start + finished - (console.lines - 1), 0)

Looks(letters, format) ==
    [k \in DOMAIN letters |-> [m_letter |-> letters[k], m_format |-> format]]

PercentCells(progress) ==
    Looks(<<" ">>, DefaultFormat)
    \o Looks(PercentText(Percent(progress)),
             [DefaultFormat EXCEPT !.m_fg_color = PercentColor(progress)])

ShowsLine(line, cells) ==
    \A column \in 0 .. console.columns - 1 :
        console.shown[<<line, column>>] =
            IF column + 1 \in DOMAIN cells THEN cells[column + 1] ELSE Blank

\* Whatever reports are left out, and however often the window has scrolled,
\* each benchmark that is over has a line with its description and 100 %, the
\* one that runs has one with the progress last reported, and nothing of an
\* earlier percentage is left behind it.  The text after a percentage is not
\* colored by it, and the cursor is hidden only while a reporter lives.
ConsoleShowsProgress ==
    /\ \A b \in 1 .. finished :
         LineOf(b) >= 0 =>
             ShowsLine(LineOf(b),
                       Looks(DescriptionText(MainOrder[b]), DefaultFormat)
                       \o PercentCells(n - 1))
    /\ console.line = LineOf(finished + 1)
    /\ ShowsLine(console.line,
                 IF ~reporting THEN <<>>
                 ELSE Looks(DescriptionText(benchmark), DefaultFormat)
                      \o (IF reported < 0 THEN <<>>
                          ELSE PercentCells(reported)))
    /\ console.format = DefaultFormat
    /\ console.visible = ~reporting
=============================================================================
