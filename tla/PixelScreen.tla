----------------------------- MODULE PixelScreen -----------------------------
(***************************************************************************)
(* oof::pixel_screen: two pixels, one above the other, are one cell of a   *)
(* screen that shows the upper half block; its foreground color is the     *)
(* upper pixel and its background color the lower one.  The pixels may     *)
(* begin or end in the middle of a line: the halves around them have the   *)
(* fill color.                                                             *)
(*                                                                         *)
(* The screen, its frames and the console are those of module Screen; a    *)
(* program may also use such a screen without pixels.                      *)
(***************************************************************************)
EXTENDS Screen

CONSTANTS Colors,          \* colors of a pixel
          PixelSizes,      \* <<width, halfline_height>> of the screens made
          PixelOrigins,    \* <<column, halfline>> of their first pixel
          Overrides        \* cells the program writes with get_screen_ref()

ASSUME PixelSizesAssumption ==
    /\ PixelSizes \subseteq (Nat \ {0}) \X (Nat \ {0})
    /\ PixelOrigins \subseteq Nat \X Nat

ASSUME OverridesAssumption == \A cell \in Overrides : IsCell(cell)

VARIABLES m_pixels,        \* by index
          m_fill_color, m_halfline_height, m_origin_halfline

pixelLayout == <<m_fill_color, m_halfline_height, m_origin_halfline>>
pixelVars == <<vars, m_pixels, pixelLayout>>

HalfBlock == "half block"

\* get_pixel_background()
PixelBackground(color) ==
    [m_letter |-> HalfBlock,
     m_format |-> [m_underline |-> FALSE, m_bold |-> FALSE,
                   m_fg_color |-> color, m_bg_color |-> color]]

\* Mutant: half as many lines as halflines, wherever they begin.
LineHeightOfHalflines(origin, halfline_height) == (halfline_height + 1) \div 2

\* get_line_height()
LineHeight(origin, halfline_height) ==
    LET first_line == origin \div 2
        last_line == (origin - 1 + halfline_height) \div 2
    IN last_line - first_line + 1

NoPixels == <<>>

\* screen(), without pixels
PlainInit ==
    /\ Init
    /\ m_pixels = NoPixels
    /\ m_fill_color = "none"
    /\ m_halfline_height = 0
    /\ m_origin_halfline = 0

\* pixel_screen()
PixelInit ==
    \E size \in PixelSizes, origin \in PixelOrigins, color \in Colors :
        /\ m_fill_color = color
        /\ m_halfline_height = size[2]
        /\ m_origin_halfline = origin[2]
        /\ m_pixels = [index \in 0 .. size[1] * size[2] - 1 |-> color]
        /\ Construct(<<size[1], LineHeight(origin[2], size[2])>>,
                     <<origin[1], origin[2] \div 2>>,
                     PixelBackground(color), Dirty)

\* get_color(column, halfline) = color
SetPixel(column, halfline, color) ==
    /\ m_pixels' = [m_pixels EXCEPT ![halfline * m_width + column] = color]
    /\ UNCHANGED <<vars, pixelLayout>>

ClearPixels ==
    /\ m_pixels' = [index \in DOMAIN m_pixels |-> m_fill_color]
    /\ UNCHANGED <<vars, pixelLayout>>

\* get_screen_ref().get_cell(column, line) = cell
Override(column, line, cell) ==
    /\ SetCell(column, line, cell)
    /\ UNCHANGED <<m_pixels, pixelLayout>>

\* The color of a halfline relative to the first pixel; -1 may be shown.
HalfColor(column, halfline) ==
    LET index == halfline * m_width + column
    IN IF index \in DOMAIN m_pixels THEN m_pixels[index] ELSE m_fill_color

\* Mutant: the pixels are taken to begin with a line.
TopHalflineAligned(line) == 2 * line

\* The halfline at the top of a line of the screen.
TopHalfline(line) == 2 * line - (m_origin_halfline % 2)

\* compute_result(): colors only, so that overridden letters stay
ComputedCells ==
    [index \in Indices |->
       LET column == get_column(index)
           top == TopHalfline(get_line(index))
       IN [m_cells[index] EXCEPT
             !.m_format.m_fg_color = HalfColor(column, top),
             !.m_format.m_bg_color = HalfColor(column, top + 1)]]

GetPixelString ==
    /\ Draw(ComputedCells)
    /\ UNCHANGED <<m_pixels, pixelLayout>>

PlainNext ==
    /\ m_pixels = NoPixels
    /\ Next
    /\ UNCHANGED <<m_pixels, pixelLayout>>

PixelNext ==
    /\ m_pixels # NoPixels
    /\ \/ \E column \in 0 .. m_width - 1,
             halfline \in 0 .. m_halfline_height - 1,
             color \in Colors : SetPixel(column, halfline, color)
       \/ ClearPixels
       \/ \E column \in 0 .. m_width - 1, line \in 0 .. m_height - 1,
             cell \in Overrides : Override(column, line, cell)
       \/ GetPixelString

PixelSpec ==
    (PlainInit \/ PixelInit) /\ [][PlainNext \/ PixelNext]_pixelVars
-----------------------------------------------------------------------------
(* Properties *)

\* The halflines of the console the pixels lie on.
PixelHalflines ==
    m_origin_halfline .. m_origin_halfline + m_halfline_height - 1

\* The variables keep their types; a text never grows a screen, and a screen of
\* pixels has the lines the pixels lie on, no more and no fewer.
PixelTypeOK ==
    IF m_pixels = NoPixels THEN TypeOK
    ELSE /\ m_fill_color \in Colors
         /\ m_pixels \in [0 .. m_width * m_halfline_height - 1 -> Colors]
         /\ DOMAIN m_cells = Indices
         /\ m_origin_line .. m_origin_line + m_height - 1
              = {halfline \div 2 : halfline \in PixelHalflines}

\* Every pixel is shown in the half of the console's cell it lies on, also
\* when the pixels begin or end in the middle of a line, and the other halves
\* of these cells have the fill color.
PixelsShown ==
    \A column \in 0 .. m_width - 1,
       halfline \in 2 * m_origin_line .. 2 * (m_origin_line + m_height) - 1 :
        LET format == console.shown[<<halfline \div 2,
                                      m_origin_column + column>>].m_format
            row == halfline - m_origin_halfline
            shown == IF halfline % 2 = 0 THEN format.m_fg_color
                     ELSE format.m_bg_color
        IN shown = IF halfline \in PixelHalflines
                   THEN m_pixels[row * m_width + column] ELSE m_fill_color

\* ... after every frame, however the screen was overridden before it.
FramesShowPixels ==
    [][m_pixels # NoPixels /\ GetPixelString => PixelsShown']_pixelVars
=============================================================================
