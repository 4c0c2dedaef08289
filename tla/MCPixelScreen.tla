--------------------------- MODULE MCPixelScreen ---------------------------
(* Screens of up to four cells on a window larger than they are, and pixels  *)
(* that begin and end at a line's top and in its middle.                     *)
EXTENDS PixelScreen

plain == [m_underline |-> FALSE, m_bold |-> FALSE,
          m_fg_color |-> "white", m_bg_color |-> "black"]

loud == [plain EXCEPT !.m_underline = TRUE, !.m_fg_color = "red"]

MCBackgrounds == {[m_letter |-> " ", m_format |-> plain]}
MCCells == MCBackgrounds \cup [m_letter : {"x"}, m_format : {plain, loud}]
MCTexts == {<<"x">>, <<"x", "x">>}
MCSizes == {<<2, 2>>, <<3, 1>>, <<1, 3>>}
MCOrigins == {<<1, 1>>}

MCPixelSizes == {<<1, 1>>, <<1, 2>>, <<1, 3>>, <<2, 1>>}
MCPixelOrigins == {<<1, 2>>, <<1, 3>>}
MCOverrides == {[m_letter |-> "o", m_format |-> DefaultFormat]}
=============================================================================
