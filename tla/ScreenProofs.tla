---------------------------- MODULE ScreenProofs ----------------------------
(***************************************************************************)
(* Proofs about the screens of oof, with and without pixels, of every size *)
(* and for every window: the types; that the console shows the last frame, *)
(* however little of it the frames have sent; that they send exactly what  *)
(* the console does not show yet; and that pixels are shown where they     *)
(* lie.                                                                    *)
(*                                                                         *)
(* A frame is a recursive function of its cells, so what the console shows *)
(* after it is proved by induction over them: after the first k the places *)
(* of these show them, every other place what it showed before, and the    *)
(* formatting and the place of the cursor are those of the last letter.    *)
(***************************************************************************)
EXTENDS TerminalProofs, PixelScreen, FiniteSetTheorems
-----------------------------------------------------------------------------
(* Lines and columns *)

\* A number of cells times a smaller number of them.
LEMMA Products ==
  ASSUME NEW w \in Nat \ {0}, NEW a \in Int, NEW b \in Int
  PROVE  /\ w * a \in Int /\ w * b \in Int
         /\ a < b => w * a + w <= w * b
         /\ w * (a + 1) = w * a + w
  <1>1. w * a \in Int /\ w * b \in Int /\ w * (a + 1) = w * a + w
    OBVIOUS
  <1>2. ASSUME a < b
        PROVE  w * a + w <= w * b
    <2>1. w * (b - (a + 1)) >= 0
      BY <1>2
    <2>2. w * (b - (a + 1)) = w * b - w * (a + 1)
      OBVIOUS
    <2>3. QED
      BY <1>1, <2>1, <2>2
  <1>3. QED
    BY <1>1, <1>2

\* An index is that of one line and one column.
LEMMA LineAndColumn ==
  ASSUME NEW w \in Nat \ {0}, NEW h \in Nat, NEW i \in 0 .. w * h - 1
  PROVE  /\ i \div w \in 0 .. h - 1
         /\ i % w \in 0 .. w - 1
         /\ i = w * (i \div w) + (i % w)
  <1> DEFINE q == i \div w
             r == i % w
  <1>1. i \in Nat /\ w * h \in Int
    OBVIOUS
  <1>2. q \in Int /\ r \in 0 .. w - 1 /\ i = w * q + r
    BY <1>1
  <1> HIDE DEF q, r
  <1>3. ASSUME q < 0
        PROVE  FALSE
    <2>1. w * q + w <= w * 0
      BY <1>2, <1>3, Products
    <2>2. QED
      BY <1>1, <1>2, <2>1
  <1>4. ASSUME q > h - 1
        PROVE  FALSE
    <2>1. q = h \/ h < q
      BY <1>2, <1>4
    <2>2. w * h <= w * q
      BY <1>2, <2>1, Products
    <2>3. w * q \in Int
      BY <1>2
    <2>4. QED
      BY <1>1, <1>2, <2>2, <2>3
  <1>5. q \in 0 .. h - 1
    BY <1>2, <1>3, <1>4
  <1>6. QED
    BY <1>2, <1>5 DEF q, r

\* ... and each line and column has an index.
LEMMA IndexOf ==
  ASSUME NEW w \in Nat \ {0}, NEW h \in Nat, NEW a \in 0 .. h - 1,
         NEW c \in 0 .. w - 1
  PROVE  /\ w * a + c \in 0 .. w * h - 1
         /\ (w * a + c) \div w = a
         /\ (w * a + c) % w = c
  <1> DEFINE i == w * a + c
             n == w * h
  <1>1. w * a \in Nat /\ w * a + w <= w * h /\ w * h \in Nat
    BY Products
  <1>2. i \in 0 .. w * h - 1
    BY <1>1
  <1>3. /\ i \div w \in 0 .. h - 1
        /\ i % w \in 0 .. w - 1
        /\ i = w * (i \div w) + (i % w)
    BY <1>2, LineAndColumn
  <1> DEFINE q == i \div w
             r == i % w
             u == w * a
             v == w * q
  <1>4. q \in Int /\ r \in 0 .. w - 1 /\ i = v + r /\ i = u + c
        /\ u \in Int /\ v \in Int
    BY <1>1, <1>3
  <1>5. (q < a => v + w <= u) /\ (a < q => u + w <= v)
    <2>1. q \in Int /\ a \in Int
      BY <1>4
    <2> HIDE DEF q
    <2>2. QED
      BY <2>1, Products
  <1> HIDE DEF i, q, r, u, v
  <1>6. q = a
    BY <1>4, <1>5
  <1>7. r = c
    BY <1>4, <1>6 DEF u, v
  <1>8. QED
    BY <1>2, <1>6, <1>7 DEF i, q, r
-----------------------------------------------------------------------------
(* The formatting of a cell *)

\* A sequence that is left out would change nothing.
LEMMA FormatPart ==
  ASSUME NEW t, NEW e, NEW u, NEW c, Apply(t, e) = u, c \/ t = u
  PROVE  IsString(When(c, e)) /\ Display(t, When(c, e)) = u
  <1>1. CASE c
    <2>1. When(c, e) = <<e>>
      BY <1>1 DEF When
    <2>2. QED
      BY <2>1, ShortStrings, DisplayOne
  <1>2. CASE ~c
    <2>1. When(c, e) = <<>>
      BY <1>2 DEF When
    <2>2. QED
      BY <1>2, <2>1, ShortStrings, DisplayNothing
  <1>3. QED
    BY <1>1, <1>2

\* After the changes the formatting is that of the cell.
LEMMA FormatChanged ==
  ASSUME NEW h, NEW w, NEW g, NEW l, NEW c, NEW f, NEW v,
         NEW from, NEW to, IsFormat(f), IsFormat(to), from = nullopt \/ from = f
  PROVE  /\ IsString(FormatChanges(from, to))
         /\ Display(Showing(h, w, g, l, c, f, v), FormatChanges(from, to)) =
              Showing(h, w, g, l, c, to, v)
  <1> DEFINE differs(part) == from = nullopt \/ from[part] # to[part]
             c1 == differs("m_fg_color")
             c2 == differs("m_bg_color")
             c3 == differs("m_underline")
             c4 == differs("m_bold")
             s1 == When(c1, fg_rgb(to.m_fg_color))
             s2 == When(c2, bg_rgb(to.m_bg_color))
             s3 == When(c3, underline(to.m_underline))
             s4 == When(c4, bold(to.m_bold))
             f1 == WithForeground(f, to.m_fg_color)
             f2 == WithBackground(f1, to.m_bg_color)
             f3 == WithUnderline(f2, to.m_underline)
             f4 == WithBold(f3, to.m_bold)
             t0 == Showing(h, w, g, l, c, f, v)
             t1 == Showing(h, w, g, l, c, f1, v)
             t2 == Showing(h, w, g, l, c, f2, v)
             t3 == Showing(h, w, g, l, c, f3, v)
             t4 == Showing(h, w, g, l, c, f4, v)
  <1>1. FormatChanges(from, to) = ((s1 \o s2) \o s3) \o s4
    BY DEF FormatChanges
  <1>2. /\ c1 \/ f.m_fg_color = to.m_fg_color
        /\ c2 \/ f.m_bg_color = to.m_bg_color
        /\ c3 \/ f.m_underline = to.m_underline
        /\ c4 \/ f.m_bold = to.m_bold
    OBVIOUS
  <1>31. f1 = [m_underline |-> f.m_underline, m_bold |-> f.m_bold,
               m_fg_color |-> to.m_fg_color, m_bg_color |-> f.m_bg_color]
    BY DEF IsFormat, WithForeground
  <1>32. f2 = [m_underline |-> f.m_underline, m_bold |-> f.m_bold,
               m_fg_color |-> to.m_fg_color, m_bg_color |-> to.m_bg_color]
    <2> HIDE DEF f1
    <2>1. QED
      BY <1>31 DEF WithBackground
  <1>33. f3 = [m_underline |-> to.m_underline, m_bold |-> f.m_bold,
               m_fg_color |-> to.m_fg_color, m_bg_color |-> to.m_bg_color]
    <2> HIDE DEF f2
    <2>1. QED
      BY <1>32 DEF WithUnderline
  <1>34. f4 = to
    <2> HIDE DEF f3
    <2>1. QED
      BY <1>33 DEF WithBold, IsFormat
  <1>4. (c1 \/ f = f1) /\ (c2 \/ f1 = f2) /\ (c3 \/ f2 = f3) /\ (c4 \/ f3 = f4)
    <2> HIDE DEF c1, c2, c3, c4, f1, f2, f3, f4
    <2>1. QED
      BY <1>2, <1>31, <1>32, <1>33, <1>34 DEF IsFormat
  <1>5. Apply(t0, fg_rgb(to.m_fg_color)) = t1
    BY ApplyFormats
  <1>6. Apply(t1, bg_rgb(to.m_bg_color)) = t2
    <2> HIDE DEF f1
    <2>1. QED
      BY ApplyFormats
  <1>7. Apply(t2, underline(to.m_underline)) = t3
    <2> HIDE DEF f2
    <2>1. QED
      BY ApplyFormats
  <1>8. Apply(t3, bold(to.m_bold)) = t4
    <2> HIDE DEF f3
    <2>1. QED
      BY ApplyFormats
  <1>9. (c1 \/ t0 = t1) /\ (c2 \/ t1 = t2) /\ (c3 \/ t2 = t3) /\ (c4 \/ t3 = t4)
    <2> HIDE DEF c1, c2, c3, c4, f1, f2, f3, f4
    <2>1. QED
      BY <1>4
  <1>10. t4 = Showing(h, w, g, l, c, to, v)
    BY <1>34
  <1> DEFINE e1 == fg_rgb(to.m_fg_color)
             e2 == bg_rgb(to.m_bg_color)
             e3 == underline(to.m_underline)
             e4 == bold(to.m_bold)
  <1> HIDE DEF c1, c2, c3, c4, t0, t1, t2, t3, t4, e1, e2, e3, e4
  <1>11. /\ IsString(s1) /\ Display(t0, s1) = t1
         /\ IsString(s2) /\ Display(t1, s2) = t2
         /\ IsString(s3) /\ Display(t2, s3) = t3
         /\ IsString(s4) /\ Display(t3, s4) = t4
    <2>1. IsString(When(c1, e1)) /\ Display(t0, When(c1, e1)) = t1
      BY <1>5, <1>9, FormatPart DEF e1
    <2>2. IsString(When(c2, e2)) /\ Display(t1, When(c2, e2)) = t2
      BY <1>6, <1>9, FormatPart DEF e2
    <2>3. IsString(When(c3, e3)) /\ Display(t2, When(c3, e3)) = t3
      BY <1>7, <1>9, FormatPart DEF e3
    <2>4. IsString(When(c4, e4)) /\ Display(t3, When(c4, e4)) = t4
      BY <1>8, <1>9, FormatPart DEF e4
    <2>5. QED
      BY <2>1, <2>2, <2>3, <2>4 DEF e1, e2, e3, e4
  <1> HIDE DEF s1, s2, s3, s4
  <1>12. IsString(s1 \o s2) /\ Display(t0, s1 \o s2) = t2
    BY <1>11, DisplayJoined
  <1> DEFINE s12 == s1 \o s2
  <1> HIDE DEF s12
  <1>13. IsString(s12 \o s3) /\ Display(t0, s12 \o s3) = t3
    BY <1>11, <1>12, DisplayJoined DEF s12
  <1> DEFINE s123 == s12 \o s3
  <1> HIDE DEF s123
  <1>14. IsString(s123 \o s4) /\ Display(t0, s123 \o s4) = t4
    BY <1>11, <1>13, DisplayJoined DEF s123
  <1>15. QED
    BY <1>1, <1>10, <1>14 DEF t0, s12, s123
-----------------------------------------------------------------------------
(* A frame is written cell by cell *)

FrameStart ==
    [m_last_written_pos |-> nullopt, m_format |-> nullopt,
     buffer |-> <<reset_formatting>>]

\* The state after n of the cells.
StatesAre(cells, f) ==
    f = [n \in 0 .. m_width * m_height |->
           IF n = 0 THEN FrameStart ELSE WriteSequence(f[n - 1], cells, n - 1)]

\* A frame is what the states of its cells end with.
LEMMA FrameUnfolds ==
  ASSUME NEW cells, m_width * m_height \in Nat
  PROVE  \E f : /\ StatesAre(cells, f)
                /\ Frame(cells) = f[m_width * m_height].buffer
  <1> DEFINE N == m_width * m_height
             Upto(m, g) ==
               /\ g[0] = FrameStart
               /\ \A n \in 1 .. m : g[n] = WriteSequence(g[n - 1], cells, n - 1)
             S == {m \in Nat : \E g : Upto(m, g)}
  <1>1. 0 \in S
    <2>1. Upto(0, [n \in {0} |-> FrameStart])
      OBVIOUS
    <2>2. QED
      BY <2>1
  <1>2. \A m \in S : m + 1 \in S
    <2> TAKE m \in S
    <2>1. PICK g : Upto(m, g)
      OBVIOUS
    <2> DEFINE h == [n \in 0 .. m + 1 |->
                       IF n = m + 1 THEN WriteSequence(g[m], cells, m)
                       ELSE g[n]]
    <2> HIDE DEF h
    <2>2. h[0] = FrameStart
      BY <2>1 DEF h
    <2>3. ASSUME NEW n \in 1 .. m + 1
          PROVE  h[n] = WriteSequence(h[n - 1], cells, n - 1)
      <3>1. n - 1 \in 0 .. m /\ h[n - 1] = g[n - 1]
        BY DEF h
      <3>2. CASE n = m + 1
        <4>1. n - 1 = m /\ n \in 0 .. m + 1
          BY <3>2
        <4>2. h[n] = WriteSequence(g[m], cells, m)
          BY <3>2, <4>1 DEF h
        <4>3. QED
          BY <3>1, <4>1, <4>2
      <3>3. CASE n # m + 1
        <4>1. n \in 1 .. m
          BY <3>3
        <4>2. h[n] = g[n]
          BY <4>1 DEF h
        <4>3. QED
          BY <2>1, <3>1, <4>1, <4>2
      <3>4. QED
        BY <3>2, <3>3
    <2>4. Upto(m + 1, h)
      BY <2>2, <2>3
    <2>5. QED
      BY <2>4
  <1> HIDE DEF S
  <1>3. S = Nat
    <2>1. S \in SUBSET Nat
      BY DEF S
    <2>2. QED
      BY <1>1, <1>2, <2>1, Induction
  <1>4. N \in S
    BY <1>3
  <1>5. PICK g : Upto(N, g)
    BY <1>4 DEF S
  <1> DEFINE f0 == [n \in 0 .. N |-> g[n]]
  <1>6. StatesAre(cells, f0)
    <2>1. \A n \in 0 .. N : f0[n] = IF n = 0 THEN FrameStart
                            ELSE WriteSequence(f0[n - 1], cells, n - 1)
      <3> TAKE n \in 0 .. N
      <3>1. CASE n = 0
        BY <1>5, <3>1
      <3>2. CASE n # 0
        <4>1. n \in 1 .. N /\ n - 1 \in 0 .. N
          BY <3>2
        <4>2. f0[n] = g[n] /\ f0[n - 1] = g[n - 1]
          BY <4>1
        <4>3. QED
          BY <1>5, <4>1, <4>2, <3>2
      <3>3. QED
        BY <3>1, <3>2
    <2> HIDE DEF f0
    <2>2. f0 = [n \in 0 .. N |-> f0[n]]
      BY DEF f0
    <2>3. QED
      BY <2>1, <2>2 DEF StatesAre
  <1> DEFINE f1 == CHOOSE f : StatesAre(cells, f)
  <1>7. StatesAre(cells, f1)
    BY <1>6
  <1>8. Frame(cells) = f1[N].buffer
    BY DEF Frame, StatesAre, FrameStart
  <1>9. QED
    BY <1>7, <1>8

\* One more of the cells.
LEMMA NextState ==
  ASSUME NEW cells, NEW f, StatesAre(cells, f), m_width * m_height \in Nat,
         NEW n \in Indices
  PROVE  f[n + 1] = WriteSequence(f[n], cells, n)
  <1>1. n + 1 \in 0 .. m_width * m_height /\ n + 1 # 0 /\ (n + 1) - 1 = n
    BY DEF Indices
  <1>2. QED
    BY <1>1 DEF StatesAre

\* A cell the last frame has shown already.
Unchanged(cells, index) ==
    m_old_cells # NoCells /\ cells[index] = m_old_cells[index]

\* The sequences that are sent before the letter of another.
Prepared(state, cells, index) ==
    (state.buffer \o FormatChanges(state.m_format, cells[index].m_format))
    \o When(PositionNecessary(state.m_last_written_pos, index),
            position(get_line(index) + m_origin_line,
                     get_column(index) + m_origin_column))

\* The state after a cell.
LEMMA CellSteps ==
  ASSUME NEW state, NEW cells, NEW index
  PROVE  /\ Unchanged(cells, index) =>
              WriteSequence(state, cells, index) = state
         /\ ~ Unchanged(cells, index) =>
              WriteSequence(state, cells, index) =
                [m_last_written_pos |-> index,
                 m_format |-> cells[index].m_format,
                 buffer |-> Prepared(state, cells, index)
                              \o <<char(cells[index].m_letter)>>]
  BY Zenon DEF Unchanged, Prepared, WriteSequence

\* A sequence that may be left out.
LEMMA OptionalText ==
  ASSUME NEW c, NEW e, IsSequence(e)
  PROVE  IsText(When(c, e))
  <1>1. CASE c
    BY <1>1, ShortTexts DEF When
  <1>2. CASE ~c
    BY <1>2, ShortTexts DEF When
  <1>3. QED
    BY <1>1, <1>2

\* The changes of the formatting are sequences like others.
LEMMA ChangesText ==
  ASSUME NEW from, NEW to
  PROVE  IsText(FormatChanges(from, to))
  <1> DEFINE differs(part) == from = nullopt \/ from[part] # to[part]
             s1 == When(differs("m_fg_color"), fg_rgb(to.m_fg_color))
             s2 == When(differs("m_bg_color"), bg_rgb(to.m_bg_color))
             s3 == When(differs("m_underline"), underline(to.m_underline))
             s4 == When(differs("m_bold"), bold(to.m_bold))
  <1>1. FormatChanges(from, to) = ((s1 \o s2) \o s3) \o s4
    BY DEF FormatChanges
  <1>2. /\ IsSequence(fg_rgb(to.m_fg_color))
        /\ IsSequence(bg_rgb(to.m_bg_color))
        /\ IsSequence(underline(to.m_underline))
        /\ IsSequence(bold(to.m_bold))
    BY DEF IsSequence
  <1>3. IsText(s1) /\ IsText(s2) /\ IsText(s3) /\ IsText(s4)
    BY <1>2, OptionalText
  <1> HIDE DEF s1, s2, s3, s4
  <1>4. IsText(s1 \o s2)
    BY <1>3, TextJoined
  <1>5. IsText((s1 \o s2) \o s3)
    BY <1>3, <1>4, TextJoined
  <1>6. IsText(((s1 \o s2) \o s3) \o s4)
    BY <1>3, <1>5, TextJoined
  <1>7. QED
    BY <1>1, <1>6
-----------------------------------------------------------------------------
(* The screen and its window *)

\* A screen has cells, and begins somewhere in the window.
SizedInv ==
    /\ m_width \in Nat \ {0} /\ m_height \in Nat \ {0}
    /\ m_origin_line \in Nat /\ m_origin_column \in Nat

\* The line and the column of a cell's place.
RowOf(index) == get_line(index) + m_origin_line
ColumnOf(index) == get_column(index) + m_origin_column

\* An index has a place.
LEMMA PlaceTyped ==
  ASSUME SizedInv, NEW index \in Indices
  PROVE  /\ get_line(index) \in 0 .. m_height - 1
         /\ get_column(index) \in 0 .. m_width - 1
         /\ index = m_width * get_line(index) + get_column(index)
         /\ RowOf(index) \in Nat /\ ColumnOf(index) \in Nat
         /\ PlaceOf(index) = <<RowOf(index), ColumnOf(index)>>
  <1>1. /\ index \div m_width \in 0 .. m_height - 1
        /\ index % m_width \in 0 .. m_width - 1
        /\ index = m_width * (index \div m_width) + (index % m_width)
    BY LineAndColumn DEF SizedInv, Indices
  <1>2. /\ get_line(index) \in 0 .. m_height - 1
        /\ get_column(index) \in 0 .. m_width - 1
        /\ index = m_width * get_line(index) + get_column(index)
    BY <1>1 DEF get_line, get_column
  <1>3. RowOf(index) \in Nat /\ ColumnOf(index) \in Nat
    BY <1>2 DEF RowOf, ColumnOf, SizedInv
  <1>4. QED
    BY <1>2, <1>3 DEF PlaceOf, RowOf, ColumnOf

\* The number of cells.
LEMMA CellCount ==
  ASSUME SizedInv
  PROVE  m_width * m_height \in Nat \ {0} /\ 0 \in Indices
  <1>1. m_width * 0 + m_width <= m_width * m_height
    BY Products DEF SizedInv
  <1>2. m_width * 0 = 0 /\ m_width * m_height \in Int
    BY DEF SizedInv
  <1>3. QED
    BY <1>1, <1>2 DEF SizedInv, Indices

\* What a frame consists of.
LEMMA FrameText ==
  ASSUME SizedInv, NEW cells
  PROVE  IsText(Frame(cells))
  <1> DEFINE N == m_width * m_height
  <1>1. N \in Nat
    BY CellCount
  <1>2. PICK f : StatesAre(cells, f) /\ Frame(cells) = f[N].buffer
    BY <1>1, FrameUnfolds
  <1> DEFINE S == {m \in Nat : m <= N => IsText(f[m].buffer)}
  <1>3. 0 \in S
    <2>1. f[0] = FrameStart
      BY <1>1, <1>2 DEF StatesAre
    <2>2. IsSequence(reset_formatting)
      BY DEF IsSequence
    <2>3. IsText(<<reset_formatting>>)
      BY <2>2, ShortTexts
    <2>4. QED
      BY <2>1, <2>3 DEF FrameStart
  <1>4. \A m \in S : m + 1 \in S
    <2> TAKE m \in S
    <2>1. ASSUME m + 1 <= N
          PROVE  IsText(f[m + 1].buffer)
      <3>1. m \in Indices /\ IsText(f[m].buffer)
        BY <1>1, <2>1 DEF Indices
      <3>2. f[m + 1] = WriteSequence(f[m], cells, m)
        BY <1>1, <1>2, <3>1, NextState
      <3>3. CASE Unchanged(cells, m)
        <4>1. WriteSequence(f[m], cells, m) = f[m]
          BY <3>3, CellSteps, Zenon
        <4>2. QED
          BY <3>1, <3>2, <4>1
      <3>4. CASE ~ Unchanged(cells, m)
        <4> DEFINE a == f[m].buffer
                   b == FormatChanges(f[m].m_format, cells[m].m_format)
                   p == position(RowOf(m), ColumnOf(m))
                   d == When(PositionNecessary(f[m].m_last_written_pos, m), p)
                   e == char(cells[m].m_letter)
        <4>1. f[m + 1].buffer = ((a \o b) \o d) \o <<e>>
          <5>1. WriteSequence(f[m], cells, m) =
                  [m_last_written_pos |-> m, m_format |-> cells[m].m_format,
                   buffer |-> Prepared(f[m], cells, m) \o <<e>>]
            BY <3>4, CellSteps, Zenon
          <5>2. Prepared(f[m], cells, m) = (a \o b) \o d
            BY Zenon DEF Prepared, RowOf, ColumnOf
          <5> HIDE DEF a, b, d, e
          <5>3. QED
            BY <3>2, <5>1, <5>2
        <4>2. IsText(b)
          BY ChangesText
        <4>3. IsText(d)
          <5>1. IsSequence(p)
            <6>1. RowOf(m) \in Nat /\ ColumnOf(m) \in Nat
              BY <3>1, PlaceTyped
            <6>2. QED
              BY <6>1 DEF IsSequence
          <5>2. QED
            BY <5>1, OptionalText
        <4>4. IsText(<<e>>)
          <5>1. IsSequence(e)
            BY DEF IsSequence
          <5>2. QED
            BY <5>1, ShortTexts
        <4>5. IsText(a)
          BY <3>1
        <4> HIDE DEF a, b, d, e
        <4>6. IsText(a \o b)
          BY <4>2, <4>5, TextJoined
        <4>7. IsText((a \o b) \o d)
          BY <4>3, <4>6, TextJoined
        <4>8. IsText(((a \o b) \o d) \o <<e>>)
          BY <4>4, <4>7, TextJoined
        <4>9. QED
          BY <4>1, <4>8
      <3>5. QED
        BY <3>3, <3>4
    <2>2. QED
      BY <2>1
  <1> HIDE DEF S
  <1>5. S = Nat
    <2>1. S \in SUBSET Nat
      BY DEF S
    <2>2. QED
      BY <1>3, <1>4, <2>1, Induction
  <1>6. QED
    BY <1>1, <1>2, <1>5 DEF S
-----------------------------------------------------------------------------
(* Types *)

\* Every cell is a cell.
AreCells(cells) ==
    /\ cells = [index \in Indices |-> cells[index]]
    /\ \A index \in Indices : IsCell(cells[index])

CellsInv ==
    /\ AreCells(m_cells)
    /\ m_old_cells # NoCells => AreCells(m_old_cells)

\* A screen without pixels, and one with pixels.
PlainInv ==
    /\ <<m_width, m_height>> \in Sizes
    /\ m_background \in Backgrounds
    /\ m_cells \in [Indices -> Cells]
    /\ m_old_cells \in [Indices -> Cells] \cup {NoCells}

PixelInv ==
    /\ m_halfline_height \in Nat \ {0} /\ m_origin_halfline \in Nat
    /\ m_height = LineHeight(m_origin_halfline, m_halfline_height)
    /\ m_origin_line = m_origin_halfline \div 2
    /\ m_fill_color \in Colors
    /\ m_pixels \in [0 .. m_width * m_halfline_height - 1 -> Colors]

TypesInv ==
    /\ SizedInv
    /\ IsConsole(console, Lines, Columns)
    /\ CellsInv
    /\ m_pixels = NoPixels => PlainInv
    /\ m_pixels # NoPixels => PixelInv

\* What a program puts into a cell is a cell.
LEMMA CellsAreCells ==
  /\ \A cell \in Cells \cup Overrides : IsCell(cell)
  /\ \A color : IsCell(PixelBackground(color))
  /\ \A text \in Texts, format \in Formats : \A k \in DOMAIN text :
       [m_letter |-> text[k], m_format |-> format] \in Cells
  <1>1. \A cell \in Cells \cup Overrides : IsCell(cell)
    BY CellsAssumption, OverridesAssumption
  <1>2. \A color : IsCell(PixelBackground(color))
    BY DEF PixelBackground, IsCell, IsFormat
  <1>3. ASSUME NEW text \in Texts, NEW format \in Formats,
               NEW k \in DOMAIN text
        PROVE  [m_letter |-> text[k], m_format |-> format] \in Cells
    <2>1. PICK cell \in Cells : format = cell.m_format
      BY DEF Formats
    <2>2. QED
      BY <2>1, CellsAssumption
  <1>4. QED
    BY <1>1, <1>2, <1>3

\* A console full of other output is one.
LEMMA DirtyConsole == IsConsole(Dirty, Lines, Columns)
  <1> DEFINE g == [p \in Window(Lines, Columns) |-> Other]
             f == [m_underline |-> TRUE, m_bold |-> TRUE,
                   m_fg_color |-> "other", m_bg_color |-> "other"]
  <1>1. Dirty = Showing(Lines, Columns, g, 0, 0, f, TRUE)
    BY DEF Dirty, Opened, Showing
  <1>2. DOMAIN g = Window(Lines, Columns)
    OBVIOUS
  <1> HIDE DEF g, f
  <1>3. 0 \in 0 .. Lines - 1 /\ 0 \in 0 .. Columns
    BY SizesAssumption
  <1>4. QED
    BY <1>1, <1>2, <1>3 DEF IsConsole

\* A function on the numbers below a product is not the empty sequence.
LEMMA NotEmpty ==
  ASSUME NEW w \in Nat \ {0}, NEW h \in Nat \ {0}, NEW f,
         DOMAIN f = 0 .. w * h - 1
  PROVE  f # <<>>
  <1>1. w * 0 + w <= w * h /\ w * 0 = 0 /\ w * h \in Int
    BY Products
  <1>2. 0 \in DOMAIN f
    BY <1>1
  <1>3. QED
    BY <1>2

\* A new screen.
LEMMA ConstructTypes ==
  ASSUME NEW size \in (Nat \ {0}) \X (Nat \ {0}), NEW origin \in Nat \X Nat,
         NEW background, IsCell(background),
         Construct(size, origin, background, Dirty)
  PROVE  /\ SizedInv /\ IsConsole(console, Lines, Columns) /\ CellsInv
         /\ m_width = size[1] /\ m_height = size[2]
         /\ m_origin_column = origin[1] /\ m_origin_line = origin[2]
         /\ m_background = background /\ m_old_cells = NoCells
         /\ m_cells = [index \in Indices |-> background]
         /\ m_cells \in [Indices -> {background}]
  <1>1. /\ m_width = size[1] /\ m_height = size[2]
        /\ m_origin_column = origin[1] /\ m_origin_line = origin[2]
        /\ m_background = background /\ m_old_cells = NoCells
        /\ m_cells = [index \in Indices |-> background]
        /\ console = Dirty
    BY DEF Construct
  <1>2. SizedInv
    BY <1>1 DEF SizedInv
  <1>3. CellsInv
    BY <1>1 DEF CellsInv, AreCells
  <1>4. QED
    BY <1>1, <1>2, <1>3, DirtyConsole

LEMMA InitTypes ==
  ASSUME PlainInit \/ PixelInit
  PROVE  TypesInv
  <1>1. CASE PlainInit
    <2>1. PICK size \in Sizes, origin \in Origins, background \in Backgrounds :
            Construct(size, origin, background, Dirty)
      BY <1>1 DEF PlainInit, Init
    <2>2. /\ size \in (Nat \ {0}) \X (Nat \ {0}) /\ origin \in Nat \X Nat
          /\ background \in Cells /\ size = <<size[1], size[2]>>
      BY SizesAssumption, CellsAssumption
    <2>3. IsCell(background)
      BY <2>2, CellsAreCells
    <2>4. /\ SizedInv /\ IsConsole(console, Lines, Columns) /\ CellsInv
          /\ m_width = size[1] /\ m_height = size[2]
          /\ m_background = background /\ m_old_cells = NoCells
          /\ m_cells \in [Indices -> {background}]
      BY <2>1, <2>2, <2>3, ConstructTypes
    <2>5. PlainInv
      BY <2>2, <2>4 DEF PlainInv
    <2>6. QED
      BY <1>1, <2>4, <2>5 DEF TypesInv, PlainInit
  <1>2. CASE PixelInit
    <2>1. PICK size \in PixelSizes, origin \in PixelOrigins, color \in Colors :
            /\ m_fill_color = color
            /\ m_halfline_height = size[2]
            /\ m_origin_halfline = origin[2]
            /\ m_pixels = [index \in 0 .. size[1] * size[2] - 1 |-> color]
            /\ Construct(<<size[1], LineHeight(origin[2], size[2])>>,
                         <<origin[1], origin[2] \div 2>>,
                         PixelBackground(color), Dirty)
      BY <1>2 DEF PixelInit
    <2>2. /\ size[1] \in Nat \ {0} /\ size[2] \in Nat \ {0}
          /\ origin[1] \in Nat /\ origin[2] \in Nat
      BY PixelSizesAssumption
    <2> DEFINE height == LineHeight(origin[2], size[2])
               line == origin[2] \div 2
               cells == <<size[1], height>>
               place == <<origin[1], line>>
    <2>3. height \in Nat \ {0} /\ line \in Nat
      BY <2>2 DEF LineHeight
    <2>4. /\ cells \in (Nat \ {0}) \X (Nat \ {0}) /\ place \in Nat \X Nat
          /\ cells[1] = size[1] /\ cells[2] = height
          /\ place[1] = origin[1] /\ place[2] = line
      BY <2>2, <2>3
    <2>5. Construct(cells, place, PixelBackground(color), Dirty)
      BY <2>1
    <2>6. IsCell(PixelBackground(color))
      BY CellsAreCells
    <2> HIDE DEF cells, place
    <2>7. /\ SizedInv /\ IsConsole(console, Lines, Columns) /\ CellsInv
          /\ m_width = cells[1] /\ m_height = cells[2]
          /\ m_origin_line = place[2]
      BY <2>4, <2>5, <2>6, ConstructTypes
    <2>8. m_pixels \in [0 .. m_width * m_halfline_height - 1 -> Colors]
      BY <2>1, <2>4, <2>7
    <2>9. m_pixels # NoPixels
      BY <2>1, <2>2, NotEmpty DEF NoPixels
    <2>10. PixelInv
      BY <2>1, <2>2, <2>4, <2>7, <2>8 DEF PixelInv
    <2>11. QED
      BY <2>7, <2>9, <2>10 DEF TypesInv
  <1>3. QED
    BY <1>1, <1>2

\* Every position is that of a cell, the first if it is outside.
LEMMA CellAtTyped ==
  ASSUME SizedInv, NEW column, NEW line
  PROVE  CellAt(column, line) \in Indices
  <1>1. CASE is_inside(column, line)
    <2>1. m_width * line + column \in 0 .. m_width * m_height - 1
      BY <1>1, IndexOf DEF is_inside, SizedInv
    <2>2. m_width * line = line * m_width
      BY <1>1 DEF is_inside, SizedInv
    <2>3. QED
      BY <1>1, <2>1, <2>2 DEF CellAt, Indices
  <1>2. CASE ~ is_inside(column, line)
    BY <1>2, CellCount DEF CellAt
  <1>3. QED
    BY <1>1, <1>2

\* A step that writes cells on a screen without pixels, and on one with them.
LEMMA PlainWriteKeeps ==
  ASSUME TypesInv, m_pixels = NoPixels, NEW cells \in [Indices -> Cells],
         m_cells' = cells,
         UNCHANGED <<layout, m_old_cells, console, m_pixels, pixelLayout>>
  PROVE  TypesInv'
  <1>1. /\ Indices' = Indices /\ SizedInv'
        /\ IsConsole(console, Lines, Columns)'
    BY DEF TypesInv, layout, Indices, SizedInv
  <1>2. AreCells(m_cells)'
    BY <1>1, CellsAreCells DEF AreCells
  <1>3. (m_old_cells # NoCells => AreCells(m_old_cells))'
    BY <1>1 DEF TypesInv, CellsInv, AreCells
  <1>4. PlainInv'
    BY <1>1 DEF TypesInv, PlainInv, layout
  <1>5. m_pixels' = NoPixels
    OBVIOUS
  <1>6. QED
    BY <1>1, <1>2, <1>3, <1>4, <1>5 DEF TypesInv, CellsInv

LEMMA PixelWriteKeeps ==
  ASSUME TypesInv, m_pixels # NoPixels, AreCells(m_cells'),
         UNCHANGED <<layout, m_old_cells, console, m_pixels, pixelLayout>>
  PROVE  TypesInv'
  <1>1. /\ Indices' = Indices /\ SizedInv'
        /\ IsConsole(console, Lines, Columns)'
    BY DEF TypesInv, layout, Indices, SizedInv
  <1>2. AreCells(m_cells)'
    BY <1>1 DEF AreCells
  <1>3. (m_old_cells # NoCells => AreCells(m_old_cells))'
    BY <1>1 DEF TypesInv, CellsInv, AreCells
  <1>4. PixelInv'
    BY <1>1 DEF TypesInv, PixelInv, layout, pixelLayout
  <1>5. m_pixels' # NoPixels
    OBVIOUS
  <1>6. QED
    BY <1>1, <1>2, <1>3, <1>4, <1>5 DEF TypesInv, CellsInv

\* A frame is drawn on the console.
LEMMA DrawKeeps ==
  ASSUME TypesInv, NEW cells, AreCells(cells),
         m_pixels = NoPixels => cells \in [Indices -> Cells],
         Draw(cells), UNCHANGED <<m_pixels, pixelLayout>>
  PROVE  TypesInv'
  <1>1. /\ console' = Display(console, Frame(cells))
        /\ m_cells' = cells /\ m_old_cells' = cells /\ UNCHANGED layout
    BY DEF Draw
  <1>2. Indices' = Indices /\ SizedInv'
    BY <1>1 DEF TypesInv, layout, Indices, SizedInv
  <1>3. IsConsole(console, Lines, Columns)'
    <2>1. IsText(Frame(cells))
      BY FrameText DEF TypesInv
    <2>2. IsConsole(Display(console, Frame(cells)), Lines, Columns)
      BY <2>1, SizesAssumption, DisplayKeeps DEF TypesInv
    <2>3. QED
      BY <1>1, <2>2
  <1>4. CellsInv'
    BY <1>1, <1>2 DEF CellsInv, AreCells
  <1>5. (m_pixels = NoPixels => PlainInv)'
    BY <1>1, <1>2 DEF TypesInv, PlainInv, layout
  <1>6. (m_pixels # NoPixels => PixelInv)'
    BY <1>1, <1>2 DEF TypesInv, PixelInv, layout, pixelLayout
  <1>7. QED
    BY <1>2, <1>3, <1>4, <1>5, <1>6 DEF TypesInv

\* A screen's pixels are changed.
LEMMA PixelsKeep ==
  ASSUME TypesInv, m_pixels # NoPixels,
         m_pixels' \in [0 .. m_width * m_halfline_height - 1 -> Colors],
         UNCHANGED <<vars, pixelLayout>>
  PROVE  TypesInv'
  <1>1. /\ Indices' = Indices /\ SizedInv'
        /\ IsConsole(console, Lines, Columns)'
    BY DEF TypesInv, vars, layout, Indices, SizedInv
  <1>2. CellsInv'
    BY <1>1 DEF TypesInv, CellsInv, AreCells, vars
  <1>3. PixelInv'
    BY DEF TypesInv, PixelInv, vars, layout, pixelLayout
  <1>4. m_pixels' # NoPixels
    BY NotEmpty DEF TypesInv, PixelInv, SizedInv, NoPixels
  <1>5. QED
    BY <1>1, <1>2, <1>3, <1>4 DEF TypesInv

\* The colors of the pixels, put into the cells.
Colored(cell, fg, bg) ==
    [cell EXCEPT !.m_format.m_fg_color = fg, !.m_format.m_bg_color = bg]

\* ... leave cells cells.
LEMMA ColoredCell ==
  ASSUME NEW cell, IsCell(cell), NEW fg, NEW bg
  PROVE  /\ IsCell(Colored(cell, fg, bg))
         /\ Colored(cell, fg, bg).m_format.m_fg_color = fg
         /\ Colored(cell, fg, bg).m_format.m_bg_color = bg
  <1> DEFINE f == cell.m_format
             f1 == [f EXCEPT !.m_fg_color = fg]
             f2 == [f1 EXCEPT !.m_bg_color = bg]
             result == Colored(cell, fg, bg)
  <1>1. result = [cell EXCEPT !.m_format = f2]
    BY DEF Colored
  <1>2. f1 = [m_underline |-> f.m_underline, m_bold |-> f.m_bold,
              m_fg_color |-> fg, m_bg_color |-> f.m_bg_color]
    BY DEF IsCell, IsFormat
  <1>3. f2 = [m_underline |-> f.m_underline, m_bold |-> f.m_bold,
              m_fg_color |-> fg, m_bg_color |-> bg]
    <2> HIDE DEF f1
    <2>1. QED
      BY <1>2
  <1>4. IsFormat(f2) /\ f2.m_fg_color = fg /\ f2.m_bg_color = bg
    <2> HIDE DEF f2
    <2>1. QED
      BY <1>3 DEF IsFormat
  <1> HIDE DEF f2, result
  <1>5. result = [m_letter |-> cell.m_letter, m_format |-> f2]
    BY <1>1 DEF IsCell
  <1>6. QED
    BY <1>4, <1>5 DEF IsCell, result

\* The cells of the next frame.
LEMMA ComputedParts ==
  ASSUME TypesInv
  PROVE  /\ AreCells(ComputedCells)
         /\ \A index \in Indices :
              LET top == TopHalfline(get_line(index))
                  format == ComputedCells[index].m_format
              IN /\ format.m_fg_color = HalfColor(get_column(index), top)
                 /\ format.m_bg_color = HalfColor(get_column(index), top + 1)
  <1>1. ComputedCells =
          [index \in Indices |->
             Colored(m_cells[index],
                     HalfColor(get_column(index), TopHalfline(get_line(index))),
                     HalfColor(get_column(index),
                               TopHalfline(get_line(index)) + 1))]
    BY Zenon DEF ComputedCells, Colored
  <1> DEFINE cells == ComputedCells
  <1>2. ASSUME NEW index \in Indices
        PROVE  LET top == TopHalfline(get_line(index))
                   format == cells[index].m_format
               IN /\ IsCell(cells[index])
                  /\ format.m_fg_color = HalfColor(get_column(index), top)
                  /\ format.m_bg_color = HalfColor(get_column(index), top + 1)
    <2> DEFINE top == TopHalfline(get_line(index))
               fg == HalfColor(get_column(index), top)
               bg == HalfColor(get_column(index), top + 1)
    <2>1. cells[index] = Colored(m_cells[index], fg, bg)
      BY <1>1, Zenon
    <2>2. IsCell(m_cells[index])
      BY DEF TypesInv, CellsInv, AreCells
    <2> HIDE DEF cells, fg, bg
    <2>3. /\ IsCell(cells[index])
          /\ cells[index].m_format.m_fg_color = fg
          /\ cells[index].m_format.m_bg_color = bg
      BY <2>1, <2>2, ColoredCell
    <2>4. QED
      BY <2>3 DEF fg, bg
  <1>3. cells = [index \in Indices |-> cells[index]]
    BY <1>1, Zenon
  <1> HIDE DEF cells
  <1>4. AreCells(cells)
    BY <1>2, <1>3 DEF AreCells
  <1>5. QED
    BY <1>2, <1>4 DEF cells

\* Every step keeps the types.
LEMMA StepTypes ==
  ASSUME TypesInv, [PlainNext \/ PixelNext]_pixelVars
  PROVE  TypesInv'
  <1>1. CASE PlainNext
    <2>1. m_pixels = NoPixels /\ UNCHANGED <<m_pixels, pixelLayout>> /\ PlainInv
      BY <1>1 DEF PlainNext, TypesInv
    <2>2. ASSUME NEW column, NEW line, NEW cell \in Cells,
                 SetCell(column, line, cell)
          PROVE  TypesInv'
      <3>1. CellAt(column, line) \in Indices
        BY CellAtTyped DEF TypesInv
      <3> DEFINE cells == [m_cells EXCEPT ![CellAt(column, line)] = cell]
      <3>2. cells \in [Indices -> Cells]
        BY <2>1, <3>1 DEF PlainInv
      <3>3. /\ m_cells' = cells
            /\ UNCHANGED <<layout, m_old_cells, console, m_pixels, pixelLayout>>
        BY <2>1, <2>2 DEF SetCell
      <3> HIDE DEF cells
      <3>4. QED
        BY <2>1, <3>2, <3>3, PlainWriteKeeps
    <2>3. ASSUME NEW text \in Texts, NEW column, NEW line,
                 NEW format \in Formats, WriteInto(text, column, line, format)
          PROVE  TypesInv'
      <3> DEFINE first == CellAt(column, line)
                 cells == [index \in Indices |->
                             LET k == index - first + 1
                             IN IF k \in DOMAIN text
                                THEN [m_letter |-> text[k], m_format |-> format]
                                ELSE m_cells[index]]
      <3>1. ASSUME NEW index \in Indices
            PROVE  cells[index] \in Cells
        <4> DEFINE k == index - first + 1
        <4>1. cells[index] = IF k \in DOMAIN text
                             THEN [m_letter |-> text[k], m_format |-> format]
                             ELSE m_cells[index]
          OBVIOUS
        <4>2. m_cells[index] \in Cells
          BY <2>1 DEF PlainInv
        <4> HIDE DEF k, cells
        <4>3. k \in DOMAIN text =>
                [m_letter |-> text[k], m_format |-> format] \in Cells
          BY CellsAreCells
        <4>4. QED
          BY <4>1, <4>2, <4>3
      <3>2. cells \in [Indices -> Cells]
        BY <3>1
      <3>3. /\ m_cells' = cells
            /\ UNCHANGED <<layout, m_old_cells, console, m_pixels, pixelLayout>>
        BY <2>1, <2>3 DEF WriteInto
      <3> HIDE DEF cells
      <3>4. QED
        BY <2>1, <3>2, <3>3, PlainWriteKeeps
    <2>4. CASE Clear
      <3> DEFINE cells == [index \in Indices |-> m_background]
      <3>1. cells \in [Indices -> Cells]
        BY <2>1, CellsAssumption DEF PlainInv
      <3>2. /\ m_cells' = cells
            /\ UNCHANGED <<layout, m_old_cells, console, m_pixels, pixelLayout>>
        BY <2>1, <2>4 DEF Clear
      <3> HIDE DEF cells
      <3>3. QED
        BY <2>1, <3>1, <3>2, PlainWriteKeeps
    <2>5. CASE GetString
      <3>1. Draw(m_cells) /\ AreCells(m_cells) /\ m_cells \in [Indices -> Cells]
        BY <2>1, <2>5 DEF GetString, TypesInv, CellsInv, PlainInv
      <3>2. QED
        BY <2>1, <3>1, DrawKeeps
    <2>6. QED
      BY <1>1, <2>2, <2>3, <2>4, <2>5 DEF PlainNext, Next
  <1>2. CASE PixelNext
    <2>1. m_pixels # NoPixels /\ PixelInv /\ SizedInv
      BY <1>2 DEF PixelNext, TypesInv
    <2>2. ASSUME NEW column \in 0 .. m_width - 1,
                 NEW halfline \in 0 .. m_halfline_height - 1,
                 NEW color \in Colors, SetPixel(column, halfline, color)
          PROVE  TypesInv'
      <3>1. m_pixels' = [m_pixels EXCEPT ![halfline * m_width + column] = color]
        BY <2>2 DEF SetPixel
      <3>2. m_pixels' \in [0 .. m_width * m_halfline_height - 1 -> Colors]
        BY <2>1, <3>1 DEF PixelInv
      <3>3. QED
        BY <2>1, <2>2, <3>2, PixelsKeep DEF SetPixel
    <2>3. CASE ClearPixels
      <3>1. m_pixels' \in [0 .. m_width * m_halfline_height - 1 -> Colors]
        BY <2>1, <2>3 DEF ClearPixels, PixelInv
      <3>2. QED
        BY <2>1, <2>3, <3>1, PixelsKeep DEF ClearPixels
    <2>4. ASSUME NEW column, NEW line, NEW cell \in Overrides,
                 Override(column, line, cell)
          PROVE  TypesInv'
      <3> DEFINE first == CellAt(column, line)
      <3>1. first \in Indices /\ AreCells(m_cells) /\ IsCell(cell)
        BY CellAtTyped, CellsAreCells DEF TypesInv, CellsInv
      <3> HIDE DEF first
      <3>2. AreCells([m_cells EXCEPT ![first] = cell])
        BY <3>1 DEF AreCells
      <3>3. /\ m_cells' = [m_cells EXCEPT ![first] = cell]
            /\ UNCHANGED <<layout, m_old_cells, console, m_pixels, pixelLayout>>
        BY <2>4 DEF Override, SetCell, first
      <3>4. QED
        BY <2>1, <3>2, <3>3, PixelWriteKeeps
    <2>5. CASE GetPixelString
      <3>1. /\ Draw(ComputedCells) /\ AreCells(ComputedCells)
            /\ UNCHANGED <<m_pixels, pixelLayout>>
        BY <2>5, ComputedParts DEF GetPixelString
      <3>2. QED
        BY <2>1, <3>1, DrawKeeps
    <2>6. QED
      BY <1>2, <2>2, <2>3, <2>4, <2>5 DEF PixelNext
  <1>3. CASE UNCHANGED pixelVars
    <2>1. Indices' = Indices /\ SizedInv' /\ IsConsole(console, Lines, Columns)'
      BY <1>3 DEF TypesInv, pixelVars, vars, layout, Indices, SizedInv
    <2>2. CellsInv'
      BY <1>3, <2>1 DEF TypesInv, CellsInv, AreCells, pixelVars, vars
    <2>3. (m_pixels = NoPixels => PlainInv)'
      BY <1>3, <2>1 DEF TypesInv, PlainInv, pixelVars, vars, layout
    <2>4. (m_pixels # NoPixels => PixelInv)'
      BY <1>3 DEF TypesInv, PixelInv, pixelVars, vars, layout, pixelLayout
    <2>5. QED
      BY <2>1, <2>2, <2>3, <2>4 DEF TypesInv
  <1>4. QED
    BY <1>1, <1>2, <1>3

\* A halfline is the upper or the lower half of its line.
LEMMA Halves ==
  ASSUME NEW x \in Int
  PROVE  /\ x \div 2 \in Int
         /\ x = 2 * (x \div 2) \/ x = 2 * (x \div 2) + 1
         /\ x % 2 = x - 2 * (x \div 2)
  OBVIOUS

\* The lines of a console that pixels lie on.
LEMMA LinesOfPixels ==
  ASSUME NEW o \in Nat, NEW n \in Nat \ {0}
  PROVE  (o \div 2) .. (o \div 2) + LineHeight(o, n) - 1
           = {halfline \div 2 : halfline \in o .. o + n - 1}
  <1> DEFINE A == (o \div 2) .. (o \div 2) + LineHeight(o, n) - 1
             B == {halfline \div 2 : halfline \in o .. o + n - 1}
             first == o \div 2
             last == (o - 1 + n) \div 2
  <1>1. A = first .. last
    BY DEF LineHeight
  <1>0. /\ first \in Int /\ (o = 2 * first \/ o = 2 * first + 1)
        /\ last \in Int
        /\ (o - 1 + n = 2 * last \/ o - 1 + n = 2 * last + 1)
    BY Halves
  <1> HIDE DEF A, first, last
  <1>2. ASSUME NEW line \in A
        PROVE  line \in B
    <2>1. CASE 2 * line >= o
      <3>1. 2 * line \in o .. o + n - 1 /\ (2 * line) \div 2 = line
        BY <1>0, <1>1, <2>1
      <3>2. QED
        BY <3>1
    <2>2. CASE 2 * line < o
      <3>1. o \in o .. o + n - 1 /\ o \div 2 = line
        BY <1>0, <1>1, <2>2 DEF first
      <3>2. QED
        BY <3>1
    <2>3. QED
      BY <1>0, <1>1, <2>1, <2>2
  <1>3. ASSUME NEW halfline \in o .. o + n - 1
        PROVE  halfline \div 2 \in A
    <2> DEFINE q == halfline \div 2
    <2>1. q \in Int /\ (halfline = 2 * q \/ halfline = 2 * q + 1)
      BY Halves
    <2> HIDE DEF q
    <2>2. q \in A
      BY <1>0, <1>1, <2>1
    <2>3. QED
      BY <2>2 DEF q
  <1>4. QED
    BY <1>2, <1>3 DEF A, first

\* The type invariant follows.
LEMMA TypesAreTypes ==
  ASSUME TypesInv
  PROVE  PixelTypeOK
  <1>1. CASE m_pixels = NoPixels
    <2>1. /\ DOMAIN console.shown = Window(Lines, Columns)
          /\ console.line \in 0 .. Lines - 1
          /\ console.column \in 0 .. Columns
      BY ConsoleParts DEF TypesInv
    <2>2. QED
      BY <1>1, <2>1 DEF TypesInv, PlainInv, PixelTypeOK, TypeOK
  <1>2. CASE m_pixels # NoPixels
    <2>1. DOMAIN m_cells = Indices
      BY DEF TypesInv, CellsInv, AreCells
    <2>2. m_origin_line .. m_origin_line + m_height - 1
            = {halfline \div 2 : halfline \in PixelHalflines}
      BY <1>2, LinesOfPixels DEF TypesInv, PixelInv, PixelHalflines
    <2>3. QED
      BY <1>2, <2>1, <2>2 DEF TypesInv, PixelInv, PixelTypeOK
  <1>3. QED
    BY <1>1, <1>2

\* The variables keep their types, whatever is written, and the cursor never
\* leaves the window; pixels lie on the lines of their screen.
THEOREM TypeCorrect == PixelSpec => []PixelTypeOK
  <1>1. PixelSpec => []TypesInv
    BY InitTypes, StepTypes, PTL DEF PixelSpec
  <1>2. QED
    BY <1>1, TypesAreTypes, PTL
-----------------------------------------------------------------------------
(* What a frame shows *)

\* Screens lie in the window, whose places are sent as bytes.
Fits(size, origin) ==
    /\ origin[1] + size[1] <= Columns /\ origin[1] + size[1] <= 256
    /\ origin[2] + size[2] <= Lines /\ origin[2] + size[2] <= 256

ScreensFit ==
    /\ \A size \in Sizes, origin \in Origins : Fits(size, origin)
    /\ \A size \in PixelSizes, origin \in PixelOrigins :
         Fits(<<size[1], LineHeight(origin[2], size[2])>>,
              <<origin[1], origin[2] \div 2>>)

FitsInv ==
    /\ SizedInv
    /\ m_origin_column + m_width <= Columns
    /\ m_origin_column + m_width <= 256
    /\ m_origin_line + m_height <= Lines
    /\ m_origin_line + m_height <= 256

\* A place in the window is the one the cursor is sent to.
LEMMA PlaceFits ==
  ASSUME FitsInv, NEW index \in Indices
  PROVE  /\ RowOf(index) \in 0 .. Lines - 1
         /\ ColumnOf(index) \in 0 .. Columns - 1
         /\ PlaceOf(index) \in Window(Lines, Columns)
         /\ Inside(Byte(RowOf(index)), Lines) = RowOf(index)
         /\ Inside(Byte(ColumnOf(index)), Columns) = ColumnOf(index)
  <1> DEFINE row == RowOf(index)
             column == ColumnOf(index)
  <1>1. /\ row \in 0 .. Lines - 1 /\ row \in 0 .. 255
        /\ column \in 0 .. Columns - 1 /\ column \in 0 .. 255
        /\ PlaceOf(index) = <<row, column>>
    <2> DEFINE a == get_line(index)
               b == get_column(index)
    <2>1. /\ a \in 0 .. m_height - 1 /\ b \in 0 .. m_width - 1
          /\ PlaceOf(index) = <<row, column>>
      BY PlaceTyped DEF FitsInv
    <2>2. row = a + m_origin_line /\ column = b + m_origin_column
      BY DEF RowOf, ColumnOf
    <2> HIDE DEF a, b, row, column
    <2>3. QED
      BY <2>1, <2>2, SizesAssumption DEF FitsInv, SizedInv
  <1> HIDE DEF row, column
  <1>2. Byte(row) = row /\ Byte(column) = column
    BY <1>1 DEF Byte
  <1>3. Inside(row, Lines) = row /\ Inside(column, Columns) = column
    BY <1>1, StaysInside, SizesAssumption
  <1>4. QED
    BY <1>1, <1>2, <1>3 DEF row, column, Window

\* Two cells have two places.
LEMMA PlacesDiffer ==
  ASSUME SizedInv, NEW i \in Indices, NEW j \in Indices,
         PlaceOf(i) = PlaceOf(j)
  PROVE  i = j
  <1>1. /\ get_line(i) \in 0 .. m_height - 1
        /\ get_column(i) \in 0 .. m_width - 1
        /\ i = m_width * get_line(i) + get_column(i)
        /\ get_line(j) \in 0 .. m_height - 1
        /\ get_column(j) \in 0 .. m_width - 1
        /\ j = m_width * get_line(j) + get_column(j)
    BY PlaceTyped
  <1>2. get_line(i) = get_line(j) /\ get_column(i) = get_column(j)
    BY <1>1 DEF PlaceOf, SizedInv
  <1>3. QED
    BY <1>1, <1>2

\* The next index on a line is that of the next column.
LEMMA NextPlace ==
  ASSUME SizedInv, NEW i \in Indices, NEW j \in Indices, j = i + 1,
         get_line(j) = get_line(i)
  PROVE  RowOf(j) = RowOf(i) /\ ColumnOf(j) = ColumnOf(i) + 1
  <1> DEFINE p == m_width * get_line(i)
  <1>1. /\ get_column(i) \in Int /\ get_column(j) \in Int
        /\ get_line(i) \in Int
        /\ i = m_width * get_line(i) + get_column(i)
        /\ j = m_width * get_line(j) + get_column(j)
    BY PlaceTyped
  <1>2. p \in Int /\ i = p + get_column(i) /\ j = p + get_column(j)
    BY <1>1 DEF SizedInv
  <1> HIDE DEF p
  <1>3. get_column(j) = get_column(i) + 1
    BY <1>1, <1>2
  <1>4. QED
    BY <1>1, <1>3 DEF RowOf, ColumnOf, SizedInv

\* The console after a part of a frame, and what is known of it there.
Reached(state, u, l, c, f, v) ==
    /\ IsString(state.buffer)
    /\ Display(console, state.buffer) = Showing(Lines, Columns, u, l, c, f, v)
    /\ IsFormat(f)
    /\ state.m_format = nullopt \/ state.m_format = f
    /\ \/ state.m_last_written_pos = nullopt
       \/ /\ state.m_last_written_pos \in Indices
          /\ l = RowOf(state.m_last_written_pos)
          /\ c = ColumnOf(state.m_last_written_pos) + 1

\* The cursor is where the next letter belongs when no position is sent.
LEMMA Positioned ==
  ASSUME FitsInv, NEW index \in Indices, NEW last, NEW u, NEW l, NEW c,
         NEW f, NEW v,
         \/ last = nullopt
         \/ last \in Indices /\ l = RowOf(last) /\ c = ColumnOf(last) + 1
  PROVE  LET s == When(PositionNecessary(last, index),
                       position(RowOf(index), ColumnOf(index)))
         IN /\ IsString(s)
            /\ Display(Showing(Lines, Columns, u, l, c, f, v), s) =
                 Showing(Lines, Columns, u, RowOf(index), ColumnOf(index), f, v)
  <1> DEFINE t == Showing(Lines, Columns, u, l, c, f, v)
             e == position(RowOf(index), ColumnOf(index))
             d == Showing(Lines, Columns, u, RowOf(index), ColumnOf(index),
                          f, v)
             necessary == PositionNecessary(last, index)
  <1>1. Apply(t, e) = d
    <2>1. Apply(t, e) =
            Showing(Lines, Columns, u, Inside(Byte(RowOf(index)), Lines),
                    Inside(Byte(ColumnOf(index)), Columns), f, v)
      BY ApplyPosition
    <2>2. /\ Inside(Byte(RowOf(index)), Lines) = RowOf(index)
          /\ Inside(Byte(ColumnOf(index)), Columns) = ColumnOf(index)
      BY PlaceFits
    <2>3. QED
      BY <2>1, <2>2
  <1>2. necessary \/ t = d
    <2>1. SUFFICES ASSUME ~ necessary
                   PROVE  t = d
      OBVIOUS
    <2>2. /\ last # nullopt /\ index = last + 1
          /\ get_line(index) = get_line(last)
      BY <2>1 DEF PositionNecessary
    <2>3. last \in Indices /\ l = RowOf(last) /\ c = ColumnOf(last) + 1
      BY <2>2
    <2>4. RowOf(index) = l /\ ColumnOf(index) = c
      BY <2>2, <2>3, NextPlace DEF FitsInv
    <2>5. QED
      BY <2>4
  <1> HIDE DEF t, e, d, necessary
  <1>3. IsString(When(necessary, e)) /\ Display(t, When(necessary, e)) = d
    BY <1>1, <1>2, FormatPart
  <1>4. QED
    BY <1>3 DEF t, e, d, necessary

\* A cell is written to its place.
LEMMA LetterPlaced ==
  ASSUME FitsInv, NEW index \in Indices, NEW u, NEW f, NEW v, NEW cell,
         IsCell(cell), f = cell.m_format
  PROVE  Display(Showing(Lines, Columns, u, RowOf(index), ColumnOf(index),
                         f, v), <<char(cell.m_letter)>>) =
           Showing(Lines, Columns, [u EXCEPT ![PlaceOf(index)] = cell],
                   RowOf(index), ColumnOf(index) + 1, f, v)
  <1> DEFINE row == RowOf(index)
             column == ColumnOf(index)
             x == cell.m_letter
             t == Showing(Lines, Columns, u, row, column, f, v)
             e == char(x)
  <1>1. column # Columns
    BY PlaceFits, SizesAssumption
  <1>2. PlaceOf(index) = <<row, column>>
    BY PlaceTyped DEF FitsInv
  <1> HIDE DEF row, column, x
  <1>3. Apply(t, e) =
          Showing(Lines, Columns, Written(u, row, column, x, f), row,
                  column + 1, f, v)
    BY <1>1, ApplyLetter
  <1>4. Written(u, row, column, x, f) = [u EXCEPT ![PlaceOf(index)] = cell]
    BY <1>2 DEF Written, IsCell, x
  <1> HIDE DEF t, e
  <1>5. Display(t, <<e>>) = Apply(t, e)
    BY DisplayOne
  <1>6. QED
    BY <1>3, <1>4, <1>5 DEF t, e, row, column, x

\* A cell that is not skipped is shown.
LEMMA CellShown ==
  ASSUME FitsInv, NEW index \in Indices, NEW cells, IsCell(cells[index]),
         NEW state, NEW u, NEW l, NEW c, NEW f, NEW v,
         Reached(state, u, l, c, f, v), ~ Unchanged(cells, index)
  PROVE  Reached(WriteSequence(state, cells, index),
                 [u EXCEPT ![PlaceOf(index)] = cells[index]],
                 RowOf(index), ColumnOf(index) + 1, cells[index].m_format, v)
  <1> DEFINE to == cells[index].m_format
             a == state.buffer
             b == FormatChanges(state.m_format, to)
             p == When(PositionNecessary(state.m_last_written_pos, index),
                       position(RowOf(index), ColumnOf(index)))
             e == char(cells[index].m_letter)
             d1 == Showing(Lines, Columns, u, l, c, f, v)
             d2 == Showing(Lines, Columns, u, l, c, to, v)
             d3 == Showing(Lines, Columns, u, RowOf(index), ColumnOf(index),
                           to, v)
             d4 == Showing(Lines, Columns,
                           [u EXCEPT ![PlaceOf(index)] = cells[index]],
                           RowOf(index), ColumnOf(index) + 1, to, v)
             next == WriteSequence(state, cells, index)
  <1>1. next = [m_last_written_pos |-> index, m_format |-> to,
                buffer |-> Prepared(state, cells, index) \o <<e>>]
    BY CellSteps, Zenon
  <1>2. Prepared(state, cells, index) = (a \o b) \o p
    BY Zenon DEF Prepared, RowOf, ColumnOf
  <1>3. IsFormat(to)
    BY DEF IsCell
  <1>4. IsString(a) /\ Display(console, a) = d1
    BY DEF Reached
  <1>5. IsString(b) /\ Display(d1, b) = d2
    <2>1. IsFormat(f) /\ (state.m_format = nullopt \/ state.m_format = f)
      BY DEF Reached
    <2> HIDE DEF to
    <2>2. QED
      BY <1>3, <2>1, FormatChanged
  <1>6. IsString(p) /\ Display(d2, p) = d3
    <2> DEFINE last == state.m_last_written_pos
    <2>1. \/ last = nullopt
          \/ last \in Indices /\ l = RowOf(last) /\ c = ColumnOf(last) + 1
      BY DEF Reached
    <2> HIDE DEF to, last
    <2>2. LET s == When(PositionNecessary(last, index),
                        position(RowOf(index), ColumnOf(index)))
          IN IsString(s) /\ Display(d2, s) = d3
      BY <2>1, Positioned
    <2>3. QED
      BY <2>2 DEF last
  <1>7. IsString(<<e>>) /\ Display(d3, <<e>>) = d4
    <2>1. IsString(<<e>>)
      BY ShortStrings
    <2>2. Display(d3, <<e>>) = d4
      BY LetterPlaced
    <2>3. QED
      BY <2>1, <2>2
  <1> HIDE DEF a, b, p, e, d1, d2, d3, d4, next
  <1>8. IsString(a \o b) /\ Display(console, a \o b) = d2
    BY <1>4, <1>5, DisplayJoined
  <1>9. IsString((a \o b) \o p) /\ Display(console, (a \o b) \o p) = d3
    <2> DEFINE ab == a \o b
    <2> HIDE DEF ab
    <2>1. IsString(ab) /\ Display(console, ab) = d2
      BY <1>8 DEF ab
    <2>2. IsString(ab \o p) /\ Display(console, ab \o p) = d3
      BY <1>6, <2>1, DisplayJoined
    <2>3. QED
      BY <2>2 DEF ab
  <1>10. /\ IsString(((a \o b) \o p) \o <<e>>)
         /\ Display(console, ((a \o b) \o p) \o <<e>>) = d4
    <2> DEFINE abp == (a \o b) \o p
               s == <<e>>
    <2> HIDE DEF abp, s
    <2>1. IsString(abp) /\ Display(console, abp) = d3
      BY <1>9 DEF abp
    <2>2. IsString(s) /\ Display(d3, s) = d4
      BY <1>7 DEF s
    <2>3. IsString(abp \o s) /\ Display(console, abp \o s) = d4
      BY <2>1, <2>2, DisplayJoined
    <2>4. QED
      BY <2>3 DEF abp, s
  <1>11. IsString(next.buffer) /\ Display(console, next.buffer) = d4
    BY <1>1, <1>2, <1>10
  <1>12. next.m_last_written_pos = index /\ next.m_format = to
    BY <1>1
  <1>13. QED
    BY <1>3, <1>11, <1>12 DEF Reached, d4, next

\* The first k cells are shown, and everything else as it was.
DrawnUpTo(u, g, cells, k) ==
    /\ DOMAIN u = Window(Lines, Columns)
    /\ \A i \in 0 .. k - 1 : u[PlaceOf(i)] = cells[i]
    /\ \A p \in Window(Lines, Columns) :
         (\A i \in 0 .. k - 1 : p # PlaceOf(i)) => u[p] = g[p]

\* One more cell is shown, or was before.
LEMMA DrawnMore ==
  ASSUME FitsInv, NEW k \in Indices, NEW u, NEW g, NEW cells, NEW w,
         DrawnUpTo(u, g, cells, k),
         \/ w = [u EXCEPT ![PlaceOf(k)] = cells[k]]
         \/ w = u /\ g[PlaceOf(k)] = cells[k]
  PROVE  DrawnUpTo(w, g, cells, k + 1)
  <1>1. /\ k \in Nat /\ 0 .. k - 1 \subseteq Indices
        /\ 0 .. (k + 1) - 1 = (0 .. k - 1) \cup {k}
        /\ k \notin 0 .. k - 1
    <2>1. m_width * m_height \in Nat
      BY CellCount DEF FitsInv
    <2>2. QED
      BY <2>1 DEF Indices
  <1>2. PlaceOf(k) \in Window(Lines, Columns)
    BY PlaceFits
  <1>3. \A i \in 0 .. k - 1 : PlaceOf(i) # PlaceOf(k)
    BY <1>1, PlacesDiffer DEF FitsInv
  <1>4. /\ DOMAIN u = Window(Lines, Columns)
        /\ \A i \in 0 .. k - 1 : u[PlaceOf(i)] = cells[i]
        /\ \A p \in Window(Lines, Columns) :
             (\A i \in 0 .. k - 1 : p # PlaceOf(i)) => u[p] = g[p]
    BY DEF DrawnUpTo
  <1>5. /\ DOMAIN w = Window(Lines, Columns)
        /\ w[PlaceOf(k)] = cells[k]
        /\ \A p \in Window(Lines, Columns) : p # PlaceOf(k) => w[p] = u[p]
    BY <1>2, <1>3, <1>4
  <1>6. ASSUME NEW i \in 0 .. k - 1
        PROVE  w[PlaceOf(i)] = cells[i]
    <2>1. PlaceOf(i) \in Window(Lines, Columns)
      BY <1>1, PlaceFits
    <2>2. QED
      BY <1>3, <1>4, <1>5, <2>1
  <1>7. ASSUME NEW p \in Window(Lines, Columns),
               \A i \in 0 .. (k + 1) - 1 : p # PlaceOf(i)
        PROVE  w[p] = g[p]
    <2>1. p # PlaceOf(k) /\ \A i \in 0 .. k - 1 : p # PlaceOf(i)
      BY <1>1, <1>7
    <2>2. QED
      BY <1>4, <1>5, <2>1
  <1>8. \A i \in 0 .. (k + 1) - 1 : w[PlaceOf(i)] = cells[i]
    BY <1>1, <1>5, <1>6
  <1>9. QED
    BY <1>5, <1>7, <1>8 DEF DrawnUpTo

\* Cells that are skipped are shown already.
LEMMA SkippedShown ==
  ASSUME ConsoleShowsLastFrame, NEW cells, NEW index \in Indices,
         Unchanged(cells, index)
  PROVE  console.shown[PlaceOf(index)] = cells[index]
  BY DEF ConsoleShowsLastFrame, Unchanged

\* At the beginning of a frame everything is shown as it was.
LEMMA FrameBegins ==
  ASSUME IsConsole(console, Lines, Columns), NEW cells
  PROVE  \E l, c, f, v :
            /\ Reached(FrameStart, console.shown, l, c, f, v)
            /\ DrawnUpTo(console.shown, console.shown, cells, 0)
  <1> DEFINE g == console.shown
             l == console.line
             c == console.column
             v == console.visible
             f == DefaultFormat
             s == <<reset_formatting>>
             u == Showing(Lines, Columns, g, l, c, f, v)
  <1>1. /\ console = Showing(Lines, Columns, g, l, c, console.format, v)
        /\ DOMAIN g = Window(Lines, Columns)
    BY ConsoleParts
  <1>2. Apply(console, reset_formatting) = u
    <2> DEFINE k == console.format
    <2> HIDE DEF g, l, c, v, k
    <2>1. Apply(Showing(Lines, Columns, g, l, c, k, v), reset_formatting) = u
      BY ApplyFormats
    <2>2. console = Showing(Lines, Columns, g, l, c, k, v)
      BY <1>1 DEF k
    <2>3. QED
      BY <2>1, <2>2
  <1>3. IsString(s) /\ Display(console, s) = Apply(console, reset_formatting)
    BY ShortStrings, DisplayOne
  <1>4. IsFormat(f)
    BY DEF IsFormat, DefaultFormat
  <1> HIDE DEF f, s, u
  <1>5. /\ FrameStart.buffer = s /\ FrameStart.m_format = nullopt
        /\ FrameStart.m_last_written_pos = nullopt
    BY DEF FrameStart, s
  <1>6. Reached(FrameStart, g, l, c, f, v)
    BY <1>2, <1>3, <1>4, <1>5 DEF Reached, u
  <1>7. DrawnUpTo(g, g, cells, 0)
    <2>1. 0 .. 0 - 1 = {}
      OBVIOUS
    <2>2. QED
      BY <1>1, <2>1 DEF DrawnUpTo
  <1>8. QED
    BY <1>6, <1>7

\* A frame draws its cells, and nothing else.
LEMMA FrameDraws ==
  ASSUME FitsInv, IsConsole(console, Lines, Columns), ConsoleShowsLastFrame,
         NEW cells, AreCells(cells)
  PROVE  DrawnUpTo(Display(console, Frame(cells)).shown, console.shown, cells,
                   m_width * m_height)
  <1> DEFINE N == m_width * m_height
             g == console.shown
  <1>1. N \in Nat
    BY CellCount DEF FitsInv
  <1>2. PICK F : StatesAre(cells, F) /\ Frame(cells) = F[N].buffer
    BY <1>1, FrameUnfolds
  <1> DEFINE Drawn(m) == \E u, l, c, f, v : /\ Reached(F[m], u, l, c, f, v)
                                            /\ DrawnUpTo(u, g, cells, m)
             S == {m \in Nat : m <= N => Drawn(m)}
  <1>3. 0 \in S
    <2>1. F[0] = FrameStart
      BY <1>1, <1>2 DEF StatesAre
    <2>2. Drawn(0)
      BY <2>1, FrameBegins
    <2>3. QED
      BY <2>2
  <1>4. \A m \in S : m + 1 \in S
    <2> TAKE m \in S
    <2>1. ASSUME m + 1 <= N
          PROVE  Drawn(m + 1)
      <3>1. m \in Indices /\ Drawn(m)
        BY <1>1, <2>1 DEF Indices
      <3>2. PICK u, l, c, f, v : /\ Reached(F[m], u, l, c, f, v)
                                 /\ DrawnUpTo(u, g, cells, m)
        BY <3>1
      <3>3. F[m + 1] = WriteSequence(F[m], cells, m)
        BY <1>1, <1>2, <3>1, NextState
      <3>4. CASE Unchanged(cells, m)
        <4>1. F[m + 1] = F[m]
          <5>1. WriteSequence(F[m], cells, m) = F[m]
            BY <3>4, CellSteps, Zenon
          <5>2. QED
            BY <3>3, <5>1
        <4>2. g[PlaceOf(m)] = cells[m]
          BY <3>1, <3>4, SkippedShown
        <4>3. DrawnUpTo(u, g, cells, m + 1)
          BY <3>1, <3>2, <4>2, DrawnMore
        <4>4. Reached(F[m + 1], u, l, c, f, v)
          BY <3>2, <4>1
        <4>5. QED
          BY <4>3, <4>4
      <3>5. CASE ~ Unchanged(cells, m)
        <4> DEFINE w == [u EXCEPT ![PlaceOf(m)] = cells[m]]
                   row == RowOf(m)
                   column == ColumnOf(m) + 1
                   to == cells[m].m_format
        <4>1. IsCell(cells[m])
          BY <3>1 DEF AreCells
        <4>2. Reached(WriteSequence(F[m], cells, m), w, row, column, to, v)
          BY <3>1, <3>2, <3>5, <4>1, CellShown
        <4>3. DrawnUpTo(w, g, cells, m + 1)
          BY <3>1, <3>2, DrawnMore
        <4> HIDE DEF w, row, column, to
        <4>4. Reached(F[m + 1], w, row, column, to, v)
          BY <3>3, <4>2
        <4>5. QED
          BY <4>3, <4>4
      <3>6. QED
        BY <3>4, <3>5
    <2>2. QED
      BY <2>1
  <1> HIDE DEF S
  <1>5. S = Nat
    <2>1. S \in SUBSET Nat
      BY DEF S
    <2>2. QED
      BY <1>3, <1>4, <2>1, Induction
  <1>6. PICK u, l, c, f, v : /\ Reached(F[N], u, l, c, f, v)
                             /\ DrawnUpTo(u, g, cells, N)
    BY <1>1, <1>5 DEF S
  <1>7. Display(console, Frame(cells)).shown = u
    BY <1>2, <1>6 DEF Reached, Showing
  <1>8. QED
    BY <1>6, <1>7

\* The places of the cells on the console.
LEMMA AllPlaces ==
  ASSUME SizedInv, NEW u, NEW g, NEW cells,
         DrawnUpTo(u, g, cells, m_width * m_height)
  PROVE  /\ \A index \in Indices : u[PlaceOf(index)] = cells[index]
         /\ \A p \in Window(Lines, Columns)
                \ {PlaceOf(index) : index \in Indices} : u[p] = g[p]
  BY DEF DrawnUpTo, Indices

\* What the console shows before the first frame, and after every frame.
ShownInv ==
    /\ FitsInv
    /\ ConsoleShowsLastFrame
    /\ m_old_cells = NoCells =>
         \A p \in Window(Lines, Columns) : console.shown[p] = Other

LEMMA InitShown ==
  ASSUME ScreensFit, PlainInit \/ PixelInit
  PROVE  ShownInv
  <1>1. \A p \in Window(Lines, Columns) : Dirty.shown[p] = Other
    BY DEF Dirty, Opened
  <1>2. ASSUME NEW size \in (Nat \ {0}) \X (Nat \ {0}),
               NEW origin \in Nat \X Nat, NEW background, IsCell(background),
               Construct(size, origin, background, Dirty), Fits(size, origin)
        PROVE  ShownInv
    <2>1. /\ SizedInv /\ m_old_cells = NoCells
          /\ m_width = size[1] /\ m_height = size[2]
          /\ m_origin_column = origin[1] /\ m_origin_line = origin[2]
      BY <1>2, ConstructTypes
    <2>2. console = Dirty
      BY <1>2 DEF Construct
    <2>3. FitsInv
      BY <1>2, <2>1 DEF FitsInv, Fits
    <2>4. QED
      BY <1>1, <2>1, <2>2, <2>3 DEF ShownInv, ConsoleShowsLastFrame
  <1>3. CASE PlainInit
    <2>1. PICK size \in Sizes, origin \in Origins, background \in Backgrounds :
            Construct(size, origin, background, Dirty)
      BY <1>3 DEF PlainInit, Init
    <2>2. /\ size \in (Nat \ {0}) \X (Nat \ {0}) /\ origin \in Nat \X Nat
          /\ background \in Cells /\ Fits(size, origin)
      BY SizesAssumption, CellsAssumption DEF ScreensFit
    <2>3. IsCell(background)
      BY <2>2, CellsAreCells
    <2>4. QED
      BY <1>2, <2>1, <2>2, <2>3
  <1>4. CASE PixelInit
    <2>1. PICK size \in PixelSizes, origin \in PixelOrigins, color \in Colors :
            Construct(<<size[1], LineHeight(origin[2], size[2])>>,
                      <<origin[1], origin[2] \div 2>>,
                      PixelBackground(color), Dirty)
      BY <1>4 DEF PixelInit
    <2>2. /\ size[1] \in Nat \ {0} /\ size[2] \in Nat \ {0}
          /\ origin[1] \in Nat /\ origin[2] \in Nat
      BY PixelSizesAssumption
    <2> DEFINE height == LineHeight(origin[2], size[2])
               line == origin[2] \div 2
               cells == <<size[1], height>>
               place == <<origin[1], line>>
    <2>3. height \in Nat \ {0} /\ line \in Nat
      BY <2>2 DEF LineHeight
    <2>4. cells \in (Nat \ {0}) \X (Nat \ {0}) /\ place \in Nat \X Nat
      BY <2>2, <2>3
    <2>5. Construct(cells, place, PixelBackground(color), Dirty)
      BY <2>1
    <2>6. IsCell(PixelBackground(color)) /\ Fits(cells, place)
      BY CellsAreCells DEF ScreensFit
    <2> HIDE DEF cells, place
    <2>7. QED
      BY <1>2, <2>4, <2>5, <2>6
  <1>5. QED
    BY <1>3, <1>4

\* A step that draws nothing.
LEMMA NoFrameShown ==
  ASSUME ShownInv, UNCHANGED <<layout, m_old_cells, console>>
  PROVE  ShownInv'
  <1>1. Indices' = Indices /\ FitsInv'
    BY DEF ShownInv, FitsInv, SizedInv, layout, Indices
  <1>2. \A index : PlaceOf(index)' = PlaceOf(index)
    BY DEF PlaceOf, get_line, get_column, layout
  <1>3. {PlaceOf(index) : index \in Indices}'
          = {PlaceOf(index) : index \in Indices}
    BY <1>1, <1>2
  <1>4. ConsoleShowsLastFrame'
    BY <1>1, <1>2, <1>3 DEF ShownInv, ConsoleShowsLastFrame
  <1>5. QED
    BY <1>1, <1>4 DEF ShownInv

\* A frame.
LEMMA FrameShown ==
  ASSUME ShownInv, IsConsole(console, Lines, Columns), NEW cells,
         AreCells(cells), Draw(cells)
  PROVE  /\ ShownInv'
         /\ \A index \in Indices :
              console'.shown[PlaceOf(index)] = cells[index]
  <1> DEFINE u == console'.shown
             g == console.shown
             Places == {PlaceOf(index) : index \in Indices}
  <1>1. /\ console' = Display(console, Frame(cells))
        /\ m_old_cells' = cells /\ UNCHANGED layout
    BY DEF Draw
  <1>2. DrawnUpTo(u, g, cells, m_width * m_height)
    BY <1>1, FrameDraws DEF ShownInv
  <1>3. /\ DOMAIN u = Window(Lines, Columns)
        /\ \A index \in Indices : u[PlaceOf(index)] = cells[index]
        /\ \A p \in Window(Lines, Columns) \ Places : u[p] = g[p]
    BY <1>2, AllPlaces DEF DrawnUpTo, ShownInv, FitsInv
  <1>4. \A p \in Window(Lines, Columns) \ Places : g[p] = Other
    <2>1. DOMAIN g = Window(Lines, Columns)
      BY ConsoleParts
    <2>2. QED
      BY <2>1 DEF ShownInv, ConsoleShowsLastFrame
  <1>5. Indices' = Indices /\ FitsInv'
    BY <1>1 DEF ShownInv, FitsInv, SizedInv, layout, Indices
  <1>6. \A index : PlaceOf(index)' = PlaceOf(index)
    BY <1>1 DEF PlaceOf, get_line, get_column, layout
  <1>7. {PlaceOf(index) : index \in Indices}' = Places
    BY <1>5, <1>6
  <1>8. m_old_cells' # NoCells
    <2>1. DOMAIN cells = 0 .. m_width * m_height - 1
      BY DEF AreCells, Indices
    <2>2. QED
      BY <1>1, <2>1, NotEmpty DEF ShownInv, FitsInv, SizedInv, NoCells
  <1>9. ConsoleShowsLastFrame'
    BY <1>1, <1>3, <1>4, <1>5, <1>6, <1>7 DEF ConsoleShowsLastFrame
  <1>10. QED
    BY <1>3, <1>5, <1>8, <1>9 DEF ShownInv

\* Frames are the only steps that write to the console.
LEMMA FramesDraw ==
  ASSUME TypesInv, [PlainNext \/ PixelNext]_pixelVars
  PROVE  \/ UNCHANGED <<layout, m_old_cells, console>>
         \/ m_pixels = NoPixels /\ Draw(m_cells)
         \/ m_pixels # NoPixels /\ GetPixelString
  BY DEF PlainNext, PixelNext, Next, SetCell, WriteInto, Clear, GetString,
         SetPixel, ClearPixels, Override, pixelVars, vars

LEMMA StepShown ==
  ASSUME TypesInv, ShownInv, [PlainNext \/ PixelNext]_pixelVars
  PROVE  ShownInv'
  <1>1. IsConsole(console, Lines, Columns) /\ AreCells(m_cells)
    BY DEF TypesInv, CellsInv
  <1>2. AreCells(ComputedCells)
    BY ComputedParts
  <1>3. CASE UNCHANGED <<layout, m_old_cells, console>>
    BY <1>3, NoFrameShown
  <1>4. CASE Draw(m_cells)
    BY <1>1, <1>4, FrameShown
  <1>5. CASE GetPixelString
    <2>1. Draw(ComputedCells)
      BY <1>5 DEF GetPixelString
    <2>2. QED
      BY <1>1, <1>2, <2>1, FrameShown
  <1>6. QED
    BY <1>3, <1>4, <1>5, FramesDraw

\* Types, and what the console shows.
THEOREM ScreenInvariance ==
  ASSUME ScreensFit
  PROVE  PixelSpec => [](TypesInv /\ ShownInv)
  <1>1. PlainInit \/ PixelInit => TypesInv /\ ShownInv
    BY InitTypes, InitShown
  <1>2. TypesInv /\ ShownInv /\ [PlainNext \/ PixelNext]_pixelVars
          => (TypesInv /\ ShownInv)'
    BY StepTypes, StepShown
  <1>3. QED
    BY <1>1, <1>2, PTL DEF PixelSpec

\* However little the frames have sent, the console shows the last frame and
\* around it what it showed before.
THEOREM LastFrameOnConsole ==
  ASSUME ScreensFit
  PROVE  PixelSpec => []ConsoleShowsLastFrame
  <1>1. ShownInv => ConsoleShowsLastFrame
    BY DEF ShownInv
  <1>2. QED
    BY <1>1, ScreenInvariance, PTL
-----------------------------------------------------------------------------
(* Pixels *)

\* A color is that of a pixel, or the fill color above and below them.
LEMMA PixelAt ==
  ASSUME SizedInv, PixelInv, NEW column \in 0 .. m_width - 1, NEW row \in Int
  PROVE  HalfColor(column, row) =
           IF row \in 0 .. m_halfline_height - 1
           THEN m_pixels[row * m_width + column] ELSE m_fill_color
  <1> DEFINE n == m_halfline_height
             p == m_width * row
             q == m_width * n
             index == row * m_width + column
  <1>1. /\ m_width \in Nat \ {0} /\ n \in Nat \ {0}
        /\ DOMAIN m_pixels = 0 .. q - 1
    BY DEF SizedInv, PixelInv
  <1>2. /\ p \in Int /\ q \in Int /\ index = p + column
        /\ m_width * 0 = 0
    BY <1>1
  <1>3. /\ row < n => p + m_width <= q
        /\ row < 0 => p + m_width <= m_width * 0
        /\ 0 < row => m_width * 0 + m_width <= p
        /\ n < row => q + m_width <= p
    BY <1>1, Products
  <1>4. (row = 0 => p = 0) /\ (row = n => p = q)
    BY <1>1
  <1> HIDE DEF n, p, q, index
  <1>5. index \in 0 .. q - 1 <=> row \in 0 .. n - 1
    BY <1>1, <1>2, <1>3, <1>4
  <1>6. HalfColor(column, row) =
          IF index \in DOMAIN m_pixels THEN m_pixels[index] ELSE m_fill_color
    BY DEF HalfColor, index
  <1>7. QED
    BY <1>1, <1>5, <1>6 DEF n, index

\* The halves of a line.
LEMMA HalfRow ==
  ASSUME PixelInv, NEW halfline \in Int
  PROVE  LET a == (halfline \div 2) - m_origin_line
             row == halfline - m_origin_halfline
         IN /\ halfline % 2 = 0 => row = TopHalfline(a)
            /\ halfline % 2 # 0 => row = TopHalfline(a) + 1
  <1> DEFINE x == halfline \div 2
             y == m_origin_halfline \div 2
             z == m_origin_halfline % 2
             b == halfline % 2
  <1>1. /\ x \in Int /\ y \in Int /\ m_origin_halfline \in Nat
        /\ m_origin_line = y
        /\ z = m_origin_halfline - 2 * y /\ b = halfline - 2 * x
        /\ b \in {0, 1}
    BY Halves DEF PixelInv
  <1>2. TopHalfline(x - m_origin_line) = 2 * (x - m_origin_line) - z
    BY DEF TopHalfline
  <1> HIDE DEF x, y, z, b
  <1>3. /\ b = 0 => halfline - m_origin_halfline
                      = TopHalfline(x - m_origin_line)
        /\ b # 0 => halfline - m_origin_halfline
                      = TopHalfline(x - m_origin_line) + 1
    BY <1>1, <1>2
  <1>4. QED
    BY <1>3 DEF x, b

\* A frame of computed cells shows the pixels.
LEMMA PixelsDrawn ==
  ASSUME TypesInv, m_pixels # NoPixels,
         UNCHANGED <<layout, m_pixels, pixelLayout>>,
         \A index \in Indices :
           console'.shown[PlaceOf(index)] = ComputedCells[index]
  PROVE  PixelsShown'
  <1>1. PixelInv /\ SizedInv
    BY DEF TypesInv
  <1>2. ASSUME NEW column \in 0 .. m_width - 1,
               NEW halfline \in 2 * m_origin_line ..
                                  2 * (m_origin_line + m_height) - 1
        PROVE  LET format == console'.shown[<<halfline \div 2,
                                    m_origin_column + column>>].m_format
                   row == halfline - m_origin_halfline
                   shown == IF halfline % 2 = 0 THEN format.m_fg_color
                            ELSE format.m_bg_color
               IN shown = IF halfline \in PixelHalflines
                          THEN m_pixels[row * m_width + column]
                          ELSE m_fill_color
    <2> DEFINE x == halfline \div 2
               a == x - m_origin_line
               row == halfline - m_origin_halfline
               index == m_width * a + column
    <2>1. /\ m_origin_line \in Nat /\ m_height \in Nat \ {0}
          /\ m_width \in Nat \ {0} /\ m_origin_halfline \in Nat
          /\ m_halfline_height \in Nat \ {0} /\ halfline \in Int
          /\ m_origin_column \in Nat
      BY <1>1 DEF SizedInv, PixelInv
    <2>2. a \in 0 .. m_height - 1
      <3>1. /\ x \in Int
            /\ halfline = 2 * x \/ halfline = 2 * x + 1
        BY <2>1, Halves
      <3> HIDE DEF x
      <3>2. QED
        BY <2>1, <3>1
    <2> HIDE DEF a
    <2>3. index \in 0 .. m_width * m_height - 1
          /\ index \div m_width = a /\ index % m_width = column
      BY <2>1, <2>2, IndexOf
    <2> HIDE DEF index
    <2>4. /\ index \in Indices /\ get_line(index) = a
          /\ get_column(index) = column
      BY <2>3 DEF Indices, get_line, get_column
    <2>5. PlaceOf(index) = <<x, m_origin_column + column>>
      <3>1. a + m_origin_line = x
        <4>1. x \in Int
          BY <2>1
        <4> HIDE DEF x
        <4>2. QED
          BY <2>1, <4>1 DEF a
      <3>2. column + m_origin_column = m_origin_column + column
        BY <2>1
      <3>3. QED
        BY <2>4, <3>1, <3>2 DEF PlaceOf
    <2> DEFINE format == ComputedCells[index].m_format
               top == TopHalfline(a)
    <2>6. console'.shown[<<x, m_origin_column + column>>].m_format = format
      BY <2>4, <2>5
    <2>7. /\ format.m_fg_color = HalfColor(column, top)
          /\ format.m_bg_color = HalfColor(column, top + 1)
      BY <2>4, ComputedParts
    <2>8. /\ halfline % 2 = 0 => row = top
          /\ halfline % 2 # 0 => row = top + 1
      BY <1>1, <2>1, HalfRow DEF a
    <2>9. HalfColor(column, row) =
            IF row \in 0 .. m_halfline_height - 1
            THEN m_pixels[row * m_width + column] ELSE m_fill_color
      BY <1>1, <2>1, PixelAt
    <2>10. halfline \in PixelHalflines <=> row \in 0 .. m_halfline_height - 1
      BY <2>1 DEF PixelHalflines
    <2> DEFINE shown == IF halfline % 2 = 0 THEN format.m_fg_color
                        ELSE format.m_bg_color
    <2>11. shown = HalfColor(column, row)
      BY <2>7, <2>8
    <2> HIDE DEF format, row, top
    <2>12. shown = IF halfline \in PixelHalflines
                   THEN m_pixels[row * m_width + column] ELSE m_fill_color
      BY <2>9, <2>10, <2>11
    <2>13. QED
      BY <2>6, <2>12 DEF row, format
  <1>3. /\ m_width' = m_width /\ m_height' = m_height
        /\ m_origin_line' = m_origin_line
        /\ m_origin_column' = m_origin_column
        /\ m_pixels' = m_pixels /\ m_fill_color' = m_fill_color
        /\ m_origin_halfline' = m_origin_halfline
        /\ m_halfline_height' = m_halfline_height
    BY DEF layout, pixelLayout
  <1>4. PixelHalflines' = PixelHalflines
    BY <1>3 DEF PixelHalflines
  <1>5. QED
    BY <1>2, <1>3, <1>4 DEF PixelsShown

\* After every frame each pixel is shown on its half of a cell, and the halves
\* around them have the fill color.
THEOREM PixelsOnConsole ==
  ASSUME ScreensFit
  PROVE  PixelSpec => FramesShowPixels
  <1>1. ASSUME TypesInv, ShownInv,
               [PlainNext \/ PixelNext]_pixelVars
        PROVE  [m_pixels # NoPixels /\ GetPixelString => PixelsShown']_pixelVars
    <2>1. ASSUME m_pixels # NoPixels, GetPixelString
          PROVE  PixelsShown'
      <3>1. /\ IsConsole(console, Lines, Columns) /\ AreCells(ComputedCells)
            /\ Draw(ComputedCells) /\ UNCHANGED <<m_pixels, pixelLayout>>
        BY <1>1, <2>1, ComputedParts DEF TypesInv, GetPixelString
      <3>2. UNCHANGED layout
        BY <3>1 DEF Draw
      <3>3. \A index \in Indices :
              console'.shown[PlaceOf(index)] = ComputedCells[index]
        BY <1>1, <3>1, FrameShown
      <3>4. QED
        BY <1>1, <2>1, <3>1, <3>2, <3>3, PixelsDrawn
    <2>2. QED
      BY <2>1
  <1>2. QED
    BY <1>1, ScreenInvariance, PTL DEF PixelSpec, FramesShowPixels
-----------------------------------------------------------------------------
(* How much is drawn *)

\* The places of the letters in a string.
Letters(s) == {k \in DOMAIN s : s[k].kind = "char"}

\* Strings without letters add none.
LEMMA LettersKept ==
  ASSUME NEW s, NEW u, IsString(s), IsString(u), Letters(u) = {}
  PROVE  Letters(s \o u) = Letters(s)
  <1>1. PICK S : s \in Seq(S)
    BY DEF IsString
  <1>2. PICK R : u \in Seq(R)
    BY DEF IsString
  <1>3. s \in Seq(S \cup R) /\ u \in Seq(S \cup R)
    BY <1>1, <1>2
  <1> DEFINE w == s \o u
  <1>4. /\ DOMAIN w = 1 .. Len(s) + Len(u) /\ DOMAIN s = 1 .. Len(s)
        /\ DOMAIN u = 1 .. Len(u) /\ Len(s) \in Nat /\ Len(u) \in Nat
        /\ \A k \in 1 .. Len(s) : w[k] = s[k]
        /\ \A k \in 1 .. Len(u) : w[k + Len(s)] = u[k]
    BY <1>3
  <1> HIDE DEF w
  <1>5. ASSUME NEW k \in DOMAIN w, k \notin DOMAIN s, w[k].kind = "char"
        PROVE  FALSE
    <2>1. k - Len(s) \in 1 .. Len(u) /\ (k - Len(s)) + Len(s) = k
      BY <1>4, <1>5
    <2>2. u[k - Len(s)] = w[k]
      BY <1>4, <2>1
    <2>3. k - Len(s) \in Letters(u)
      BY <1>4, <1>5, <2>1, <2>2 DEF Letters
    <2>4. QED
      BY <2>3
  <1>6. \A k \in DOMAIN s : k \in DOMAIN w /\ w[k] = s[k]
    BY <1>4
  <1>7. Letters(w) = Letters(s)
    BY <1>5, <1>6 DEF Letters
  <1>8. QED
    BY <1>7 DEF w

\* A letter at the end is one more.
LEMMA LetterAdded ==
  ASSUME NEW s, IsString(s), NEW e, e.kind = "char",
         IsFiniteSet(Letters(s))
  PROVE  /\ IsFiniteSet(Letters(s \o <<e>>))
         /\ Cardinality(Letters(s \o <<e>>)) = Cardinality(Letters(s)) + 1
  <1>1. PICK S : s \in Seq(S)
    BY DEF IsString
  <1>2. s \in Seq(S \cup {e}) /\ e \in S \cup {e}
    BY <1>1
  <1> DEFINE w == s \o <<e>>
             n == Len(s) + 1
  <1>3. /\ Len(s) \in Nat /\ DOMAIN w = 1 .. n /\ DOMAIN s = 1 .. Len(s)
        /\ \A k \in 1 .. Len(s) : w[k] = s[k]
        /\ w[n] = e
    BY <1>2
  <1> HIDE DEF w
  <1>4. Letters(w) = Letters(s) \cup {n} /\ n \notin Letters(s)
    BY <1>3 DEF Letters
  <1>5. /\ IsFiniteSet(Letters(s) \cup {n})
        /\ Cardinality(Letters(s) \cup {n}) = Cardinality(Letters(s)) + 1
    BY <1>4, FS_AddElement
  <1>6. QED
    BY <1>4, <1>5 DEF w

\* What is sent before a letter has none.
LEMMA NoLetters ==
  ASSUME NEW c, NEW e, e.kind # "char"
  PROVE  IsString(When(c, e)) /\ Letters(When(c, e)) = {}
  <1>1. IsString(<<e>>) /\ IsString(<<>>)
    BY ShortStrings
  <1>2. Letters(<<e>>) = {} /\ Letters(<<>>) = {}
    BY DEF Letters
  <1>3. When(c, e) = <<e>> \/ When(c, e) = <<>>
    BY DEF When
  <1>4. QED
    BY <1>1, <1>2, <1>3

LEMMA ChangesHaveNoLetters ==
  ASSUME NEW from, NEW to
  PROVE  /\ IsString(FormatChanges(from, to))
         /\ Letters(FormatChanges(from, to)) = {}
  <1> DEFINE differs(part) == from = nullopt \/ from[part] # to[part]
             s1 == When(differs("m_fg_color"), fg_rgb(to.m_fg_color))
             s2 == When(differs("m_bg_color"), bg_rgb(to.m_bg_color))
             s3 == When(differs("m_underline"), underline(to.m_underline))
             s4 == When(differs("m_bold"), bold(to.m_bold))
  <1>1. FormatChanges(from, to) = ((s1 \o s2) \o s3) \o s4
    BY DEF FormatChanges
  <1>2. /\ fg_rgb(to.m_fg_color).kind # "char"
        /\ bg_rgb(to.m_bg_color).kind # "char"
        /\ underline(to.m_underline).kind # "char"
        /\ bold(to.m_bold).kind # "char"
    BY DEF fg_rgb, bg_rgb, underline, bold
  <1>3. /\ IsString(s1) /\ Letters(s1) = {} /\ IsString(s2) /\ Letters(s2) = {}
        /\ IsString(s3) /\ Letters(s3) = {} /\ IsString(s4) /\ Letters(s4) = {}
    BY <1>2, NoLetters
  <1> HIDE DEF s1, s2, s3, s4
  <1>4. IsString(s1 \o s2) /\ Letters(s1 \o s2) = {}
    BY <1>3, LettersKept, DisplayJoined
  <1>5. IsString((s1 \o s2) \o s3) /\ Letters((s1 \o s2) \o s3) = {}
    BY <1>3, <1>4, LettersKept, DisplayJoined
  <1>6. /\ IsString(((s1 \o s2) \o s3) \o s4)
        /\ Letters(((s1 \o s2) \o s3) \o s4) = {}
    BY <1>3, <1>5, LettersKept, DisplayJoined
  <1>7. QED
    BY <1>1, <1>6

\* A cell that is not skipped is one more letter.
LEMMA CellCounted ==
  ASSUME NEW state, NEW cells, NEW index, IsString(state.buffer),
         IsFiniteSet(Letters(state.buffer)), ~ Unchanged(cells, index)
  PROVE  LET next == WriteSequence(state, cells, index).buffer
         IN /\ IsString(next)
            /\ IsFiniteSet(Letters(next))
            /\ Cardinality(Letters(next)) =
                 Cardinality(Letters(state.buffer)) + 1
  <1> DEFINE a == state.buffer
             b == FormatChanges(state.m_format, cells[index].m_format)
             p == position(get_line(index) + m_origin_line,
                           get_column(index) + m_origin_column)
             d == When(PositionNecessary(state.m_last_written_pos, index), p)
             e == char(cells[index].m_letter)
             next == WriteSequence(state, cells, index)
  <1>1. next = [m_last_written_pos |-> index,
                m_format |-> cells[index].m_format,
                buffer |-> Prepared(state, cells, index) \o <<e>>]
    BY CellSteps, Zenon
  <1>2. Prepared(state, cells, index) = (a \o b) \o d
    BY Zenon DEF Prepared
  <1>3. IsString(b) /\ Letters(b) = {}
    BY ChangesHaveNoLetters
  <1>4. IsString(d) /\ Letters(d) = {}
    <2>1. p.kind # "char"
      BY DEF position
    <2>2. QED
      BY <2>1, NoLetters
  <1>5. e.kind = "char" /\ IsString(<<e>>)
    BY ShortStrings DEF char
  <1> HIDE DEF a, b, d, e, next
  <1>6. IsString(a) /\ IsFiniteSet(Letters(a))
    BY DEF a
  <1>7. IsString(a \o b) /\ Letters(a \o b) = Letters(a)
    BY <1>3, <1>6, LettersKept, DisplayJoined
  <1>8. IsString((a \o b) \o d) /\ Letters((a \o b) \o d) = Letters(a)
    BY <1>4, <1>7, LettersKept, DisplayJoined
  <1> DEFINE w == (a \o b) \o d
  <1> HIDE DEF w
  <1>9. /\ IsString(w \o <<e>>)
        /\ IsFiniteSet(Letters(w \o <<e>>))
        /\ Cardinality(Letters(w \o <<e>>)) = Cardinality(Letters(w)) + 1
    BY <1>5, <1>6, <1>8, LetterAdded, DisplayJoined DEF w
  <1>10. next.buffer = w \o <<e>> /\ Letters(w) = Letters(a)
    BY <1>1, <1>2, <1>8 DEF w
  <1>11. QED
    BY <1>9, <1>10 DEF a, next

\* The cells below k that a frame does not skip.
ChangedBelow(cells, k) == {i \in 0 .. k - 1 : ~ Unchanged(cells, i)}

\* One more of them, or none.
LEMMA ChangedMore ==
  ASSUME NEW cells, NEW k \in Nat
  PROVE  /\ IsFiniteSet(ChangedBelow(cells, k))
         /\ Unchanged(cells, k) =>
              ChangedBelow(cells, k + 1) = ChangedBelow(cells, k)
         /\ ~ Unchanged(cells, k) =>
              /\ k \in ChangedBelow(cells, k + 1)
              /\ Cardinality(ChangedBelow(cells, k + 1)) =
                   Cardinality(ChangedBelow(cells, k)) + 1
  <1> DEFINE A == ChangedBelow(cells, k)
             B == ChangedBelow(cells, k + 1)
  <1>1. IsFiniteSet(A)
    <2>1. IsFiniteSet(0 .. k - 1)
      BY FS_Interval
    <2>2. A \subseteq 0 .. k - 1
      BY DEF ChangedBelow
    <2>3. QED
      BY <2>1, <2>2, FS_Subset
  <1>2. 0 .. (k + 1) - 1 = (0 .. k - 1) \cup {k} /\ k \notin 0 .. k - 1
    OBVIOUS
  <1>3. ASSUME Unchanged(cells, k)
        PROVE  B = A
    BY <1>2, <1>3 DEF ChangedBelow
  <1>4. ASSUME ~ Unchanged(cells, k)
        PROVE  k \in B /\ Cardinality(B) = Cardinality(A) + 1
    <2>1. B = A \cup {k} /\ k \notin A
      BY <1>2, <1>4 DEF ChangedBelow
    <2> HIDE DEF A, B
    <2>2. Cardinality(A \cup {k}) = Cardinality(A) + 1
      BY <1>1, <2>1, FS_AddElement
    <2>3. QED
      BY <2>1, <2>2
  <1>5. QED
    BY <1>1, <1>3, <1>4

\* A frame has one letter for each of them, and is the reset alone if there
\* are none.
Counted(buffer, cells, k) ==
    /\ IsString(buffer)
    /\ IsFiniteSet(Letters(buffer))
    /\ Cardinality(Letters(buffer)) = Cardinality(ChangedBelow(cells, k))
    /\ ChangedBelow(cells, k) = {} => buffer = <<reset_formatting>>

LEMMA FrameCounted ==
  ASSUME SizedInv, NEW cells
  PROVE  Counted(Frame(cells), cells, m_width * m_height)
  <1> DEFINE N == m_width * m_height
  <1>1. N \in Nat
    BY CellCount
  <1>2. PICK F : StatesAre(cells, F) /\ Frame(cells) = F[N].buffer
    BY <1>1, FrameUnfolds
  <1> DEFINE S == {m \in Nat : m <= N => Counted(F[m].buffer, cells, m)}
  <1>3. 0 \in S
    <2> DEFINE s == <<reset_formatting>>
    <2>1. F[0].buffer = s
      BY <1>1, <1>2 DEF StatesAre, FrameStart
    <2>2. IsString(s)
      BY ShortStrings
    <2>3. Letters(s) = {}
      BY DEF Letters, reset_formatting
    <2>4. ChangedBelow(cells, 0) = {}
      BY DEF ChangedBelow
    <2>5. IsFiniteSet(Letters(s))
      BY <2>3, FS_EmptySet
    <2> HIDE DEF s
    <2>6. Counted(s, cells, 0)
      BY <2>2, <2>3, <2>4, <2>5 DEF Counted, s
    <2>7. QED
      BY <2>1, <2>6
  <1>4. \A m \in S : m + 1 \in S
    <2> TAKE m \in S
    <2>1. ASSUME m + 1 <= N
          PROVE  Counted(F[m + 1].buffer, cells, m + 1)
      <3>1. m \in Indices /\ Counted(F[m].buffer, cells, m) /\ m \in Nat
        BY <1>1, <2>1 DEF Indices
      <3>2. F[m + 1] = WriteSequence(F[m], cells, m)
        BY <1>1, <1>2, <3>1, NextState
      <3>3. CASE Unchanged(cells, m)
        <4>1. WriteSequence(F[m], cells, m) = F[m]
          BY <3>3, CellSteps, Zenon
        <4>2. ChangedBelow(cells, m + 1) = ChangedBelow(cells, m)
          BY <3>1, <3>3, ChangedMore
        <4>3. QED
          BY <3>1, <3>2, <4>1, <4>2 DEF Counted
      <3>4. CASE ~ Unchanged(cells, m)
        <4> DEFINE a == F[m].buffer
                   b == F[m + 1].buffer
        <4>1. /\ IsString(b) /\ IsFiniteSet(Letters(b))
              /\ Cardinality(Letters(b)) = Cardinality(Letters(a)) + 1
          BY <3>1, <3>2, <3>4, CellCounted DEF Counted
        <4>2. /\ m \in ChangedBelow(cells, m + 1)
              /\ Cardinality(ChangedBelow(cells, m + 1)) =
                   Cardinality(ChangedBelow(cells, m)) + 1
          BY <3>1, <3>4, ChangedMore
        <4> HIDE DEF a, b
        <4>3. Cardinality(Letters(a)) = Cardinality(ChangedBelow(cells, m))
          BY <3>1 DEF Counted, a
        <4>4. Counted(b, cells, m + 1)
          BY <4>1, <4>2, <4>3 DEF Counted
        <4>5. QED
          BY <4>4 DEF b
      <3>5. QED
        BY <3>3, <3>4
    <2>2. QED
      BY <2>1
  <1> HIDE DEF S
  <1>5. S = Nat
    <2>1. S \in SUBSET Nat
      BY DEF S
    <2>2. QED
      BY <1>3, <1>4, <2>1, Induction
  <1>6. QED
    BY <1>1, <1>2, <1>5 DEF S

\* Before the first frame no cell looks like the output around the screen.
OtherIsNoCell == Other \notin Cells \cup Overrides

NewInv ==
    m_old_cells = NoCells => \A index \in Indices : m_cells[index] # Other

LEMMA InitNew ==
  ASSUME OtherIsNoCell, PlainInit \/ PixelInit
  PROVE  NewInv
  <1>1. \A color : PixelBackground(color) # Other
    BY DEF PixelBackground, HalfBlock, Other
  <1>2. PICK background \in Backgrounds
                 \cup {PixelBackground(color) : color \in Colors} :
          m_cells = [index \in Indices |-> background]
    BY DEF PlainInit, Init, PixelInit, Construct
  <1>3. background # Other
    BY <1>1, CellsAssumption DEF OtherIsNoCell
  <1>4. QED
    BY <1>2, <1>3 DEF NewInv

LEMMA StepNew ==
  ASSUME OtherIsNoCell, TypesInv, TypesInv', NewInv,
         [PlainNext \/ PixelNext]_pixelVars
  PROVE  NewInv'
  <1>1. CASE m_pixels' = NoPixels
    <2>1. m_cells' \in [Indices' -> Cells]
      BY <1>1 DEF TypesInv, PlainInv
    <2>2. QED
      BY <2>1 DEF NewInv, OtherIsNoCell
  <1>2. CASE m_pixels' # NoPixels
    <2>1. CASE UNCHANGED <<layout, m_old_cells, m_cells>>
      <3>1. Indices' = Indices
        BY <2>1 DEF layout, Indices
      <3>2. QED
        BY <2>1, <3>1 DEF NewInv
    <2>2. ASSUME NEW column, NEW line, NEW cell \in Overrides,
                 Override(column, line, cell)
          PROVE  NewInv'
      <3> DEFINE first == CellAt(column, line)
      <3>1. /\ m_cells' = [m_cells EXCEPT ![first] = cell]
            /\ UNCHANGED <<layout, m_old_cells>>
        BY <2>2 DEF Override, SetCell
      <3>2. Indices' = Indices /\ DOMAIN m_cells = Indices
        BY <3>1 DEF layout, Indices, TypesInv, CellsInv, AreCells
      <3>3. cell # Other
        BY DEF OtherIsNoCell
      <3> HIDE DEF first
      <3>4. QED
        BY <3>1, <3>2, <3>3 DEF NewInv
    <2>3. CASE GetPixelString
      <3>1. m_old_cells' = m_cells' /\ AreCells(m_cells)'
        BY <2>3 DEF GetPixelString, Draw, TypesInv, CellsInv
      <3>2. DOMAIN m_cells' = 0 .. m_width' * m_height' - 1
        BY <3>1 DEF AreCells, Indices
      <3>3. m_width' \in Nat \ {0} /\ m_height' \in Nat \ {0}
        BY DEF TypesInv, SizedInv
      <3>4. m_cells' # NoCells
        BY <3>2, <3>3, NotEmpty DEF NoCells
      <3>5. QED
        BY <3>1, <3>4 DEF NewInv
    <2>4. QED
      BY <1>2, <2>1, <2>2, <2>3
         DEF PlainNext, PixelNext, SetPixel, ClearPixels, pixelVars, vars
  <1>3. QED
    BY <1>1, <1>2

\* The cells a frame does not skip are the ones the console does not show.
LEMMA StaleAreChanged ==
  ASSUME TypesInv, ShownInv, NewInv
  PROVE  {index \in Indices : console.shown[PlaceOf(index)] # m_cells[index]}
           = ChangedBelow(m_cells, m_width * m_height)
  <1>1. ASSUME NEW index \in Indices
        PROVE  console.shown[PlaceOf(index)] # m_cells[index]
                 <=> ~ Unchanged(m_cells, index)
    <2>1. CASE m_old_cells = NoCells
      <3>1. PlaceOf(index) \in Window(Lines, Columns)
        BY PlaceFits DEF ShownInv
      <3>2. console.shown[PlaceOf(index)] = Other /\ m_cells[index] # Other
        BY <2>1, <3>1 DEF ShownInv, NewInv
      <3>3. QED
        BY <2>1, <3>2 DEF Unchanged
    <2>2. CASE m_old_cells # NoCells
      <3>1. console.shown[PlaceOf(index)] = m_old_cells[index]
        BY <2>2 DEF ShownInv, ConsoleShowsLastFrame
      <3>2. QED
        BY <2>2, <3>1 DEF Unchanged
    <2>3. QED
      BY <2>1, <2>2
  <1>2. QED
    BY <1>1 DEF ChangedBelow, Indices

\* A frame has a letter for each cell the console does not show yet, and no
\* more.
THEOREM OnlyChangesOnConsole ==
  ASSUME ScreensFit, OtherIsNoCell
  PROVE  PixelSpec => []OnlyChangesAreDrawn
  <1>1. PixelSpec => []NewInv
    <2>1. PlainInit \/ PixelInit => NewInv
      BY InitNew
    <2>2. TypesInv /\ TypesInv' /\ NewInv /\ [PlainNext \/ PixelNext]_pixelVars
            => NewInv'
      BY StepNew
    <2>3. QED
      BY <2>1, <2>2, ScreenInvariance, PTL DEF PixelSpec
  <1>2. ASSUME TypesInv, ShownInv, NewInv
        PROVE  OnlyChangesAreDrawn
    <2> DEFINE frame == Frame(m_cells)
               stale == {index \in Indices :
                           console.shown[PlaceOf(index)] # m_cells[index]}
    <2>1. Counted(frame, m_cells, m_width * m_height)
      BY <1>2, FrameCounted DEF TypesInv
    <2>2. stale = ChangedBelow(m_cells, m_width * m_height)
      BY <1>2, StaleAreChanged
    <2> HIDE DEF frame, stale
    <2>3. /\ Cardinality(Letters(frame)) = Cardinality(stale)
          /\ stale = {} => frame = <<reset_formatting>>
      BY <2>1, <2>2 DEF Counted
    <2>4. QED
      BY <2>3 DEF OnlyChangesAreDrawn, Letters, frame, stale
  <1>3. QED
    BY <1>1, <1>2, ScreenInvariance, PTL
=============================================================================
