--------------------------- MODULE TerminalProofs ---------------------------
(***************************************************************************)
(* What the console does with a string of sequences, for strings and       *)
(* windows of every length: the lemmas the proofs about grid_reporter,     *)
(* progress_reporter and screen share.                                     *)
(*                                                                         *)
(* Display() is a recursive function, so what it computes is proved by     *)
(* induction over the length of the string.                                *)
(***************************************************************************)
EXTENDS Terminal, EscapeSequences, WellFoundedInduction, TLAPS
-----------------------------------------------------------------------------
(* Induction, for a set instead of a predicate *)

\* Some number of a set is the least.
LEMMA Least ==
  ASSUME NEW S \in SUBSET Nat, S # {}
  PROVE  \E x \in S : \A y \in S : x <= y
  <1>1. PICK x \in S : \A y \in S : ~ <<y, x>> \in OpToRel(<, Nat)
    BY NatLessThanWellFounded, WFMin
  <1>2. \A y \in S : ~ (y < x)
    BY <1>1 DEF OpToRel
  <1>3. QED
    BY <1>2

\* A set of numbers that holds 0 and the successor of each is all of them.
LEMMA Induction ==
  ASSUME NEW S \in SUBSET Nat, 0 \in S, \A n \in S : n + 1 \in S
  PROVE  S = Nat
  <1> DEFINE U == Nat \ S
  <1> SUFFICES ASSUME U # {} PROVE FALSE
    OBVIOUS
  <1>1. PICK x \in U : \A y \in U : x <= y
    BY Least
  <1>2. x \in Nat /\ x # 0 /\ x \notin S
    OBVIOUS
  <1>3. x - 1 \in S
    BY <1>1, <1>2
  <1>4. QED
    BY <1>2, <1>3

\* The console after n of the sequences.
AfterIs(t, sequences, f) ==
    f = [n \in 0 .. Len(sequences) |->
           IF n = 0 THEN t ELSE Apply(f[n - 1], sequences[n])]

\* A string is displayed one sequence after the other.
LEMMA DisplayUnfolds ==
  ASSUME NEW t, NEW s, Len(s) \in Nat
  PROVE  \E f : AfterIs(t, s, f) /\ Display(t, s) = f[Len(s)]
  <1> DEFINE Upto(m, g) ==
               /\ g[0] = t
               /\ \A n \in 1 .. m : g[n] = Apply(g[n - 1], s[n])
             S == {m \in Nat : \E g : Upto(m, g)}
  <1>1. 0 \in S
    <2>1. Upto(0, [n \in {0} |-> t])
      OBVIOUS
    <2>2. QED
      BY <2>1
  <1>2. \A m \in S : m + 1 \in S
    <2> TAKE m \in S
    <2>1. PICK g : Upto(m, g)
      OBVIOUS
    <2> DEFINE h == [n \in 0 .. m + 1 |->
                       IF n = m + 1 THEN Apply(g[m], s[m + 1]) ELSE g[n]]
    <2> HIDE DEF h
    <2>2. h[0] = t
      BY <2>1 DEF h
    <2>3. ASSUME NEW n \in 1 .. m + 1
          PROVE  h[n] = Apply(h[n - 1], s[n])
      <3>1. n - 1 \in 0 .. m /\ h[n - 1] = g[n - 1]
        BY DEF h
      <3>2. CASE n = m + 1
        BY <3>1, <3>2 DEF h
      <3>3. CASE n # m + 1
        <4>1. n \in 1 .. m
          BY <3>3
        <4>2. h[n] = g[n]
          BY <4>1 DEF h
        <4>3. QED
          BY <2>1, <3>1, <4>1, <4>2
      <3>4. QED
        BY <3>2, <3>3
    <2>4. Upto(m + 1, h)
      BY <2>2, <2>3
    <2>5. QED
      BY <2>4
  <1> HIDE DEF S
  <1>3. S = Nat
    <2>1. S \in SUBSET Nat
      BY DEF S
    <2>2. QED
      BY <1>1, <1>2, <2>1, Induction
  <1>4. Len(s) \in S
    BY <1>3
  <1>5. PICK g : Upto(Len(s), g)
    BY <1>4 DEF S
  <1> DEFINE f0 == [n \in 0 .. Len(s) |-> g[n]]
  <1>6. AfterIs(t, s, f0)
    <2>1. \A n \in 0 .. Len(s) : f0[n] = IF n = 0 THEN t
                                 ELSE Apply(f0[n - 1], s[n])
      <3> TAKE n \in 0 .. Len(s)
      <3>1. CASE n = 0
        BY <1>5, <3>1
      <3>2. CASE n # 0
        <4>1. n \in 1 .. Len(s) /\ n - 1 \in 0 .. Len(s)
          BY <3>2
        <4>2. f0[n] = g[n] /\ f0[n - 1] = g[n - 1]
          BY <4>1
        <4>3. QED
          BY <1>5, <4>1, <4>2, <3>2
      <3>3. QED
        BY <3>1, <3>2
    <2> HIDE DEF f0
    <2>2. f0 = [n \in 0 .. Len(s) |-> f0[n]]
      BY DEF f0
    <2>3. QED
      BY <2>1, <2>2 DEF AfterIs
  <1> DEFINE f1 == CHOOSE f : AfterIs(t, s, f)
  <1>7. AfterIs(t, s, f1)
    BY <1>6
  <1>8. Display(t, s) = f1[Len(s)]
    BY DEF Display, AfterIs
  <1>9. QED
    BY <1>7, <1>8
-----------------------------------------------------------------------------
(* Strings of sequences *)

\* Nothing is displayed.
LEMMA DisplayNothing ==
  ASSUME NEW t
  PROVE  Display(t, <<>>) = t
  <1>1. PICK f : AfterIs(t, <<>>, f) /\ Display(t, <<>>) = f[Len(<<>>)]
    BY DisplayUnfolds
  <1>2. QED
    BY <1>1 DEF AfterIs

\* Two strings that begin alike are displayed alike up to there.
LEMMA SameBeginning ==
  ASSUME NEW t, NEW s, NEW u, NEW f, NEW g,
         Len(s) \in Nat, Len(u) \in Nat, Len(s) <= Len(u),
         \A k \in 1 .. Len(s) : u[k] = s[k],
         AfterIs(t, s, f), AfterIs(t, u, g)
  PROVE  g[Len(s)] = f[Len(s)]
  <1> DEFINE S == {m \in Nat : m <= Len(s) => g[m] = f[m]}
  <1>1. 0 \in S
    BY DEF AfterIs
  <1>2. \A m \in S : m + 1 \in S
    <2> TAKE m \in S
    <2>1. ASSUME m + 1 <= Len(s)
          PROVE  g[m + 1] = f[m + 1]
      <3>1. /\ m + 1 \in 1 .. Len(s)
            /\ m + 1 \in 0 .. Len(s)
            /\ m + 1 \in 0 .. Len(u)
            /\ m + 1 # 0
            /\ (m + 1) - 1 = m
        BY <2>1
      <3>2. g[m] = f[m]
        BY <2>1
      <3>3. g[m + 1] = Apply(g[(m + 1) - 1], u[m + 1])
        BY <3>1 DEF AfterIs
      <3>4. f[m + 1] = Apply(f[(m + 1) - 1], s[m + 1])
        BY <3>1 DEF AfterIs
      <3>5. QED
        BY <3>1, <3>2, <3>3, <3>4
    <2>2. QED
      BY <2>1
  <1> HIDE DEF S
  <1>3. S = Nat
    <2>1. S \in SUBSET Nat
      BY DEF S
    <2>2. QED
      BY <1>1, <1>2, <2>1, Induction
  <1>4. QED
    BY <1>3 DEF S

\* One more sequence.
LEMMA DisplayMore ==
  ASSUME NEW t, NEW S, NEW s \in Seq(S), NEW e \in S
  PROVE  Display(t, s \o <<e>>) = Apply(Display(t, s), e)
  <1> DEFINE u == s \o <<e>>
  <1>1. /\ u \in Seq(S) /\ Len(u) = Len(s) + 1 /\ Len(s) \in Nat
        /\ u[Len(u)] = e
        /\ \A k \in 1 .. Len(s) : u[k] = s[k]
    OBVIOUS
  <1> HIDE DEF u
  <1>2. PICK f : AfterIs(t, s, f) /\ Display(t, s) = f[Len(s)]
    BY <1>1, DisplayUnfolds
  <1>3. PICK g : AfterIs(t, u, g) /\ Display(t, u) = g[Len(u)]
    BY <1>1, DisplayUnfolds
  <1>4. g[Len(s)] = f[Len(s)]
    BY <1>1, <1>2, <1>3, SameBeginning
  <1>5. g[Len(u)] = Apply(g[Len(s)], u[Len(u)])
    <2>1. Len(u) \in 0 .. Len(u) /\ Len(u) # 0 /\ Len(u) - 1 = Len(s)
      BY <1>1
    <2>2. QED
      BY <1>3, <2>1 DEF AfterIs
  <1>6. Display(t, u) = Apply(Display(t, s), e)
    BY <1>1, <1>2, <1>3, <1>4, <1>5
  <1>7. QED
    BY <1>6 DEF u

\* A single sequence.
LEMMA DisplayOne ==
  ASSUME NEW t, NEW e
  PROVE  Display(t, <<e>>) = Apply(t, e)
  <1>1. PICK f : AfterIs(t, <<e>>, f) /\ Display(t, <<e>>) = f[Len(<<e>>)]
    BY DisplayUnfolds
  <1>2. Len(<<e>>) = 1 /\ <<e>>[1] = e /\ 1 \in 0 .. Len(<<e>>)
        /\ 0 \in 0 .. Len(<<e>>)
    OBVIOUS
  <1>3. f[0] = t /\ f[1] = Apply(f[0], e)
    BY <1>1, <1>2 DEF AfterIs
  <1>4. QED
    BY <1>1, <1>2, <1>3

\* Strings may be put together in any order.
LEMMA OneMoreOfBoth ==
  ASSUME NEW S, NEW s \in Seq(S), NEW u \in Seq(S), NEW e \in S
  PROVE  /\ s \o u \in Seq(S)
         /\ s \o (u \o <<e>>) = (s \o u) \o <<e>>
  OBVIOUS

\* ... and displayed one sequence after the other.
LEMMA OneMoreDisplayed ==
  ASSUME NEW t, NEW S, NEW s \in Seq(S), NEW u \in Seq(S), NEW e \in S,
         Display(t, s \o u) = Display(Display(t, s), u)
  PROVE  Display(t, s \o (u \o <<e>>)) = Display(Display(t, s), u \o <<e>>)
  <1> DEFINE w == s \o u
  <1>1. w \in Seq(S) /\ s \o (u \o <<e>>) = w \o <<e>>
    BY OneMoreOfBoth
  <1>2. Display(t, w) = Display(Display(t, s), u)
    OBVIOUS
  <1> HIDE DEF w
  <1>3. Display(t, w \o <<e>>) = Apply(Display(t, w), e)
    BY <1>1, DisplayMore
  <1>4. Display(Display(t, s), u \o <<e>>) = Apply(Display(Display(t, s), u), e)
    BY DisplayMore
  <1>5. QED
    BY <1>1, <1>2, <1>3, <1>4

\* One string after the other.
LEMMA DisplayBoth ==
  ASSUME NEW t, NEW S, NEW s \in Seq(S), NEW u \in Seq(S)
  PROVE  Display(t, s \o u) = Display(Display(t, s), u)
  <1> DEFINE Begin(m) == [k \in 1 .. m |-> u[k]]
             D == {m \in Nat : m <= Len(u) =>
                     Display(t, s \o Begin(m)) =
                       Display(Display(t, s), Begin(m))}
  <1>1. 0 \in D
    <2>1. Begin(0) = <<>> /\ s \o <<>> = s
      OBVIOUS
    <2>2. Display(t, s \o Begin(0)) = Display(Display(t, s), Begin(0))
      BY <2>1, DisplayNothing
    <2>3. QED
      BY <2>2
  <1>2. \A m \in D : m + 1 \in D
    <2> TAKE m \in D
    <2>1. ASSUME m + 1 <= Len(u)
          PROVE  Display(t, s \o Begin(m + 1)) =
                   Display(Display(t, s), Begin(m + 1))
      <3> DEFINE b == Begin(m)
                 e == u[m + 1]
      <3>1. b \in Seq(S) /\ e \in S /\ Begin(m + 1) = b \o <<e>>
        BY <2>1
      <3>2. Display(t, s \o b) = Display(Display(t, s), b)
        BY <2>1
      <3> HIDE DEF b, e
      <3>3. Display(t, s \o (b \o <<e>>)) =
              Display(Display(t, s), b \o <<e>>)
        BY <3>1, <3>2, OneMoreDisplayed
      <3>4. QED
        BY <3>1, <3>3
    <2>2. QED
      BY <2>1
  <1> HIDE DEF D
  <1>3. D = Nat
    <2>1. D \in SUBSET Nat
      BY DEF D
    <2>2. QED
      BY <1>1, <1>2, <2>1, Induction
  <1>4. Len(u) \in D /\ Begin(Len(u)) = u
    BY <1>3
  <1>5. QED
    BY <1>4 DEF D

\* Any finite string of any sequences.
IsString(s) == \E S : s \in Seq(S)

\* Strings of none, one and two sequences.
LEMMA ShortStrings ==
  ASSUME NEW e, NEW f
  PROVE  IsString(<<>>) /\ IsString(<<e>>) /\ IsString(<<e, f>>)
  <1>1. <<>> \in Seq({e, f}) /\ <<e>> \in Seq({e, f})
        /\ <<e, f>> \in Seq({e, f})
    OBVIOUS
  <1>2. QED
    BY <1>1 DEF IsString

\* A string may be displayed in parts.
LEMMA DisplayJoined ==
  ASSUME NEW t, NEW s, NEW u, IsString(s), IsString(u)
  PROVE  /\ IsString(s \o u)
         /\ Display(t, s \o u) = Display(Display(t, s), u)
  <1>1. PICK S : s \in Seq(S)
    BY DEF IsString
  <1>2. PICK R : u \in Seq(R)
    BY DEF IsString
  <1>3. s \in Seq(S \cup R) /\ u \in Seq(S \cup R)
    BY <1>1, <1>2
  <1>4. s \o u \in Seq(S \cup R)
    BY <1>3
  <1>5. QED
    BY <1>3, <1>4, DisplayBoth DEF IsString

\* Two sequences.
LEMMA DisplayTwo ==
  ASSUME NEW t, NEW e, NEW f
  PROVE  Display(t, <<e, f>>) = Apply(Apply(t, e), f)
  <1> DEFINE S == {e, f}
             s == <<e>>
             u == <<e, f>>
  <1>1. s \in Seq(S) /\ f \in S /\ u \in Seq(S)
    OBVIOUS
  <1>2. Len(s) = 1 /\ s[1] = e /\ Len(u) = 2 /\ u[1] = e /\ u[2] = f
    OBVIOUS
  <1>3. Display(t, s) = Apply(t, e)
    BY DisplayOne
  <1> HIDE DEF S, s, u
  <1>4. s \o <<f>> = u
    <2> DEFINE r == s \o <<f>>
    <2>1. /\ r \in Seq(S) /\ Len(r) = Len(s) + 1
          /\ r[Len(r)] = f
          /\ \A k \in 1 .. Len(s) : r[k] = s[k]
      BY <1>1
    <2> HIDE DEF r
    <2>2. Len(r) = 2 /\ r[1] = e /\ r[2] = f
      BY <1>2, <2>1
    <2>3. r = u
      BY <1>1, <1>2, <2>1, <2>2
    <2>4. QED
      BY <2>3 DEF r
  <1>5. Display(t, s \o <<f>>) = Apply(Display(t, s), f)
    BY <1>1, DisplayMore
  <1>6. QED
    BY <1>3, <1>4, <1>5 DEF u

\* A sequence that is only sent sometimes.
LEMMA DisplayOptional ==
  ASSUME NEW t, NEW e, NEW c
  PROVE  LET s == IF c THEN <<e>> ELSE <<>>
         IN /\ IsString(s)
            /\ Display(t, s) = IF c THEN Apply(t, e) ELSE t
  BY ShortStrings, DisplayOne, DisplayNothing, Zenon
-----------------------------------------------------------------------------
(* What single sequences do *)

\* A console by its parts.
Showing(lines, columns, shown, line, column, format, visible) ==
    [lines |-> lines, columns |-> columns, line |-> line, column |-> column,
     shown |-> shown, format |-> format, visible |-> visible]

\* A letter at a place, and the parts of a format.
Written(g, l, c, x, f) ==
    [g EXCEPT ![<<l, c>>] = [m_letter |-> x, m_format |-> f]]

WithForeground(f, color) == [f EXCEPT !.m_fg_color = color]
WithBackground(f, color) == [f EXCEPT !.m_bg_color = color]
WithUnderline(f, on) == [f EXCEPT !.m_underline = on]
WithBold(f, on) == [f EXCEPT !.m_bold = on]

\* A letter that is not the first beyond the last column.
LEMMA ApplyLetter ==
  ASSUME NEW h, NEW w, NEW g, NEW l, NEW c, NEW f, NEW v, NEW x, c # w
  PROVE  Apply(Showing(h, w, g, l, c, f, v), char(x)) =
           Showing(h, w, Written(g, l, c, x, f), l, c + 1, f, v)
  <1> SUFFICES ASSUME NEW t, t = Showing(h, w, g, l, c, f, v)
           PROVE  Apply(t, char(x)) =
                    Showing(h, w, Written(g, l, c, x, f), l, c + 1, f, v)
    OBVIOUS
  <1> DEFINE shown == Written(g, l, c, x, f)
  <1>1. /\ t.line = l /\ t.column = c /\ t.columns = w
        /\ t.shown = g /\ t.format = f
    BY DEF Showing
  <1>2. Apply(t, char(x)) = PutLetter(t, x)
    BY DEF Apply, char
  <1> DEFINE u == PutLetter(t, x)
  <1>3. u = [t EXCEPT !.shown = shown, !.column = c + 1]
    BY <1>1 DEF PutLetter, Written
  <1> HIDE DEF shown, u
  <1>4. u = Showing(h, w, shown, l, c + 1, f, v)
    BY <1>3 DEF Showing
  <1>5. QED
    BY <1>2, <1>4 DEF shown, u

\* The end of a line that is not the window's last.
LEMMA ApplyNewLine ==
  ASSUME NEW h \in Nat, NEW w, NEW g, NEW l \in Nat, NEW c, NEW f, NEW v,
         l < h - 1
  PROVE  Apply(Showing(h, w, g, l, c, f, v), [kind |-> "newline"]) =
           Showing(h, w, g, l + 1, 0, f, v)
  <1> SUFFICES ASSUME NEW t, t = Showing(h, w, g, l, c, f, v)
           PROVE  Apply(t, [kind |-> "newline"]) =
                    Showing(h, w, g, l + 1, 0, f, v)
    OBVIOUS
  <1>1. t.line = l /\ t.lines = h
    BY DEF Showing
  <1>2. Apply(t, [kind |-> "newline"]) = NewLine(t)
    BY DEF Apply
  <1> DEFINE u == NewLine(t)
  <1>3. u = [t EXCEPT !.line = l + 1, !.column = 0]
    BY <1>1 DEF NewLine
  <1> HIDE DEF u
  <1>4. u = Showing(h, w, g, l + 1, 0, f, v)
    BY <1>3 DEF Showing
  <1>5. QED
    BY <1>2, <1>4 DEF u

\* What is shown after the window has scrolled.
Scrolled(g, h) ==
    [p \in DOMAIN g |-> IF p[1] = h - 1 THEN Blank ELSE g[<<p[1] + 1, p[2]>>]]

\* ... and of its last line.
LEMMA ApplyLastNewLine ==
  ASSUME NEW h \in Nat, NEW w, NEW g, NEW l, NEW c, NEW f, NEW v,
         l = h - 1
  PROVE  Apply(Showing(h, w, g, l, c, f, v), [kind |-> "newline"]) =
           Showing(h, w, Scrolled(g, h), h - 1, 0, f, v)
  <1> SUFFICES ASSUME NEW t, t = Showing(h, w, g, l, c, f, v)
           PROVE  Apply(t, [kind |-> "newline"]) =
                    Showing(h, w, Scrolled(g, h), h - 1, 0, f, v)
    OBVIOUS
  <1> DEFINE shown == Scrolled(g, h)
  <1>1. t.line = h - 1 /\ t.lines = h /\ t.shown = g
    BY DEF Showing
  <1>2. Apply(t, [kind |-> "newline"]) = NewLine(t)
    BY DEF Apply
  <1> DEFINE u == NewLine(t)
  <1>3. ~ (t.line < t.lines - 1)
    BY <1>1
  <1>4. u = [t EXCEPT !.column = 0, !.shown = shown]
    BY <1>1, <1>3, Zenon DEF NewLine, Scrolled
  <1> HIDE DEF shown, u
  <1>5. u = Showing(h, w, shown, h - 1, 0, f, v)
    BY <1>4 DEF Showing
  <1>6. QED
    BY <1>2, <1>5 DEF shown, u

\* The line after the end of line l, and what is shown then.
NextLine(l, h) == AtMost(l + 1, h - 1)
MovedUp(g, l, h) == IF l < h - 1 THEN g ELSE Scrolled(g, h)

\* The end of any line
LEMMA LineEnds ==
  ASSUME NEW h \in Nat, NEW w, NEW g, NEW l \in 0 .. h - 1,
         NEW c, NEW f, NEW v
  PROVE  Display(Showing(h, w, g, l, c, f, v), <<[kind |-> "newline"]>>) =
           Showing(h, w, MovedUp(g, l, h), NextLine(l, h), 0, f, v)
  <1> DEFINE t == Showing(h, w, g, l, c, f, v)
  <1>1. Display(t, <<[kind |-> "newline"]>>) =
          Apply(t, [kind |-> "newline"])
    <2> HIDE DEF t
    <2>1. QED
      BY DisplayOne
  <1>2. CASE l < h - 1
    <2>1. MovedUp(g, l, h) = g /\ NextLine(l, h) = l + 1
      BY <1>2 DEF MovedUp, NextLine, AtMost
    <2>2. Apply(t, [kind |-> "newline"]) = Showing(h, w, g, l + 1, 0, f, v)
      BY <1>2, ApplyNewLine
    <2>3. QED
      BY <1>1, <2>1, <2>2
  <1>3. CASE l = h - 1
    <2>1. MovedUp(g, l, h) = Scrolled(g, h) /\ NextLine(l, h) = h - 1
      BY <1>3 DEF MovedUp, NextLine, AtMost
    <2>2. Apply(t, [kind |-> "newline"]) =
            Showing(h, w, Scrolled(g, h), h - 1, 0, f, v)
      BY <1>3, ApplyLastNewLine
    <2>3. QED
      BY <1>1, <2>1, <2>2
  <1>4. QED
    BY <1>2, <1>3

\* The sequences that change the formatting.
LEMMA ApplyFormats ==
  ASSUME NEW h, NEW w, NEW g, NEW l, NEW c, NEW f, NEW v, NEW x
  PROVE  /\ Apply(Showing(h, w, g, l, c, f, v), reset_formatting) =
              Showing(h, w, g, l, c, DefaultFormat, v)
         /\ Apply(Showing(h, w, g, l, c, f, v), fg_rgb(x)) =
              Showing(h, w, g, l, c, WithForeground(f, x), v)
         /\ Apply(Showing(h, w, g, l, c, f, v), bg_rgb(x)) =
              Showing(h, w, g, l, c, WithBackground(f, x), v)
         /\ Apply(Showing(h, w, g, l, c, f, v), underline(x)) =
              Showing(h, w, g, l, c, WithUnderline(f, x), v)
         /\ Apply(Showing(h, w, g, l, c, f, v), bold(x)) =
              Showing(h, w, g, l, c, WithBold(f, x), v)
  <1> SUFFICES ASSUME NEW t, t = Showing(h, w, g, l, c, f, v)
           PROVE  /\ Apply(t, reset_formatting) =
                       Showing(h, w, g, l, c, DefaultFormat, v)
                  /\ Apply(t, fg_rgb(x)) =
                       Showing(h, w, g, l, c, WithForeground(f, x), v)
                  /\ Apply(t, bg_rgb(x)) =
                       Showing(h, w, g, l, c, WithBackground(f, x), v)
                  /\ Apply(t, underline(x)) =
                       Showing(h, w, g, l, c, WithUnderline(f, x), v)
                  /\ Apply(t, bold(x)) =
                       Showing(h, w, g, l, c, WithBold(f, x), v)
    OBVIOUS
  <1>1. t.format = f
    BY DEF Showing
  <1>2. ASSUME NEW format
        PROVE  [t EXCEPT !.format = format] = Showing(h, w, g, l, c, format, v)
    BY DEF Showing
  <1>3. Apply(t, reset_formatting) = [t EXCEPT !.format = DefaultFormat]
    BY DEF Apply, reset_formatting
  <1>4. Apply(t, fg_rgb(x)) = [t EXCEPT !.format = WithForeground(f, x)]
    BY <1>1 DEF Apply, fg_rgb, WithForeground
  <1>5. Apply(t, bg_rgb(x)) = [t EXCEPT !.format = WithBackground(f, x)]
    BY <1>1 DEF Apply, bg_rgb, WithBackground
  <1>6. Apply(t, underline(x)) =
          [t EXCEPT !.format = WithUnderline(f, x)]
    BY <1>1 DEF Apply, underline, WithUnderline
  <1>7. Apply(t, bold(x)) = [t EXCEPT !.format = WithBold(f, x)]
    BY <1>1 DEF Apply, bold, WithBold
  <1>8. QED
    BY <1>2, <1>3, <1>4, <1>5, <1>6, <1>7

\* The cursor is hidden or shown.
LEMMA ApplyVisibility ==
  ASSUME NEW h, NEW w, NEW g, NEW l, NEW c, NEW f, NEW v, NEW x
  PROVE  Apply(Showing(h, w, g, l, c, f, v), cursor_visibility(x)) =
           Showing(h, w, g, l, c, f, x)
  <1> SUFFICES ASSUME NEW t, t = Showing(h, w, g, l, c, f, v)
           PROVE  Apply(t, cursor_visibility(x)) = Showing(h, w, g, l, c, f, x)
    OBVIOUS
  <1>1. Apply(t, cursor_visibility(x)) = [t EXCEPT !.visible = x]
    BY DEF Apply, cursor_visibility
  <1>2. [t EXCEPT !.visible = x] = Showing(h, w, g, l, c, f, x)
    BY DEF Showing
  <1>3. QED
    BY <1>1, <1>2

\* A place that is kept in the window.
Inside(n, size) == AtMost(AtLeast(n, 0), size - 1)

\* The cursor stays in the window.
LEMMA MoveToPlace ==
  ASSUME NEW h, NEW w, NEW g, NEW l, NEW c, NEW f, NEW v,
         NEW line, NEW column
  PROVE  MoveTo(Showing(h, w, g, l, c, f, v), line, column) =
           Showing(h, w, g, Inside(line, h), Inside(column, w), f, v)
  <1> SUFFICES ASSUME NEW t, t = Showing(h, w, g, l, c, f, v)
           PROVE  MoveTo(t, line, column) =
                    Showing(h, w, g, Inside(line, h), Inside(column, w), f, v)
    OBVIOUS
  <1> DEFINE a == Inside(line, h)
             b == Inside(column, w)
             u == MoveTo(t, line, column)
  <1>1. t.lines = h /\ t.columns = w
    BY DEF Showing
  <1>2. u = [t EXCEPT !.line = a, !.column = b]
    BY <1>1 DEF MoveTo, Inside
  <1> HIDE DEF a, b, u
  <1>3. u = Showing(h, w, g, a, b, f, v)
    BY <1>2 DEF Showing
  <1>4. QED
    BY <1>3 DEF a, b, u

\* It is sent to a place, whose numbers are bytes,
LEMMA ApplyPosition ==
  ASSUME NEW h, NEW w, NEW g, NEW l, NEW c, NEW f, NEW v,
         NEW line, NEW column
  PROVE  Apply(Showing(h, w, g, l, c, f, v), position(line, column)) =
           Showing(h, w, g, Inside(Byte(line), h), Inside(Byte(column), w),
                   f, v)
  <1> DEFINE t == Showing(h, w, g, l, c, f, v)
  <1>1. MoveTo(t, Byte(line), Byte(column)) =
          Showing(h, w, g, Inside(Byte(line), h), Inside(Byte(column), w),
                  f, v)
    BY MoveToPlace
  <1> HIDE DEF t
  <1>2. Apply(t, position(line, column)) = MoveTo(t, Byte(line), Byte(column))
    BY DEF Apply, position
  <1>3. QED
    BY <1>1, <1>2 DEF t

\* ... or to a column of its line.
LEMMA ApplyColumn ==
  ASSUME NEW h, NEW w, NEW g, NEW l, NEW c, NEW f, NEW v,
         NEW column
  PROVE  Apply(Showing(h, w, g, l, c, f, v),
               [kind |-> "hposition", m_column |-> column]) =
           Showing(h, w, g, Inside(l, h), Inside(column, w), f, v)
  <1> DEFINE t == Showing(h, w, g, l, c, f, v)
  <1>1. t.line = l
    BY DEF Showing
  <1>2. MoveTo(t, l, column) =
          Showing(h, w, g, Inside(l, h), Inside(column, w), f, v)
    BY MoveToPlace
  <1> HIDE DEF t
  <1>3. Apply(t, [kind |-> "hposition", m_column |-> column]) =
          MoveTo(t, l, column)
    BY <1>1 DEF Apply
  <1>4. QED
    BY <1>2, <1>3 DEF t

\* How far a move goes, and where it takes the cursor.
Amount(n) == AtLeast(Byte(n), 1)
Back(place, n, size) == Inside(place - Amount(n), size)
Forth(place, n, size) == Inside(place + Amount(n), size)

\* A move to the left
LEMMA ApplyLeft ==
  ASSUME NEW h, NEW w, NEW g, NEW l, NEW c, NEW f, NEW v, NEW n
  PROVE  Apply(Showing(h, w, g, l, c, f, v), move("move_left", n)) =
           Showing(h, w, g, Inside(l, h), Back(AtMost(c, w - 1), n, w), f, v)
  <1> DEFINE t == Showing(h, w, g, l, c, f, v)
             a == l
             b == AtMost(c, w - 1) - Amount(n)
  <1>1. t.line = l /\ t.column = c /\ t.columns = w
    BY DEF Showing
  <1>2. CursorColumn(t) = AtMost(c, w - 1)
    BY <1>1 DEF CursorColumn
  <1>3. MoveTo(t, a, b) = Showing(h, w, g, Inside(a, h), Inside(b, w), f, v)
    <2> HIDE DEF a, b
    <2>1. QED
      BY MoveToPlace
  <1> HIDE DEF t
  <1>4. Apply(t, move("move_left", n)) = MoveTo(t, a, b)
    BY <1>1, <1>2 DEF Apply, move, Amount
  <1>5. QED
    BY <1>3, <1>4 DEF t, Back, Forth

\* ... to the right,
LEMMA ApplyRight ==
  ASSUME NEW h, NEW w, NEW g, NEW l, NEW c, NEW f, NEW v, NEW n
  PROVE  Apply(Showing(h, w, g, l, c, f, v), move("move_right", n)) =
           Showing(h, w, g, Inside(l, h), Forth(AtMost(c, w - 1), n, w), f, v)
  <1> DEFINE t == Showing(h, w, g, l, c, f, v)
             a == l
             b == AtMost(c, w - 1) + Amount(n)
  <1>1. t.line = l /\ t.column = c /\ t.columns = w
    BY DEF Showing
  <1>2. CursorColumn(t) = AtMost(c, w - 1)
    BY <1>1 DEF CursorColumn
  <1>3. MoveTo(t, a, b) = Showing(h, w, g, Inside(a, h), Inside(b, w), f, v)
    <2> HIDE DEF a, b
    <2>1. QED
      BY MoveToPlace
  <1> HIDE DEF t
  <1>4. Apply(t, move("move_right", n)) = MoveTo(t, a, b)
    BY <1>1, <1>2 DEF Apply, move, Amount
  <1>5. QED
    BY <1>3, <1>4 DEF t, Back, Forth

\* ... up
LEMMA ApplyUp ==
  ASSUME NEW h, NEW w, NEW g, NEW l, NEW c, NEW f, NEW v, NEW n
  PROVE  Apply(Showing(h, w, g, l, c, f, v), move("move_up", n)) =
           Showing(h, w, g, Back(l, n, h), Inside(AtMost(c, w - 1), w), f, v)
  <1> DEFINE t == Showing(h, w, g, l, c, f, v)
             a == l - Amount(n)
             b == AtMost(c, w - 1)
  <1>1. t.line = l /\ t.column = c /\ t.columns = w
    BY DEF Showing
  <1>2. CursorColumn(t) = AtMost(c, w - 1)
    BY <1>1 DEF CursorColumn
  <1>3. MoveTo(t, a, b) = Showing(h, w, g, Inside(a, h), Inside(b, w), f, v)
    <2> HIDE DEF a, b
    <2>1. QED
      BY MoveToPlace
  <1> HIDE DEF t
  <1>4. Apply(t, move("move_up", n)) = MoveTo(t, a, b)
    BY <1>1, <1>2 DEF Apply, move, Amount
  <1>5. QED
    BY <1>3, <1>4 DEF t, Back, Forth

\* ... and down.
LEMMA ApplyDown ==
  ASSUME NEW h, NEW w, NEW g, NEW l, NEW c, NEW f, NEW v, NEW n
  PROVE  Apply(Showing(h, w, g, l, c, f, v), move("move_down", n)) =
           Showing(h, w, g, Forth(l, n, h), Inside(AtMost(c, w - 1), w), f, v)
  <1> DEFINE t == Showing(h, w, g, l, c, f, v)
             a == l + Amount(n)
             b == AtMost(c, w - 1)
  <1>1. t.line = l /\ t.column = c /\ t.columns = w
    BY DEF Showing
  <1>2. CursorColumn(t) = AtMost(c, w - 1)
    BY <1>1 DEF CursorColumn
  <1>3. MoveTo(t, a, b) = Showing(h, w, g, Inside(a, h), Inside(b, w), f, v)
    <2> HIDE DEF a, b
    <2>1. QED
      BY MoveToPlace
  <1> HIDE DEF t
  <1>4. Apply(t, move("move_down", n)) = MoveTo(t, a, b)
    BY <1>1, <1>2 DEF Apply, move, Amount
  <1>5. QED
    BY <1>3, <1>4 DEF t, Back, Forth

\* A cursor in the window stays where it is.
LEMMA StaysInside ==
  ASSUME NEW size \in Nat \ {0}, NEW place \in 0 .. size - 1
  PROVE  Inside(place, size) = place /\ AtMost(place, size - 1) = place
  BY DEF Inside, AtMost, AtLeast

\* An amount that is not 0 and fits a byte is kept.
LEMMA AmountKept ==
  ASSUME NEW n \in 1 .. 255
  PROVE  Amount(n) = n
  BY DEF Amount, Byte, AtLeast
-----------------------------------------------------------------------------
(* What every string leaves alone *)

\* A window of h lines and w columns, with the cursor in it or waiting to wrap.
IsConsole(t, h, w) ==
    \E g, l, c, f, v :
        /\ t = Showing(h, w, g, l, c, f, v)
        /\ DOMAIN g = Window(h, w)
        /\ l \in 0 .. h - 1
        /\ c \in 0 .. w

\* The sequences the repository's code sends.
IsSequence(s) ==
    \/ \E x : s \in {char(x), fg_rgb(x), bg_rgb(x), underline(x), bold(x),
                     cursor_visibility(x)}
    \/ s \in {[kind |-> "newline"], reset_formatting}
    \/ \E x, y \in Nat : s = position(x, y)
    \/ \E kind \in Moves, n \in Nat : s = move(kind, n)
    \/ \E column \in Nat : s = [kind |-> "hposition", m_column |-> column]

\* The parts of a console of that size.
LEMMA ConsoleParts ==
  ASSUME NEW t, NEW h, NEW w, IsConsole(t, h, w)
  PROVE  /\ t.lines = h /\ t.columns = w
         /\ DOMAIN t.shown = Window(h, w)
         /\ t.line \in 0 .. h - 1
         /\ t.column \in 0 .. w
         /\ t = Showing(h, w, t.shown, t.line, t.column, t.format, t.visible)
  BY DEF IsConsole, Showing

\* A cursor that is sent anywhere stays in the window.
LEMMA MoveToKeeps ==
  ASSUME NEW h \in Nat \ {0}, NEW w \in Nat \ {0}, NEW t, IsConsole(t, h, w),
         NEW line \in Int, NEW column \in Int
  PROVE  IsConsole(MoveTo(t, line, column), h, w)
  <1>1. PICK g, l, c, f, v : /\ t = Showing(h, w, g, l, c, f, v)
                             /\ DOMAIN g = Window(h, w)
    BY DEF IsConsole
  <1> DEFINE a == Inside(line, h)
             b == Inside(column, w)
  <1>2. a \in 0 .. h - 1 /\ b \in 0 .. w
    BY DEF Inside, AtMost, AtLeast
  <1>3. MoveTo(t, line, column) = Showing(h, w, g, a, b, f, v)
    BY <1>1, MoveToPlace
  <1> HIDE DEF a, b
  <1>4. QED
    BY <1>1, <1>2, <1>3 DEF IsConsole

\* A new line is in the window.
LEMMA NewLineKeeps ==
  ASSUME NEW h \in Nat \ {0}, NEW w \in Nat \ {0}, NEW t, IsConsole(t, h, w)
  PROVE  /\ IsConsole(NewLine(t), h, w)
         /\ NewLine(t).column = 0
  <1>1. PICK g, l, c, f, v : /\ t = Showing(h, w, g, l, c, f, v)
                             /\ DOMAIN g = Window(h, w)
                             /\ l \in 0 .. h - 1
    BY DEF IsConsole
  <1>2. Apply(t, [kind |-> "newline"]) = NewLine(t)
    BY DEF Apply
  <1>3. CASE l < h - 1
    <2>1. NewLine(t) = Showing(h, w, g, l + 1, 0, f, v)
      BY <1>1, <1>2, <1>3, ApplyNewLine
    <2>2. l + 1 \in 0 .. h - 1 /\ 0 \in 0 .. w
      BY <1>1, <1>3
    <2>3. IsConsole(NewLine(t), h, w)
      BY <1>1, <2>1, <2>2 DEF IsConsole
    <2>4. QED
      BY <2>1, <2>3 DEF Showing
  <1>4. CASE l = h - 1
    <2> DEFINE shown == Scrolled(g, h)
    <2>1. DOMAIN shown = Window(h, w)
      BY <1>1 DEF Scrolled
    <2>2. NewLine(t) = Showing(h, w, shown, h - 1, 0, f, v)
      BY <1>1, <1>2, <1>4, ApplyLastNewLine
    <2>3. h - 1 \in 0 .. h - 1 /\ 0 \in 0 .. w
      OBVIOUS
    <2> HIDE DEF shown
    <2>4. IsConsole(NewLine(t), h, w)
      BY <2>1, <2>2, <2>3 DEF IsConsole
    <2>5. QED
      BY <2>2, <2>4 DEF Showing
  <1>5. QED
    BY <1>1, <1>3, <1>4

\* A letter that is the first beyond the last column goes to the next line.
LEMMA LetterWraps ==
  ASSUME NEW t, NEW x, t.column = t.columns, t.columns # 0,
         NewLine(t).column = 0, NewLine(t).columns = t.columns
  PROVE  Apply(t, char(x)) = Apply(NewLine(t), char(x))
  <1>1. Apply(t, char(x)) = PutLetter(t, x)
    BY DEF Apply, char
  <1> DEFINE u == NewLine(t)
  <1>2. Apply(u, char(x)) = PutLetter(u, x)
    <2> HIDE DEF u
    <2>1. QED
      BY DEF Apply, char
  <1>3. u.column # u.columns
    OBVIOUS
  <1> DEFINE Put(k) == [k EXCEPT !.shown[<<k.line, k.column>>] =
                                   [m_letter |-> x, m_format |-> k.format],
                                 !.column = @ + 1]
  <1>4. PutLetter(t, x) = Put(u)
    BY DEF PutLetter
  <1> HIDE DEF u
  <1>5. PutLetter(u, x) = Put(u)
    BY <1>3 DEF PutLetter
  <1>6. QED
    BY <1>1, <1>2, <1>4, <1>5 DEF u

\* Every sequence leaves the window's size alone and the cursor in it.
LEMMA ApplyKeeps ==
  ASSUME NEW h \in Nat \ {0}, NEW w \in Nat \ {0}, NEW t, IsConsole(t, h, w),
         NEW s, IsSequence(s)
  PROVE  IsConsole(Apply(t, s), h, w)
  <1>1. PICK g, l, c, f, v : /\ t = Showing(h, w, g, l, c, f, v)
                             /\ DOMAIN g = Window(h, w)
                             /\ l \in 0 .. h - 1
                             /\ c \in 0 .. w
    BY DEF IsConsole
  <1>2. ASSUME NEW u, NEW x, IsConsole(u, h, w), u.column # w
        PROVE  IsConsole(Apply(u, char(x)), h, w)
    <2>1. PICK g1, l1, c1, f1, v1 :
            /\ u = Showing(h, w, g1, l1, c1, f1, v1)
            /\ DOMAIN g1 = Window(h, w)
            /\ l1 \in 0 .. h - 1
            /\ c1 \in 0 .. w
      BY <1>2 DEF IsConsole
    <2>2. c1 # w
      BY <1>2, <2>1 DEF Showing
    <2> DEFINE shown == Written(g1, l1, c1, x, f1)
    <2>3. DOMAIN shown = Window(h, w)
      BY <2>1 DEF Written
    <2>4. Apply(u, char(x)) = Showing(h, w, shown, l1, c1 + 1, f1, v1)
      BY <2>1, <2>2, ApplyLetter
    <2>5. c1 + 1 \in 0 .. w
      BY <2>1, <2>2
    <2> HIDE DEF shown
    <2>6. QED
      BY <2>1, <2>3, <2>4, <2>5 DEF IsConsole
  <1>3. ASSUME NEW x
        PROVE  IsConsole(Apply(t, char(x)), h, w)
    <2>1. t.columns = w /\ t.column \in 0 .. w
      BY <1>1 DEF Showing
    <2>2. CASE t.column # w
      BY <1>2, <2>2
    <2>3. CASE t.column = w
      <3>1. IsConsole(NewLine(t), h, w) /\ NewLine(t).column = 0
        BY NewLineKeeps
      <3>2. NewLine(t).columns = w
        BY <3>1, ConsoleParts
      <3>3. Apply(t, char(x)) = Apply(NewLine(t), char(x))
        BY <2>1, <2>3, <3>1, <3>2, LetterWraps
      <3>4. QED
        BY <1>2, <3>1, <3>3
    <2>4. QED
      BY <2>2, <2>3
  <1>4. ASSUME NEW x
        PROVE  /\ IsConsole(Apply(t, fg_rgb(x)), h, w)
               /\ IsConsole(Apply(t, bg_rgb(x)), h, w)
               /\ IsConsole(Apply(t, underline(x)), h, w)
               /\ IsConsole(Apply(t, bold(x)), h, w)
               /\ IsConsole(Apply(t, reset_formatting), h, w)
    <2>1. \A format : IsConsole(Showing(h, w, g, l, c, format, v), h, w)
      BY <1>1 DEF IsConsole
    <2>2. /\ Apply(t, reset_formatting) =
               Showing(h, w, g, l, c, DefaultFormat, v)
          /\ Apply(t, fg_rgb(x)) =
               Showing(h, w, g, l, c, WithForeground(f, x), v)
          /\ Apply(t, bg_rgb(x)) =
               Showing(h, w, g, l, c, WithBackground(f, x), v)
          /\ Apply(t, underline(x)) =
               Showing(h, w, g, l, c, WithUnderline(f, x), v)
          /\ Apply(t, bold(x)) =
               Showing(h, w, g, l, c, WithBold(f, x), v)
      BY <1>1, ApplyFormats
    <2>3. QED
      BY <2>1, <2>2
  <1>5. ASSUME NEW x
        PROVE  IsConsole(Apply(t, cursor_visibility(x)), h, w)
    <2>1. Apply(t, cursor_visibility(x)) = Showing(h, w, g, l, c, f, x)
      BY <1>1, ApplyVisibility
    <2>2. QED
      BY <1>1, <2>1 DEF IsConsole
  <1>6. IsConsole(Apply(t, [kind |-> "newline"]), h, w)
    <2>1. Apply(t, [kind |-> "newline"]) = NewLine(t)
      BY DEF Apply
    <2>2. QED
      BY <2>1, NewLineKeeps
  <1>7. ASSUME NEW x \in Nat, NEW y \in Nat
        PROVE  IsConsole(Apply(t, position(x, y)), h, w)
    <2>1. Apply(t, position(x, y)) = MoveTo(t, Byte(x), Byte(y))
      BY DEF Apply, position
    <2>2. Byte(x) \in Int /\ Byte(y) \in Int
      BY DEF Byte
    <2>3. QED
      BY <2>1, <2>2, MoveToKeeps
  <1>8. ASSUME NEW kind \in Moves, NEW n \in Nat
        PROVE  IsConsole(Apply(t, move(kind, n)), h, w)
    <2> DEFINE m == AtLeast(Byte(n), 1)
               k == CursorColumn(t)
    <2>1. m \in Int /\ k \in Int /\ t.line \in Int
      BY <1>1 DEF AtLeast, Byte, CursorColumn, AtMost, Showing
    <2>2. \/ Apply(t, move(kind, n)) = MoveTo(t, t.line, k - m)
          \/ Apply(t, move(kind, n)) = MoveTo(t, t.line, k + m)
          \/ Apply(t, move(kind, n)) = MoveTo(t, t.line - m, k)
          \/ Apply(t, move(kind, n)) = MoveTo(t, t.line + m, k)
      <3>1. CASE kind = "move_left"
        BY <3>1 DEF Apply, move
      <3>2. CASE kind = "move_right"
        BY <3>2 DEF Apply, move
      <3>3. CASE kind = "move_up"
        BY <3>3 DEF Apply, move
      <3>4. CASE kind = "move_down"
        BY <3>4 DEF Apply, move
      <3>5. QED
        BY <3>1, <3>2, <3>3, <3>4 DEF Moves
    <2> HIDE DEF m, k
    <2>3. \A line, column \in Int : IsConsole(MoveTo(t, line, column), h, w)
      BY MoveToKeeps
    <2>4. k - m \in Int /\ k + m \in Int /\ t.line - m \in Int
          /\ t.line + m \in Int
      BY <2>1
    <2>5. QED
      BY <2>1, <2>2, <2>3, <2>4
  <1>9. ASSUME NEW column \in Nat
        PROVE  IsConsole(Apply(t, [kind |-> "hposition",
                                   m_column |-> column]), h, w)
    <2>1. Apply(t, [kind |-> "hposition", m_column |-> column]) =
            MoveTo(t, t.line, column)
      BY DEF Apply
    <2>2. t.line \in Int
      BY <1>1 DEF Showing
    <2>3. QED
      BY <2>1, <2>2, MoveToKeeps
  <1>10. QED
    BY <1>3, <1>4, <1>5, <1>6, <1>7, <1>8, <1>9 DEF IsSequence

\* A string of such sequences.
IsText(s) == IsString(s) /\ \A k \in 1 .. Len(s) : IsSequence(s[k])

\* ... leaves it alone as well.
LEMMA DisplayKeeps ==
  ASSUME NEW h \in Nat \ {0}, NEW w \in Nat \ {0}, NEW t, IsConsole(t, h, w),
         NEW s, IsText(s)
  PROVE  IsConsole(Display(t, s), h, w)
  <1>1. Len(s) \in Nat
    BY DEF IsText, IsString
  <1>2. PICK f : AfterIs(t, s, f) /\ Display(t, s) = f[Len(s)]
    BY <1>1, DisplayUnfolds
  <1> DEFINE S == {m \in Nat : m <= Len(s) => IsConsole(f[m], h, w)}
  <1>3. 0 \in S
    BY <1>1, <1>2 DEF AfterIs
  <1>4. \A m \in S : m + 1 \in S
    <2> TAKE m \in S
    <2>1. ASSUME m + 1 <= Len(s)
          PROVE  IsConsole(f[m + 1], h, w)
      <3>1. m + 1 \in 1 .. Len(s) /\ m + 1 \in 0 .. Len(s)
            /\ m + 1 # 0 /\ (m + 1) - 1 = m /\ IsConsole(f[m], h, w)
        BY <1>1, <2>1
      <3>2. f[m + 1] = Apply(f[m], s[m + 1])
        BY <1>2, <3>1 DEF AfterIs
      <3>3. IsSequence(s[m + 1])
        BY <3>1 DEF IsText
      <3>4. QED
        BY <3>1, <3>2, <3>3, ApplyKeeps
    <2>2. QED
      BY <2>1
  <1> HIDE DEF S
  <1>5. S = Nat
    <2>1. S \in SUBSET Nat
      BY DEF S
    <2>2. QED
      BY <1>3, <1>4, <2>1, Induction
  <1>6. QED
    BY <1>1, <1>2, <1>5 DEF S

\* Texts may be put together.
LEMMA TextJoined ==
  ASSUME NEW s, NEW u, IsText(s), IsText(u)
  PROVE  IsText(s \o u)
  <1>1. PICK S : s \in Seq(S)
    BY DEF IsText, IsString
  <1>2. PICK R : u \in Seq(R)
    BY DEF IsText, IsString
  <1>3. s \in Seq(S \cup R) /\ u \in Seq(S \cup R)
    BY <1>1, <1>2
  <1>4. ASSUME NEW k \in 1 .. Len(s \o u)
        PROVE  IsSequence((s \o u)[k])
    <2>1. CASE k <= Len(s)
      <3>1. (s \o u)[k] = s[k] /\ k \in 1 .. Len(s)
        BY <1>3, <2>1
      <3>2. QED
        BY <3>1 DEF IsText
    <2>2. CASE k > Len(s)
      <3>1. (s \o u)[k] = u[k - Len(s)] /\ k - Len(s) \in 1 .. Len(u)
        BY <1>3, <2>2
      <3>2. QED
        BY <3>1 DEF IsText
    <2>3. QED
      BY <1>3, <2>1, <2>2
  <1>5. IsString(s \o u)
    BY DisplayJoined DEF IsText
  <1>6. QED
    BY <1>4, <1>5 DEF IsText

\* Short texts.
LEMMA ShortTexts ==
  ASSUME NEW e, NEW f, IsSequence(e), IsSequence(f)
  PROVE  IsText(<<>>) /\ IsText(<<e>>) /\ IsText(<<e, f>>)
  BY ShortStrings DEF IsText
=============================================================================
