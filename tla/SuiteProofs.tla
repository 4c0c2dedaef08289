---------------------------- MODULE SuiteProofs ----------------------------
(***************************************************************************)
(* That the file is complete, for every number of samples and whatever     *)
(* fails on the way, that the console shows the progress of every          *)
(* benchmark, for every console that is wide enough, and that the file is  *)
(* read back as it was written and its curves show every sample's share.   *)
(***************************************************************************)
EXTENDS TerminalProofs, ProgressReporter, Plots, FiniteSetTheorems

Steps == {"construct", "report", "measure", "emplace", "destroy",
          "json_write", "exited", "terminated"}

\* The benchmarks whose results have been put away.
Stored == IF at \in {"destroy", "json_write", "exited"} THEN current
          ELSE current - 1

TypeInv ==
    /\ at \in Steps
    /\ current \in 1 .. Len(MainOrder)
    /\ at \in {"json_write", "exited"} => current = Len(MainOrder)

\* The samples so far are the current benchmark's.
Payload ==
    /\ at \in {"report", "measure"} =>
         payload \in Seq({benchmark}) /\ Len(payload) < n
    /\ at = "emplace" => payload \in Seq({benchmark}) /\ Len(payload) = n

\* The results are complete for the benchmarks put away and have no entry for
\* the others: emplace() would leave an entry that exists as it is.
Results ==
    /\ \A b \in 1 .. Stored :
         /\ MainOrder[b] \in DOMAIN serializations
         /\ serializations[MainOrder[b]] = [k \in 1 .. n |-> MainOrder[b]]
    /\ at # "terminated" =>
         DOMAIN serializations \subseteq {MainOrder[b] : b \in 1 .. Stored}

\* Only the end of json_write() touches the file.
File == \/ file \in Unwritten
        \/ at = "exited" /\ file \in {serializations, Truncated}

IInv == TypeInv /\ Payload /\ Results /\ File
-----------------------------------------------------------------------------
\* No benchmark is run twice.
LEMMA OrderIsInjective ==
  /\ Len(MainOrder) = 9
  /\ \A b, c \in 1 .. 9 : MainOrder[b] = MainOrder[c] => b = c
  BY DEF MainOrder

\* A sequence of n alike samples.
LEMMA AllAlike ==
  ASSUME NEW s, NEW x, s \in Seq({x}), Len(s) = n
  PROVE  s = [k \in 1 .. n |-> x]
  OBVIOUS

LEMMA InitIInv == Init => IInv
  BY OrderIsInjective
     DEF Init, IInv, TypeInv, Payload, Results, File, Stored, Steps, Nothing,
         Unwritten

LEMMA StepIInv == IInv /\ [Next]_vars => IInv'
  <1> SUFFICES ASSUME IInv, [Next]_vars PROVE IInv'
    OBVIOUS
  <1> USE OrderIsInjective, SamplesAssumption DEF IInv, TypeInv, Goes, results,
          Stored, Steps
  <1>0. File'
    BY DEF File, Next, Step, Construct, Report, ReportTooSoon, Measure, Throw,
       Emplace, Destroy, JsonWrite, Terminating, vars
  <1> USE <1>0
  <1>1. CASE Construct
    BY <1>1 DEF Construct, Payload, Results, benchmark
  <1>2. CASE Report \/ ReportTooSoon
    BY <1>2 DEF Report, ReportTooSoon, Payload, Results, benchmark
  <1>3. CASE Measure
    <2>1. /\ payload' = Append(payload, benchmark)
          /\ payload \in Seq({benchmark})
          /\ Len(payload) < n
          /\ benchmark' = benchmark
      BY <1>3 DEF Measure, Payload, benchmark
    <2>2. payload' \in Seq({benchmark}) /\ Len(payload') = Len(payload) + 1
      BY <2>1
    <2>3. Len(payload) \in Nat
      BY <2>1
    <2>4. Payload'
      BY <1>3, <2>1, <2>2, <2>3 DEF Measure, Payload
    <2>5. QED
      BY <1>3, <2>4 DEF Measure, Results
  <1>4. CASE Throw
    BY <1>4 DEF Throw, Payload, Results
  <1>5. CASE Emplace
    <2>1. payload = [k \in 1 .. n |-> benchmark]
      BY <1>5, AllAlike DEF Emplace, Payload
    <2>2. /\ benchmark \notin DOMAIN serializations
          /\ at' = "destroy" /\ current' = current
      <3>1. Stored = current - 1 /\ current \in 1 .. 9
        BY <1>5 DEF Emplace
      <3>2. \A b \in 1 .. Stored : MainOrder[b] # MainOrder[current]
        BY <3>1
      <3>3. DOMAIN serializations \subseteq {MainOrder[b] : b \in 1 .. Stored}
        BY <1>5 DEF Emplace, Results
      <3>4. QED
        BY <1>5, <3>2, <3>3 DEF Emplace, benchmark
    <2>3. /\ DOMAIN serializations' = DOMAIN serializations \cup {benchmark}
          /\ serializations'[benchmark] = payload
          /\ \A key \in DOMAIN serializations :
               serializations'[key] = serializations[key]
      BY <1>5, <2>2 DEF Emplace, Description
    <2>4. Results'
      <3>1. Stored = current - 1 /\ Stored' = current
        BY <1>5, <2>2 DEF Emplace
      <3>2. ASSUME NEW b \in 1 .. Stored'
            PROVE  /\ MainOrder[b] \in DOMAIN serializations'
                   /\ serializations'[MainOrder[b]] =
                        [k \in 1 .. n |-> MainOrder[b]]
        <4>1. CASE b = current
          BY <2>1, <2>3, <4>1 DEF benchmark
        <4>2. CASE b # current
          <5>1. b \in 1 .. Stored
            BY <3>1, <4>2
          <5>2. /\ MainOrder[b] \in DOMAIN serializations
                /\ serializations[MainOrder[b]] =
                     [k \in 1 .. n |-> MainOrder[b]]
            BY <5>1 DEF Results
          <5>3. QED
            BY <2>3, <5>2
        <4>3. QED
          BY <4>1, <4>2
      <3>3. DOMAIN serializations' \subseteq
              {MainOrder[b] : b \in 1 .. Stored'}
        <4>1. DOMAIN serializations \subseteq
                {MainOrder[b] : b \in 1 .. Stored}
          BY <1>5 DEF Emplace, Results
        <4>2. QED
          BY <2>3, <3>1, <4>1 DEF benchmark
      <3>4. QED
        BY <3>2, <3>3 DEF Results
    <2>5. QED
      BY <1>5, <2>2, <2>4 DEF Emplace, Payload
  <1>6. CASE Destroy
    BY <1>6 DEF Destroy, Payload, Results
  <1>7. CASE JsonWrite
    BY <1>7 DEF JsonWrite, Payload, Results
  <1>8. CASE Terminating \/ UNCHANGED vars
    BY <1>8 DEF Terminating, vars, Payload, Results, benchmark
  <1>9. QED
    BY <1>1, <1>2, <1>3, <1>4, <1>5, <1>6, <1>7, <1>8 DEF Next, Step

\* IInv holds in every reachable state.
THEOREM Invariance == Spec => []IInv
  BY InitIInv, StepIInv, PTL DEF Spec

\* A file written to its end has n samples of every benchmark of main(), and
\* each sample is of the benchmark it is filed under; until main() has ended
\* the file is what it was.
THEOREM FileComplete == Spec => []FileIsComplete
  <1>1. IInv => FileIsComplete
    <2>0. IInv /\ at # "exited" => file \in Unwritten
      BY DEF IInv, File
    <2> SUFFICES ASSUME IInv, file \notin Unwritten \cup {Truncated},
                        NEW x \in Range(MainOrder)
                 PROVE  x \in DOMAIN file /\ file[x] = [k \in 1 .. n |-> x]
      BY <2>0 DEF FileIsComplete
    <2>1. Stored = 9 /\ file = serializations
      BY OrderIsInjective DEF IInv, TypeInv, File, Stored
    <2>2. PICK b \in 1 .. 9 : x = MainOrder[b]
      BY OrderIsInjective DEF Range, MainOrder
    <2>3. /\ MainOrder[b] \in DOMAIN serializations
          /\ serializations[MainOrder[b]] = [k \in 1 .. n |-> MainOrder[b]]
      BY <2>1 DEF IInv, Results
    <2>4. QED
      BY <2>1, <2>2, <2>3
  <1>2. QED
    BY <1>1, Invariance, PTL
-----------------------------------------------------------------------------
(* Text on the console *)

\* What is shown after letters from a place on.
Overwritten(g, l, c, x, f) ==
    [p \in DOMAIN g |->
       IF p[1] = l /\ p[2] - c + 1 \in DOMAIN x
       THEN [m_letter |-> x[p[2] - c + 1], m_format |-> f]
       ELSE g[p]]

\* ... and after the first m of them.
Begun(g, l, c, x, f, m) ==
    [p \in DOMAIN g |->
       IF p[1] = l /\ p[2] - c + 1 \in 1 .. m
       THEN [m_letter |-> x[p[2] - c + 1], m_format |-> f]
       ELSE g[p]]

\* A line of the window with room for m letters from column c on.
HasRoom(g, h, w, l, c, m) ==
    /\ h \in Nat /\ w \in Nat /\ l \in 0 .. h - 1 /\ c \in Nat /\ m \in Nat
    /\ c + m <= w
    /\ g = [p \in Window(h, w) |-> g[p]]

\* One more letter.
LEMMA OneMoreLetter ==
  ASSUME NEW h, NEW w, NEW l, NEW c, NEW g, NEW m \in Nat,
         HasRoom(g, h, w, l, c, m + 1), NEW x, NEW f
  PROVE  Written(Begun(g, l, c, x, f, m), l, c + m, x[m + 1], f) =
           Begun(g, l, c, x, f, m + 1)
  <1> DEFINE Cell(k) == [m_letter |-> x[k], m_format |-> f]
             look == [m_letter |-> x[m + 1], m_format |-> f]
             a == [p \in Window(h, w) |->
                     IF p[1] = l /\ p[2] - c + 1 \in 1 .. m
                     THEN Cell(p[2] - c + 1) ELSE g[p]]
             u == [a EXCEPT ![<<l, c + m>>] = look]
             b == [p \in Window(h, w) |->
                     IF p[1] = l /\ p[2] - c + 1 \in 1 .. m + 1
                     THEN Cell(p[2] - c + 1) ELSE g[p]]
  <1> USE DEF HasRoom
  <1>0. look = Cell(m + 1)
    OBVIOUS
  <1> HIDE DEF Cell, look
  <1>1. DOMAIN u = Window(h, w) /\ DOMAIN b = Window(h, w)
    OBVIOUS
  <1>2. ASSUME NEW p \in Window(h, w)
        PROVE  u[p] = b[p]
    <2>1. p = <<p[1], p[2]>> /\ p[1] \in 0 .. h - 1 /\ p[2] \in 0 .. w - 1
      BY DEF Window
    <2>2. CASE p = <<l, c + m>>
      <3>1. p[1] = l /\ p[2] = c + m
        BY <2>2
      <3>2. p[2] - c + 1 = m + 1 /\ p[2] - c + 1 \in 1 .. m + 1
        BY <3>1
      <3>3. u[p] = look
        BY <2>2
      <3>4. b[p] = Cell(p[2] - c + 1)
        BY <3>1, <3>2
      <3>5. QED
        BY <1>0, <3>2, <3>3, <3>4
    <2>3. CASE p # <<l, c + m>>
      <3>1. u[p] = a[p]
        BY <2>3
      <3>2. p[1] = l => p[2] # c + m
        BY <2>1, <2>3
      <3>3. p[1] = l => (p[2] - c + 1 \in 1 .. m + 1
                           <=> p[2] - c + 1 \in 1 .. m)
        BY <2>1, <3>2
      <3>4. QED
        BY <3>1, <3>3
    <2>4. QED
      BY <2>2, <2>3
  <1> HIDE DEF u, b
  <1>3. u = b
    <2>1. u = [p \in Window(h, w) |-> u[p]] /\ b = [p \in Window(h, w) |-> b[p]]
      BY <1>1 DEF u, b
    <2>2. QED
      BY <1>2, <2>1
  <1>4. Begun(g, l, c, x, f, m) = a /\ Begun(g, l, c, x, f, m + 1) = b
    BY DEF Begun, Cell, b
  <1>5. QED
    BY <1>3, <1>4 DEF u, Written, look

\* A text is displayed letter by letter.
LEMMA TextDisplayed ==
  ASSUME NEW h, NEW w, NEW l, NEW c, NEW g, NEW x, NEW f, NEW v, IsString(x),
         HasRoom(g, h, w, l, c, Len(x)), NEW e, e = c + Len(x)
  PROVE  /\ IsString(Text(x))
         /\ Display(Showing(h, w, g, l, c, f, v), Text(x)) =
              Showing(h, w, Overwritten(g, l, c, x, f), l, e, f, v)
  <1> DEFINE t == Showing(h, w, g, l, c, f, v)
             s == Text(x)
             N == Len(x)
  <1>1. PICK S : x \in Seq(S)
    BY DEF IsString
  <1>2. N \in Nat /\ DOMAIN x = 1 .. N
    BY <1>1
  <1>3. s = [k \in 1 .. N |-> char(x[k])]
    BY <1>2 DEF Text
  <1>4. s \in Seq({char(x[k]) : k \in 1 .. N}) /\ Len(s) = N
    BY <1>2, <1>3
  <1> HIDE DEF s, t
  <1>5. PICK F : AfterIs(t, s, F) /\ Display(t, s) = F[N]
    BY <1>2, <1>4, DisplayUnfolds
  <1>6. /\ F[0] = t
        /\ \A k \in 1 .. N : F[k] = Apply(F[k - 1], char(x[k]))
    <2>1. F = [k \in 0 .. N |-> IF k = 0 THEN t ELSE Apply(F[k - 1], s[k])]
      BY <1>4, <1>5 DEF AfterIs
    <2>2. 0 \in 0 .. N /\ \A k \in 1 .. N : k \in 0 .. N /\ k # 0
      BY <1>2
    <2>3. \A k \in 1 .. N : s[k] = char(x[k])
      BY <1>3
    <2> HIDE DEF N
    <2>4. QED
      BY <2>1, <2>2, <2>3
  <1> DEFINE D == {m \in Nat : m <= N =>
                     F[m] = Showing(h, w, Begun(g, l, c, x, f, m), l, c + m,
                                    f, v)}
  <1>7. 0 \in D
    <2>1. Begun(g, l, c, x, f, 0) = g
      <3>1. g = [p \in DOMAIN g |-> g[p]] /\ 1 .. 0 = {}
        BY DEF HasRoom
      <3>2. QED
        BY <3>1 DEF Begun
    <2>2. c + 0 = c
      BY DEF HasRoom
    <2>3. QED
      BY <1>6, <2>1, <2>2 DEF t
  <1>8. \A m \in D : m + 1 \in D
    <2> SUFFICES ASSUME NEW m \in D, m + 1 <= N
                 PROVE  F[m + 1] = Showing(h, w, Begun(g, l, c, x, f, m + 1),
                                           l, c + (m + 1), f, v)
      BY DEF D
    <2> DEFINE a == Begun(g, l, c, x, f, m)
               b == Begun(g, l, c, x, f, m + 1)
               k == c + m
               y == x[m + 1]
    <2>1. m \in Nat /\ m + 1 \in 1 .. N /\ m <= N /\ (m + 1) - 1 = m
      BY <1>2 DEF D
    <2>2. F[m] = Showing(h, w, a, l, k, f, v)
      BY <2>1 DEF D
    <2>3. F[m + 1] = Apply(F[m], char(y))
      BY <1>6, <2>1
    <2>4. k # w /\ k + 1 = c + (m + 1)
      BY <1>2, <2>1 DEF HasRoom
    <2>5. HasRoom(g, h, w, l, c, m + 1)
      BY <1>2, <2>1 DEF HasRoom
    <2>6. Written(a, l, k, y, f) = b
      BY <2>1, <2>5, OneMoreLetter
    <2> HIDE DEF a, b, k, y
    <2>7. Apply(Showing(h, w, a, l, k, f, v), char(y)) =
            Showing(h, w, Written(a, l, k, y, f), l, k + 1, f, v)
      BY <2>4, ApplyLetter
    <2>8. F[m + 1] = Showing(h, w, b, l, c + (m + 1), f, v)
      BY <2>2, <2>3, <2>4, <2>6, <2>7
    <2>9. QED
      BY <2>8 DEF b
  <1>9. D = Nat
    <2>1. D \in SUBSET Nat
      BY DEF D
    <2> HIDE DEF D
    <2>2. QED
      BY <1>7, <1>8, <2>1, Induction
  <1>10. Begun(g, l, c, x, f, N) = Overwritten(g, l, c, x, f)
    BY <1>2 DEF Begun, Overwritten
  <1>11. F[N] = Showing(h, w, Begun(g, l, c, x, f, N), l, c + N, f, v)
    BY <1>2, <1>9
  <1>12. IsString(s)
    BY <1>4 DEF IsString
  <1>13. QED
    BY <1>5, <1>10, <1>11, <1>12 DEF s, t
-----------------------------------------------------------------------------
(* The cells of a line *)

\* A string has a length,
LEMMA StringLength ==
  ASSUME NEW s, IsString(s)
  PROVE  Len(s) \in Nat /\ DOMAIN s = 1 .. Len(s)
  BY DEF IsString

\* ... two strings in a row have the sum of theirs,
LEMMA JoinedLength ==
  ASSUME NEW s, NEW u, IsString(s), IsString(u), NEW r, r = s \o u
  PROVE  IsString(r) /\ Len(r) = Len(s) + Len(u)
  <1>1. PICK S, T : s \in Seq(S) /\ u \in Seq(T)
    BY DEF IsString
  <1>2. s \in Seq(S \cup T) /\ u \in Seq(S \cup T)
    BY <1>1
  <1>3. r \in Seq(S \cup T) /\ Len(r) = Len(s) + Len(u)
    BY <1>2
  <1>4. QED
    BY <1>3 DEF IsString

\* ... and the elements of both.
HasBoth(r, s, u) ==
    /\ \A k \in 1 .. Len(s) : r[k] = s[k]
    /\ \A k \in 1 .. Len(u) : r[Len(s) + k] = u[k]

\* They come one after the other.
LEMMA JoinedElements ==
  ASSUME NEW s, NEW u, IsString(s), IsString(u), NEW r, r = s \o u
  PROVE  HasBoth(r, s, u)
  <1>1. PICK S, T : s \in Seq(S) /\ u \in Seq(T)
    BY DEF IsString
  <1>2. s \in Seq(S \cup T) /\ u \in Seq(S \cup T)
    BY <1>1
  <1>3. QED
    BY <1>2 DEF HasBoth

\* Letters in one format.
LEMMA LooksOf ==
  ASSUME NEW x, IsString(x), NEW f
  PROVE  /\ IsString(Looks(x, f))
         /\ Len(Looks(x, f)) = Len(x)
         /\ \A k \in 1 .. Len(x) :
              Looks(x, f)[k] = [m_letter |-> x[k], m_format |-> f]
  <1> DEFINE N == Len(x)
             r == Looks(x, f)
             S == {[m_letter |-> x[k], m_format |-> f] : k \in 1 .. N}
  <1>1. N \in Nat /\ DOMAIN x = 1 .. N
    BY DEF IsString
  <1>2. r = [k \in 1 .. N |-> [m_letter |-> x[k], m_format |-> f]]
    BY <1>1 DEF Looks
  <1>3. r \in [1 .. N -> S]
    BY <1>2
  <1>4. r \in Seq(S) /\ Len(r) = N
    BY <1>1, <1>3
  <1>5. QED
    BY <1>2, <1>4 DEF IsString

\* A description, with its colon.
LEMMA DescriptionString ==
  ASSUME NEW b, DescriptionSize[b] \in Nat
  PROVE  /\ IsString(DescriptionText(b))
         /\ Len(DescriptionText(b)) = DescriptionSize[b] + 1
  <1> DEFINE D == DescriptionSize[b]
             s == [k \in 1 .. D |-> b]
             u == <<":">>
  <1>1. s \in Seq({b}) /\ Len(s) = D
    OBVIOUS
  <1>2. u \in Seq({":"}) /\ Len(u) = 1
    OBVIOUS
  <1>3. DescriptionText(b) = s \o u
    BY DEF DescriptionText
  <1> HIDE DEF s, u
  <1>4. IsString(s) /\ IsString(u)
    BY <1>1, <1>2 DEF IsString
  <1>5. /\ IsString(DescriptionText(b))
        /\ Len(DescriptionText(b)) = Len(s) + Len(u)
    BY <1>3, <1>4, JoinedLength
  <1>6. QED
    BY <1>1, <1>2, <1>5

\* A later progress is not a smaller percentage,
LEMMA PercentGrows ==
  ASSUME NEW r \in 0 .. n - 1, NEW s \in 0 .. n - 1, r <= s
  PROVE  Percent(r) \in Int /\ Percent(s) \in Int /\ Percent(r) <= Percent(s)
  <1> DEFINE d == 2 * (n - 1)
             x == 200 * r + n - 1
             y == 200 * s + n - 1
  <1>1. /\ d \in Nat \ {0} /\ x \in Nat /\ y \in Nat /\ x <= y
        /\ Percent(r) = x \div d /\ Percent(s) = y \div d
    BY SamplesAssumption DEF Percent
  <1> HIDE DEF d, x, y
  <1> DEFINE a == x \div d
             b == y \div d
  <1>2. a \in Int /\ b \in Int /\ x % d \in 0 .. d - 1 /\ y % d \in 0 .. d - 1
    BY <1>1
  <1>3. x = d * a + (x % d) /\ y = d * b + (y % d)
    BY <1>1
  <1> HIDE DEF a, b
  <1>4. ASSUME a >= b + 1
        PROVE  FALSE
    <2>1. d * a >= d * (b + 1)
      BY <1>1, <1>2, <1>4
    <2>2. d * (b + 1) = d * b + d
      BY <1>1, <1>2
    <2> DEFINE u == d * a
               v == d * b
    <2>3. /\ u \in Int /\ v \in Int /\ u >= v + d
          /\ x = u + (x % d) /\ y = v + (y % d)
      BY <1>1, <1>2, <1>3, <2>1, <2>2
    <2> HIDE DEF u, v
    <2>4. QED
      BY <1>1, <1>2, <2>3
  <1>5. QED
    BY <1>1, <1>2, <1>4 DEF a, b

\* ... and its text is not shorter.
LEMMA PercentTextGrows ==
  ASSUME NEW p \in Int, NEW q \in Int, p <= q
  PROVE  /\ IsString(PercentText(p))
         /\ Len(PercentText(p)) \in 2 .. 4
         /\ Len(PercentText(p)) <= Len(PercentText(q))
  <1> DEFINE Size(k) == IF k < 10 THEN 2 ELSE IF k < 100 THEN 3 ELSE 4
  <1>1. ASSUME NEW k \in Int
        PROVE  IsString(PercentText(k)) /\ Len(PercentText(k)) = Size(k)
    <2> DEFINE s == IF k < 10 THEN <<k>>
                    ELSE IF k < 100 THEN <<k \div 10, k % 10>>
                    ELSE <<k \div 100, (k \div 10) % 10, k % 10>>
               u == <<"%">>
    <2>1. s \in Seq(Int) /\ Len(s) + 1 = Size(k)
      <3>1. /\ k \div 100 \in Int /\ (k \div 10) % 10 \in Int
            /\ k % 10 \in Int /\ k \div 10 \in Int
        OBVIOUS
      <3>2. CASE k < 10
        BY <3>2
      <3>3. CASE ~(k < 10) /\ k < 100
        BY <3>1, <3>3
      <3>4. CASE ~(k < 10) /\ ~(k < 100)
        BY <3>1, <3>4
      <3>5. QED
        BY <3>2, <3>3, <3>4
    <2>2. u \in Seq({"%"}) /\ Len(u) = 1
      OBVIOUS
    <2>3. PercentText(k) = s \o u
      BY DEF PercentText
    <2> HIDE DEF s, u, Size
    <2>4. IsString(s) /\ IsString(u)
      BY <2>1, <2>2 DEF IsString
    <2>5. IsString(PercentText(k)) /\ Len(PercentText(k)) = Len(s) + Len(u)
      BY <2>3, <2>4, JoinedLength
    <2>6. QED
      BY <2>1, <2>2, <2>5
  <1>2. Size(p) \in 2 .. 4 /\ Size(p) <= Size(q)
    OBVIOUS
  <1>3. QED
    BY <1>1, <1>2

\* A percentage in its color, and the space before it.
Colored(progress) ==
    [DefaultFormat EXCEPT !.m_fg_color = PercentColor(progress)]

LEMMA PercentCellsAre ==
  ASSUME NEW r, Percent(r) \in Int
  PROVE  LET x == PercentText(Percent(r))
         IN /\ IsString(PercentCells(r))
            /\ Len(PercentCells(r)) = 1 + Len(x)
            /\ PercentCells(r)[1] = Blank
            /\ \A k \in 1 .. Len(x) :
                 PercentCells(r)[1 + k] =
                   [m_letter |-> x[k], m_format |-> Colored(r)]
  <1> DEFINE x == PercentText(Percent(r))
             space == " "
             y == <<space>>
             s == Looks(y, DefaultFormat)
             u == Looks(x, Colored(r))
             e == PercentCells(r)
  <1>1. IsString(x) /\ Len(x) \in Nat
    BY PercentTextGrows
  <1>2. IsString(y) /\ Len(y) = 1 /\ y[1] = space
    BY ShortStrings
  <1>3. e = s \o u
    BY DEF PercentCells, Colored
  <1> HIDE DEF x, y, space
  <1>4. IsString(s) /\ Len(s) = 1
    BY <1>2, LooksOf
  <1>5. s[1] = [m_letter |-> space, m_format |-> DefaultFormat]
    <2>1. \A k \in 1 .. Len(y) :
             s[k] = [m_letter |-> y[k], m_format |-> DefaultFormat]
      BY <1>2, LooksOf
    <2> HIDE DEF s
    <2>2. QED
      BY <1>2, <2>1
  <1>6. /\ IsString(u) /\ Len(u) = Len(x)
        /\ \A k \in 1 .. Len(x) :
             u[k] = [m_letter |-> x[k], m_format |-> Colored(r)]
    BY <1>1, LooksOf
  <1> HIDE DEF s, u, e
  <1>7. IsString(e) /\ Len(e) = Len(s) + Len(u)
    BY <1>3, <1>4, <1>6, JoinedLength
  <1>8. /\ \A k \in 1 .. Len(s) : e[k] = s[k]
        /\ \A k \in 1 .. Len(u) : e[Len(s) + k] = u[k]
    <2>1. HasBoth(e, s, u)
      BY <1>3, <1>4, <1>6, JoinedElements
    <2>2. QED
      BY <2>1 DEF HasBoth
  <1>9. e[1] = Blank
    <2>1. 1 \in 1 .. Len(s)
      BY <1>4
    <2>2. e[1] = s[1]
      BY <1>8, <2>1
    <2>3. s[1] = Blank
      BY <1>5 DEF Blank, space
    <2>4. QED
      BY <2>2, <2>3
  <1>10. Len(e) = 1 + Len(x)
    BY <1>4, <1>6, <1>7
  <1>11. \A k \in 1 .. Len(x) :
            e[1 + k] = [m_letter |-> x[k], m_format |-> Colored(r)]
    BY <1>4, <1>6, <1>8
  <1>12. QED
    BY <1>7, <1>9, <1>10, <1>11 DEF x, e
-----------------------------------------------------------------------------
(* What the lines of the benchmarks show *)

\* A line of the window shows these cells and nothing behind them.
LineHas(g, l, w, cells) ==
    \A column \in 0 .. w - 1 :
        g[<<l, column>>] = IF column + 1 \in DOMAIN cells
                           THEN cells[column + 1] ELSE Blank

\* Nothing at all.
LEMMA BlankLine ==
  ASSUME NEW g, NEW l, NEW w
  PROVE  LineHas(g, l, w, <<>>) <=>
           \A column \in 0 .. w - 1 : g[<<l, column>>] = Blank
  <1>1. \A column \in 0 .. w - 1 : column + 1 \notin DOMAIN <<>>
    <2>1. DOMAIN <<>> = {}
      OBVIOUS
    <2>2. QED
      BY <2>1, Zenon
  <1>2. QED
    BY <1>1, Zenon DEF LineHas

\* The description, and the description with a percentage.
DescriptionCells(b) == Looks(DescriptionText(b), DefaultFormat)
ProgressCells(b, r) == DescriptionCells(b) \o PercentCells(r)

\* The same by the letters.
DescriptionIsThere(g, l, w, b) ==
    \A column \in 0 .. w - 1 :
        column <= DescriptionSize[b] =>
            g[<<l, column>>] = [m_letter |-> DescriptionText(b)[column + 1],
                                m_format |-> DefaultFormat]

\* Behind the description is a space, and nothing behind the m places after it.
NoMoreThan(g, l, w, b, m) ==
    \A column \in 0 .. w - 1 :
        \/ column = DescriptionSize[b] + 1
        \/ column > DescriptionSize[b] + 1 + m
        => g[<<l, column>>] = Blank

\* A line with a description
LEMMA DescriptionLine ==
  ASSUME NEW g, NEW l, NEW w \in Nat, NEW b, DescriptionSize[b] \in Nat
  PROVE  LineHas(g, l, w, DescriptionCells(b)) <=>
           /\ DescriptionIsThere(g, l, w, b)
           /\ NoMoreThan(g, l, w, b, 0)
  <1> DEFINE D == DescriptionSize[b]
             x == DescriptionText(b)
             cells == DescriptionCells(b)
  <1>1. IsString(x) /\ Len(x) = D + 1
    BY DescriptionString
  <1>2. /\ IsString(cells) /\ Len(cells) = D + 1
        /\ \A k \in 1 .. D + 1 :
             cells[k] = [m_letter |-> x[k], m_format |-> DefaultFormat]
    <2> HIDE DEF x
    <2>1. /\ IsString(cells) /\ Len(cells) = Len(x)
          /\ \A k \in 1 .. Len(x) :
               cells[k] = [m_letter |-> x[k], m_format |-> DefaultFormat]
      BY <1>1, LooksOf DEF DescriptionCells, x
    <2> HIDE DEF cells
    <2>2. QED
      BY <1>1, <2>1
  <1> HIDE DEF cells, x
  <1>3. DOMAIN cells = 1 .. D + 1
    BY <1>2, StringLength
  <1>4. ASSUME NEW column \in 0 .. w - 1
        PROVE  /\ column + 1 \in 1 .. D + 1 <=> column <= D
               /\ column = D + 1 \/ column > D + 1 + 0 <=> column > D
    OBVIOUS
  <1> DEFINE Before(column) == [m_letter |-> x[column + 1],
                                m_format |-> DefaultFormat]
  <1>5. ASSUME NEW column \in 0 .. w - 1
        PROVE  (IF column + 1 \in DOMAIN cells
                THEN cells[column + 1] ELSE Blank)
                 = IF column <= D THEN Before(column) ELSE Blank
    <2>1. CASE column <= D
      BY <1>2, <1>3, <1>4, <2>1
    <2>2. CASE ~(column <= D)
      BY <1>3, <1>4, <2>2
    <2>3. QED
      BY <2>1, <2>2
  <1> HIDE DEF Before
  <1>6. LineHas(g, l, w, cells) <=>
          \A column \in 0 .. w - 1 :
            g[<<l, column>>] = IF column <= D THEN Before(column) ELSE Blank
    BY <1>5 DEF LineHas
  <1>7. DescriptionIsThere(g, l, w, b) <=>
          \A column \in 0 .. w - 1 :
            column <= D => g[<<l, column>>] = Before(column)
    BY DEF DescriptionIsThere, x, Before
  <1>8. NoMoreThan(g, l, w, b, 0) <=>
          \A column \in 0 .. w - 1 : ~(column <= D) => g[<<l, column>>] = Blank
    BY <1>4 DEF NoMoreThan
  <1>9. LineHas(g, l, w, cells) <=>
          /\ DescriptionIsThere(g, l, w, b)
          /\ NoMoreThan(g, l, w, b, 0)
    BY <1>6, <1>7, <1>8
  <1>10. QED
    BY <1>9 DEF cells

\* ... and one with a percentage.
LEMMA ProgressLine ==
  ASSUME NEW g, NEW l, NEW w \in Nat, NEW b, DescriptionSize[b] \in Nat,
         NEW r, Percent(r) \in Int
  PROVE  LET x == PercentText(Percent(r))
         IN LineHas(g, l, w, ProgressCells(b, r)) <=>
              /\ DescriptionIsThere(g, l, w, b)
              /\ NoMoreThan(g, l, w, b, Len(x))
              /\ \A column \in 0 .. w - 1 :
                   column - DescriptionSize[b] - 1 \in 1 .. Len(x) =>
                     g[<<l, column>>] =
                       [m_letter |-> x[column - DescriptionSize[b] - 1],
                        m_format |-> Colored(r)]
  <1> DEFINE D == DescriptionSize[b]
             x == DescriptionText(b)
             y == PercentText(Percent(r))
             m == Len(y)
             s == DescriptionCells(b)
             u == PercentCells(r)
             cells == ProgressCells(b, r)
  <1>1. IsString(x) /\ Len(x) = D + 1
    BY DescriptionString
  <1>2. IsString(y) /\ m \in 2 .. 4
    BY PercentTextGrows
  <1>3. /\ IsString(s) /\ Len(s) = D + 1
        /\ \A k \in 1 .. D + 1 :
             s[k] = [m_letter |-> x[k], m_format |-> DefaultFormat]
    <2> HIDE DEF x
    <2>1. /\ IsString(s) /\ Len(s) = Len(x)
          /\ \A k \in 1 .. Len(x) :
               s[k] = [m_letter |-> x[k], m_format |-> DefaultFormat]
      BY <1>1, LooksOf DEF DescriptionCells, x
    <2> HIDE DEF s
    <2>2. QED
      BY <1>1, <2>1
  <1>4. /\ IsString(u) /\ Len(u) = 1 + m
        /\ u[1] = Blank
        /\ \A k \in 1 .. m :
             u[1 + k] = [m_letter |-> y[k], m_format |-> Colored(r)]
    BY PercentCellsAre
  <1>5. cells = s \o u
    BY DEF ProgressCells
  <1> HIDE DEF cells, s, u, x, y, m
  <1>6. IsString(cells) /\ Len(cells) = D + 2 + m
    <2>1. IsString(cells) /\ Len(cells) = Len(s) + Len(u)
      BY <1>3, <1>4, <1>5, JoinedLength
    <2>2. QED
      BY <1>2, <1>3, <1>4, <2>1
  <1>7. DOMAIN cells = 1 .. D + 2 + m
    BY <1>6, StringLength
  <1>8. /\ \A k \in 1 .. D + 1 : cells[k] = s[k]
        /\ \A k \in 1 .. 1 + m : cells[D + 1 + k] = u[k]
    <2>1. HasBoth(cells, s, u)
      BY <1>3, <1>4, <1>5, JoinedElements
    <2>2. QED
      BY <1>3, <1>4, <2>1 DEF HasBoth
  <1> DEFINE Behind(column) == [m_letter |-> y[column - D - 1],
                                m_format |-> Colored(r)]
             Before(column) == [m_letter |-> x[column + 1],
                                m_format |-> DefaultFormat]
  <1>9. ASSUME NEW column \in Nat
        PROVE  (IF column + 1 \in DOMAIN cells
                THEN cells[column + 1] ELSE Blank)
                 = IF column <= D THEN Before(column)
                   ELSE IF column - D - 1 \in 1 .. m THEN Behind(column)
                   ELSE Blank
    <2>1. CASE column <= D
      <3>1. column + 1 \in 1 .. D + 1 /\ column + 1 \in 1 .. D + 2 + m
        BY <1>2, <2>1
      <3>2. cells[column + 1] = Before(column)
        BY <1>3, <1>8, <3>1
      <3>3. QED
        BY <1>7, <2>1, <3>1, <3>2
    <2>2. CASE column = D + 1
      <3>1. column + 1 = D + 1 + 1 /\ 1 \in 1 .. 1 + m
            /\ column + 1 \in 1 .. D + 2 + m
        BY <1>2, <2>2
      <3>2. cells[D + 1 + 1] = Blank
        BY <1>4, <1>8, <3>1
      <3>3. ~(column <= D) /\ column - D - 1 \notin 1 .. m
        BY <1>2, <2>2
      <3>4. QED
        BY <3>1, <3>2, <3>3
    <2>3. CASE column - D - 1 \in 1 .. m
      <3> DEFINE k == column - D - 1
      <3>1. /\ k \in 1 .. m /\ 1 + k \in 1 .. 1 + m
            /\ column + 1 = D + 1 + (1 + k)
            /\ column + 1 \in 1 .. D + 2 + m
            /\ ~(column <= D)
        BY <1>2, <2>3
      <3>2. cells[D + 1 + (1 + k)] = u[1 + k] /\ u[1 + k] = Behind(column)
        BY <1>4, <1>8, <3>1
      <3>3. cells[column + 1] = Behind(column)
        BY <3>1, <3>2
      <3>4. QED
        BY <1>7, <2>3, <3>1, <3>3
    <2>4. CASE column > D + 1 + m
      <3>1. /\ column + 1 \notin 1 .. D + 2 + m /\ ~(column <= D)
            /\ column - D - 1 \notin 1 .. m
        BY <1>2, <2>4
      <3>2. QED
        BY <1>7, <3>1
    <2>5. QED
      BY <1>2, <2>1, <2>2, <2>3, <2>4
  <1>10. \A column \in 0 .. w - 1 : column \in Nat
    OBVIOUS
  <1> HIDE DEF Behind, Before
  <1>11. LineHas(g, l, w, cells) <=>
           \A column \in 0 .. w - 1 :
             g[<<l, column>>] =
               IF column <= D THEN Before(column)
               ELSE IF column - D - 1 \in 1 .. m THEN Behind(column)
               ELSE Blank
    BY <1>9, <1>10 DEF LineHas
  <1>12. DescriptionIsThere(g, l, w, b) <=>
           \A column \in 0 .. w - 1 :
             column <= D => g[<<l, column>>] = Before(column)
    BY DEF DescriptionIsThere, x, Before
  <1>13. NoMoreThan(g, l, w, b, m) <=>
           \A column \in 0 .. w - 1 :
             ~(column <= D) /\ column - D - 1 \notin 1 .. m
               => g[<<l, column>>] = Blank
    <2>1. \A column \in 0 .. w - 1 :
             (column = D + 1 \/ column > D + 1 + m)
               <=> ~(column <= D) /\ column - D - 1 \notin 1 .. m
      BY <1>2
    <2>2. QED
      BY <2>1 DEF NoMoreThan
  <1>14. \A column \in 0 .. w - 1 :
            column - D - 1 \in 1 .. m => ~(column <= D)
    BY <1>2
  <1>15. LineHas(g, l, w, cells) <=>
           /\ DescriptionIsThere(g, l, w, b)
           /\ NoMoreThan(g, l, w, b, m)
           /\ \A column \in 0 .. w - 1 :
                column - D - 1 \in 1 .. m => g[<<l, column>>] = Behind(column)
    BY <1>11, <1>12, <1>13, <1>14
  <1>16. QED
    BY <1>15 DEF Behind, cells, m, y
-----------------------------------------------------------------------------
(* What writing does to the lines *)

\* A description is written on a blank line,
LEMMA DescriptionWritten ==
  ASSUME NEW h, NEW w, NEW l, NEW g, NEW b, DescriptionSize[b] \in Nat,
         HasRoom(g, h, w, l, 0, Len(DescriptionText(b))),
         LineHas(g, l, w, <<>>)
  PROVE  LineHas(Overwritten(g, l, 0, DescriptionText(b), DefaultFormat), l, w,
                 DescriptionCells(b))
  <1> DEFINE D == DescriptionSize[b]
             x == DescriptionText(b)
             u == Overwritten(g, l, 0, x, DefaultFormat)
  <1>1. IsString(x) /\ Len(x) = D + 1
    BY DescriptionString
  <1>2. DOMAIN x = 1 .. D + 1
    BY <1>1, StringLength
  <1>3. h \in Nat /\ w \in Nat /\ l \in 0 .. h - 1
        /\ DOMAIN g = Window(h, w)
    BY DEF HasRoom
  <1>4. \A column \in 0 .. w - 1 : g[<<l, column>>] = Blank
    BY BlankLine
  <1> HIDE DEF x
  <1>5. ASSUME NEW column \in 0 .. w - 1
        PROVE  u[<<l, column>>] =
                 IF column <= D
                 THEN [m_letter |-> x[column + 1], m_format |-> DefaultFormat]
                 ELSE Blank
    <2>1. <<l, column>> \in DOMAIN g
      BY <1>3 DEF Window
    <2>2. column - 0 + 1 = column + 1
          /\ (column + 1 \in 1 .. D + 1 <=> column <= D)
      OBVIOUS
    <2>3. u[<<l, column>>] =
            IF column + 1 \in DOMAIN x
            THEN [m_letter |-> x[column + 1], m_format |-> DefaultFormat]
            ELSE g[<<l, column>>]
      BY <2>1, <2>2 DEF Overwritten
    <2>4. QED
      BY <1>2, <1>4, <2>2, <2>3
  <1> HIDE DEF u
  <1>6. DescriptionIsThere(u, l, w, b)
    BY <1>5 DEF DescriptionIsThere, x
  <1>7. NoMoreThan(u, l, w, b, 0)
    <2>1. \A column \in 0 .. w - 1 :
             column = D + 1 \/ column > D + 1 + 0 => ~(column <= D)
      OBVIOUS
    <2>2. QED
      BY <1>5, <2>1 DEF NoMoreThan
  <1>8. LineHas(u, l, w, DescriptionCells(b))
    BY <1>3, <1>6, <1>7, DescriptionLine
  <1>9. QED
    BY <1>8 DEF u, x

\* ... and a percentage over one that is not longer.
LEMMA PercentWritten ==
  ASSUME NEW h, NEW w, NEW l, NEW g, NEW b, DescriptionSize[b] \in Nat,
         NEW c, c = DescriptionSize[b] + 2, NEW s, Percent(s) \in Int,
         HasRoom(g, h, w, l, c, Len(PercentText(Percent(s)))),
         DescriptionIsThere(g, l, w, b),
         NEW m \in Nat, m <= Len(PercentText(Percent(s))),
         NoMoreThan(g, l, w, b, m)
  PROVE  LineHas(Overwritten(g, l, c, PercentText(Percent(s)), Colored(s)),
                 l, w, ProgressCells(b, s))
  <1> DEFINE D == DescriptionSize[b]
             x == PercentText(Percent(s))
             u == Overwritten(g, l, c, x, Colored(s))
             N == Len(x)
  <1>1. IsString(x) /\ N \in 2 .. 4
    BY PercentTextGrows
  <1>2. DOMAIN x = 1 .. N
    BY <1>1, StringLength
  <1>3. h \in Nat /\ w \in Nat /\ l \in 0 .. h - 1
        /\ DOMAIN g = Window(h, w)
    BY DEF HasRoom
  <1>4. m <= N
    OBVIOUS
  <1> HIDE DEF x, N
  <1> DEFINE Behind(column) == [m_letter |-> x[column - D - 1],
                                m_format |-> Colored(s)]
  <1>5. ASSUME NEW column \in 0 .. w - 1
        PROVE  u[<<l, column>>] =
                 IF column - D - 1 \in 1 .. N
                 THEN Behind(column)
                 ELSE g[<<l, column>>]
    <2>1. <<l, column>> \in DOMAIN g
      BY <1>3 DEF Window
    <2>2. column - c + 1 = column - D - 1
      OBVIOUS
    <2>3. QED
      BY <1>2, <2>1, <2>2 DEF Overwritten
  <1> HIDE DEF u, Behind
  <1>6. DescriptionIsThere(u, l, w, b)
    <2>1. \A column \in 0 .. w - 1 :
             column <= D => column - D - 1 \notin 1 .. N
      OBVIOUS
    <2>2. QED
      BY <1>5, <2>1 DEF DescriptionIsThere
  <1>7. NoMoreThan(u, l, w, b, N)
    <2>1. \A column \in 0 .. w - 1 :
             column = D + 1 \/ column > D + 1 + N =>
               /\ column - D - 1 \notin 1 .. N
               /\ column = D + 1 \/ column > D + 1 + m
      BY <1>1, <1>4
    <2>2. QED
      BY <1>5, <2>1 DEF NoMoreThan
  <1>8. \A column \in 0 .. w - 1 :
          column - D - 1 \in 1 .. N => u[<<l, column>>] = Behind(column)
    BY <1>5
  <1>9. LineHas(u, l, w, ProgressCells(b, s))
    BY <1>3, <1>6, <1>7, <1>8, ProgressLine DEF x, N, Behind
  <1>10. QED
    BY <1>9 DEF u, x

\* The other lines stay as they are.
LEMMA OtherLineStays ==
  ASSUME NEW h, NEW w, NEW l, NEW c, NEW g, NEW m, HasRoom(g, h, w, l, c, m),
         NEW x, NEW f, NEW k \in 0 .. h - 1, k # l, NEW cells,
         LineHas(g, k, w, cells)
  PROVE  LineHas(Overwritten(g, l, c, x, f), k, w, cells)
  <1>1. DOMAIN g = Window(h, w)
    BY DEF HasRoom
  <1>2. ASSUME NEW column \in 0 .. w - 1
        PROVE  Overwritten(g, l, c, x, f)[<<k, column>>] = g[<<k, column>>]
    <2>1. <<k, column>> \in DOMAIN g
      BY <1>1 DEF Window
    <2>2. QED
      BY <2>1 DEF Overwritten
  <1>3. QED
    BY <1>2 DEF LineHas

\* The grid keeps its size.
LEMMA OverwrittenWindow ==
  ASSUME NEW h, NEW w, NEW l, NEW c, NEW g, NEW m, HasRoom(g, h, w, l, c, m),
         NEW x, NEW f, NEW u, u = Overwritten(g, l, c, x, f)
  PROVE  u = [p \in Window(h, w) |-> u[p]]
  <1>1. DOMAIN g = Window(h, w)
    BY DEF HasRoom
  <1>2. QED
    BY <1>1 DEF Overwritten

\* A line that shows the same has the same cells.
LEMMA SameLine ==
  ASSUME NEW g, NEW k, NEW u, NEW e, NEW w, NEW cells, LineHas(g, k, w, cells),
         \A column \in 0 .. w - 1 : u[<<e, column>>] = g[<<k, column>>]
  PROVE  LineHas(u, e, w, cells)
  <1> DEFINE Cell(column) == IF column + 1 \in DOMAIN cells
                             THEN cells[column + 1] ELSE Blank
  <1>1. \A column \in 0 .. w - 1 : g[<<k, column>>] = Cell(column)
    BY DEF LineHas
  <1> HIDE DEF Cell
  <1>2. \A column \in 0 .. w - 1 : u[<<e, column>>] = Cell(column)
    BY <1>1
  <1>3. QED
    BY <1>2 DEF LineHas, Cell

\* The end of a line takes every line with it when the window scrolls,
LEMMA LinesMoveUp ==
  ASSUME NEW h \in Nat \ {0}, NEW w \in Nat, NEW g,
         g = [p \in Window(h, w) |-> g[p]], NEW l \in 0 .. h - 1,
         NEW k \in 0 .. h - 1, NEW cells, LineHas(g, k, w, cells),
         NEW e \in 0 .. h - 1, e = IF l < h - 1 THEN k ELSE k - 1
  PROVE  LineHas(MovedUp(g, l, h), e, w, cells)
  <1>1. CASE l < h - 1
    <2>1. MovedUp(g, l, h) = g /\ e = k
      BY <1>1 DEF MovedUp
    <2>2. QED
      BY <2>1
  <1>2. CASE ~(l < h - 1)
    <2>1. MovedUp(g, l, h) = Scrolled(g, h) /\ e # h - 1 /\ e + 1 = k
      BY <1>2 DEF MovedUp
    <2>2. ASSUME NEW column \in 0 .. w - 1
          PROVE  Scrolled(g, h)[<<e, column>>] = g[<<k, column>>]
      <3>1. <<e, column>> \in DOMAIN g
        BY DEF Window
      <3>2. Scrolled(g, h)[<<e, column>>] = g[<<e + 1, column>>]
        BY <2>1, <3>1 DEF Scrolled
      <3>3. QED
        BY <2>1, <3>2
    <2> DEFINE u == Scrolled(g, h)
    <2> HIDE DEF u
    <2>3. LineHas(u, e, w, cells)
      BY <2>2, SameLine DEF u
    <2>4. QED
      BY <2>1, <2>3 DEF u
  <1>3. QED
    BY <1>1, <1>2

\* ... and the last one is blank then.
LEMMA LastLineIsBlank ==
  ASSUME NEW h \in Nat \ {0}, NEW w \in Nat, NEW g,
         g = [p \in Window(h, w) |-> g[p]], NEW l, l = h - 1
  PROVE  LineHas(MovedUp(g, l, h), l, w, <<>>)
  <1>1. MovedUp(g, l, h) = Scrolled(g, h)
    BY DEF MovedUp
  <1>2. ASSUME NEW column \in 0 .. w - 1
        PROVE  Scrolled(g, h)[<<l, column>>] = Blank
    <2>1. <<l, column>> \in DOMAIN g
      BY DEF Window
    <2>2. QED
      BY <2>1 DEF Scrolled
  <1>3. QED
    BY <1>1, <1>2, BlankLine

-----------------------------------------------------------------------------
(* What a progress_reporter sends *)

\* The formatting is reset.
LEMMA ApplyReset ==
  ASSUME NEW h, NEW w, NEW g, NEW l, NEW c, NEW f, NEW v
  PROVE  Apply(Showing(h, w, g, l, c, f, v), reset_formatting) =
           Showing(h, w, g, l, c, DefaultFormat, v)
  <1>1. /\ Apply(Showing(h, w, g, l, c, f, v), reset_formatting) =
             Showing(h, w, g, l, c, DefaultFormat, v)
        /\ Apply(Showing(h, w, g, l, c, f, v), fg_rgb(f)) =
             Showing(h, w, g, l, c, WithForeground(f, f), v)
    BY ApplyFormats
  <1>2. QED
    BY <1>1

\* A place with room for a letter is in the window.
LEMMA RoomInside ==
  ASSUME NEW h, NEW w, NEW l, NEW d, NEW g, NEW m, HasRoom(g, h, w, l, d, m),
         m # 0
  PROVE  Inside(l, h) = l /\ Inside(d, w) = d
  <1>1. /\ h \in Nat /\ w \in Nat /\ l \in 0 .. h - 1 /\ d \in Nat
        /\ m \in Nat /\ d + m <= w
    BY DEF HasRoom
  <1>2. h \in Nat \ {0} /\ w \in Nat \ {0} /\ d \in 0 .. w - 1
    BY <1>1
  <1>3. QED
    BY <1>1, <1>2, StaysInside

\* The cursor is hidden, visible, at the left.
Hidden(x) == x = FALSE
Visible(x) == x = TRUE
AtLeft(c) == c = 0

\* The constructor writes the description.
LEMMA ConstructorShown ==
  ASSUME NEW h, NEW w, NEW l, NEW g, NEW v, NEW b, b = benchmark,
         DescriptionSize[b] \in Nat, NEW o, AtLeft(o), NEW no, Hidden(no),
         HasRoom(g, h, w, l, o, Len(DescriptionText(b))),
         NEW e, e = DescriptionSize[b] + 1
  PROVE  Display(Showing(h, w, g, l, o, DefaultFormat, v), progress_reporter) =
           Showing(h, w,
                   Overwritten(g, l, o, DescriptionText(b), DefaultFormat),
                   l, e, DefaultFormat, no)
  <1> DEFINE x == DescriptionText(b)
             f == DefaultFormat
             a == <<cursor_visibility(no)>>
             s == Text(x)
             t == Showing(h, w, g, l, o, f, v)
             u == Showing(h, w, g, l, o, f, no)
  <1>1. IsString(x) /\ Len(x) = DescriptionSize[b] + 1
    BY DescriptionString
  <1>2. e = o + Len(x)
    BY <1>1 DEF AtLeft
  <1>3. progress_reporter = a \o s
    BY DEF progress_reporter, Description, Hidden
  <1> HIDE DEF x, f
  <1>4. Display(t, a) = u
    <2>1. Apply(t, cursor_visibility(no)) = u
      BY ApplyVisibility
    <2> HIDE DEF t, u
    <2>2. Display(t, a) = Apply(t, cursor_visibility(no))
      BY DisplayOne
    <2>3. QED
      BY <2>1, <2>2
  <1>5. HasRoom(g, h, w, l, o, Len(x))
    BY DEF x
  <1>6. /\ IsString(s)
        /\ Display(u, s) =
             Showing(h, w, Overwritten(g, l, o, x, f), l, e, f, no)
    BY <1>1, <1>2, <1>5, TextDisplayed
  <1>7. IsString(a)
    BY ShortStrings
  <1> HIDE DEF a, s, t, u
  <1>8. Display(t, a \o s) = Display(Display(t, a), s)
    BY <1>6, <1>7, DisplayJoined
  <1>9. QED
    BY <1>3, <1>4, <1>6, <1>8 DEF t, x, f

\* A progress is written two columns behind the description.
LEMMA PercentShown ==
  ASSUME NEW h, NEW w, NEW l, NEW g, NEW c, NEW v, NEW b, b = benchmark,
         DescriptionSize[b] \in Nat, NEW d, d = DescriptionSize[b] + 2,
         NEW s, Percent(s) \in Int,
         HasRoom(g, h, w, l, d, Len(PercentText(Percent(s)))),
         NEW e, e = d + Len(PercentText(Percent(s)))
  PROVE  /\ IsString(Shown(s))
         /\ Display(Showing(h, w, g, l, c, DefaultFormat, v), Shown(s)) =
              Showing(h, w,
                      Overwritten(g, l, d, PercentText(Percent(s)), Colored(s)),
                      l, e, DefaultFormat, v)
  <1> DEFINE x == PercentText(Percent(s))
             f == DefaultFormat
             k == Colored(s)
             go == [kind |-> "hposition", m_column |-> d]
             ink == fg_rgb(PercentColor(s))
             a == <<go>>
             y == <<ink>>
             m == Text(x)
             z == <<reset_formatting>>
             t0 == Showing(h, w, g, l, c, f, v)
             t1 == Showing(h, w, g, l, d, f, v)
             t2 == Showing(h, w, g, l, d, k, v)
             o == Overwritten(g, l, d, x, k)
             t3 == Showing(h, w, o, l, e, k, v)
             t4 == Showing(h, w, o, l, e, f, v)
  <1>1. IsString(x) /\ Len(x) # 0
    <2>1. IsString(x) /\ Len(x) \in 2 .. 4
      BY PercentTextGrows
    <2>2. \A N \in 2 .. 4 : N # 0
      OBVIOUS
    <2>3. QED
      BY <2>1, <2>2
  <1>2. Shown(s) = a \o ((y \o m) \o z)
    <2>1. m_progress_pos - 1 = d
      BY DEF m_progress_pos, Description
    <2>2. QED
      BY <2>1 DEF Shown, get_horizontal_pos_str, get_colored_perc_str
  <1>3. Inside(l, h) = l /\ Inside(d, w) = d
    <2>1. HasRoom(g, h, w, l, d, Len(x))
      OBVIOUS
    <2> HIDE DEF x
    <2>2. QED
      BY <1>1, <2>1, RoomInside
  <1>4. k = WithForeground(f, PercentColor(s))
    BY DEF Colored, WithForeground
  <1>5. HasRoom(g, h, w, l, d, Len(x)) /\ e = d + Len(x)
    OBVIOUS
  <1> HIDE DEF x, f, k
  <1>6. Apply(t0, go) = t1
    <2>1. Apply(t0, go) = Showing(h, w, g, Inside(l, h), Inside(d, w), f, v)
      BY ApplyColumn
    <2>2. QED
      BY <1>3, <2>1
  <1>7. Apply(t1, ink) = t2
    <2>1. Apply(t1, ink) =
            Showing(h, w, g, l, d, WithForeground(f, PercentColor(s)), v)
      BY ApplyFormats
    <2>2. QED
      BY <1>4, <2>1
  <1>8. IsString(m) /\ Display(t2, m) = t3
    BY <1>1, <1>5, TextDisplayed
  <1>9. Apply(t3, reset_formatting) = t4
    <2> HIDE DEF o
    <2>1. Apply(Showing(h, w, o, l, e, k, v), reset_formatting) =
            Showing(h, w, o, l, e, DefaultFormat, v)
      BY ApplyReset
    <2>2. QED
      BY <2>1 DEF f
  <1> HIDE DEF t0, t1, t2, t3, t4, go, ink, m
  <1>10. /\ Display(t0, a) = t1 /\ Display(t1, y) = t2 /\ Display(t3, z) = t4
         /\ IsString(a) /\ IsString(y) /\ IsString(z)
    BY <1>6, <1>7, <1>9, DisplayOne, ShortStrings
  <1> HIDE DEF a, y, z
  <1>11. IsString(y \o m) /\ Display(t1, y \o m) = t3
    BY <1>8, <1>10, DisplayJoined
  <1> DEFINE ym == y \o m
  <1> HIDE DEF ym
  <1>12. IsString(ym \o z) /\ Display(t1, ym \o z) = t4
    BY <1>10, <1>11, DisplayJoined DEF ym
  <1> DEFINE ymz == ym \o z
  <1> HIDE DEF ymz
  <1>13. IsString(a \o ymz) /\ Display(t0, a \o ymz) = t4
    BY <1>10, <1>12, DisplayJoined DEF ymz
  <1>14. IsString(Shown(s)) /\ Display(t0, Shown(s)) = t4
    BY <1>2, <1>13 DEF ymz, ym
  <1>15. QED
    BY <1>14 DEF t0, t4, o, x, f, k

\* The destructor writes the last one and ends the line.
LEMMA DestructorShown ==
  ASSUME NEW h, NEW w, NEW l, NEW g, NEW c, NEW v, NEW b, b = benchmark,
         DescriptionSize[b] \in Nat, NEW d, d = DescriptionSize[b] + 2,
         NEW s, s = n - 1, Percent(s) \in Int,
         HasRoom(g, h, w, l, d, Len(PercentText(Percent(s)))),
         NEW u,
         u = Overwritten(g, l, d, PercentText(Percent(s)), Colored(s)),
         NEW o, AtLeft(o), NEW yes, Visible(yes)
  PROVE  Display(Showing(h, w, g, l, c, DefaultFormat, v),
                 progress_reporter_destructor) =
           Showing(h, w, MovedUp(u, l, h), NextLine(l, h), o, DefaultFormat,
                   yes)
  <1>0. PICK e : e = d + Len(PercentText(Percent(s)))
    OBVIOUS
  <1>8. h \in Nat /\ l \in 0 .. h - 1
    BY DEF HasRoom
  <1> DEFINE f == DefaultFormat
             down == [kind |-> "newline"]
             show == cursor_visibility(yes)
             z == <<down, show>>
             x == Shown(s)
             r == MovedUp(u, l, h)
             k == NextLine(l, h)
             t0 == Showing(h, w, g, l, c, f, v)
             t1 == Showing(h, w, u, l, e, f, v)
             t2 == Showing(h, w, r, k, o, f, v)
             t3 == Showing(h, w, r, k, o, f, yes)
  <1>1. progress_reporter_destructor = x \o z
    BY DEF progress_reporter_destructor, newline, Visible
  <1>2. IsString(x) /\ Display(t0, x) = t1
    <2>1. /\ IsString(Shown(s))
          /\ Display(Showing(h, w, g, l, c, DefaultFormat, v), Shown(s)) =
               Showing(h, w,
                       Overwritten(g, l, d, PercentText(Percent(s)),
                                   Colored(s)),
                       l, e, DefaultFormat, v)
      BY <1>0, PercentShown
    <2>2. QED
      BY <2>1
  <1> HIDE DEF f, x
  <1>3. Apply(t1, down) = t2
    <2>1. Display(t1, <<down>>) =
            Showing(h, w, MovedUp(u, l, h), NextLine(l, h), 0, f, v)
      BY <1>8, LineEnds
    <2>2. Display(t1, <<down>>) = t2
      BY <2>1 DEF AtLeft
    <2> HIDE DEF t1, t2, down
    <2>3. QED
      BY <2>2, DisplayOne
  <1> HIDE DEF r, k
  <1>4. Apply(t2, show) = t3
    BY ApplyVisibility
  <1> HIDE DEF down, show, t0, t1, t2, t3
  <1>5. IsString(z) /\ Display(t1, z) = t3
    <2>1. Display(t1, <<down, show>>) = Apply(Apply(t1, down), show)
      BY DisplayTwo
    <2>2. IsString(<<down, show>>)
      BY ShortStrings
    <2>3. QED
      BY <1>3, <1>4, <2>1, <2>2
  <1> HIDE DEF z
  <1>6. Display(t0, x \o z) = t3
    BY <1>2, <1>5, DisplayJoined
  <1>7. QED
    BY <1>1, <1>6 DEF t0, t3, f, r, k
-----------------------------------------------------------------------------
(* The lines of all benchmarks *)

\* Above line l are those of the benchmarks that are over, as far as they are
\* still in the window,
Over(g, l, w, over) ==
    \A b \in 1 .. over :
        \A k \in Nat :
            k = l - over + b - 1 =>
                LineHas(g, k, w, ProgressCells(MainOrder[b], n - 1))

\* ... and below it is nothing.
BlankBelow(g, h, w, l) ==
    \A k \in 0 .. h - 1 : k > l => LineHas(g, k, w, <<>>)

\* They are left alone by what is written in line l.
LEMMA OthersStay ==
  ASSUME NEW h, NEW w, NEW l, NEW c, NEW g, NEW m, HasRoom(g, h, w, l, c, m),
         NEW x, NEW f, NEW over \in Nat,
         Over(g, l, w, over), BlankBelow(g, h, w, l)
  PROVE  /\ Over(Overwritten(g, l, c, x, f), l, w, over)
         /\ BlankBelow(Overwritten(g, l, c, x, f), h, w, l)
  <1> DEFINE u == Overwritten(g, l, c, x, f)
  <1>1. h \in Nat /\ l \in 0 .. h - 1
    BY DEF HasRoom
  <1>2. \A k \in 0 .. h - 1 : \A cells :
          k # l /\ LineHas(g, k, w, cells) => LineHas(u, k, w, cells)
    BY OtherLineStays
  <1> HIDE DEF u
  <1>3. ASSUME NEW b \in 1 .. over, NEW k \in Nat, k = l - over + b - 1
        PROVE  LineHas(u, k, w, ProgressCells(MainOrder[b], n - 1))
    <2> DEFINE cells == ProgressCells(MainOrder[b], n - 1)
    <2>1. LineHas(g, k, w, cells)
      BY <1>3 DEF Over
    <2>2. k \in 0 .. h - 1 /\ k # l
      BY <1>1, <1>3
    <2> HIDE DEF cells
    <2>3. LineHas(u, k, w, cells)
      BY <1>2, <2>1, <2>2
    <2>4. QED
      BY <2>3 DEF cells
  <1>4. BlankBelow(u, h, w, l)
    BY <1>1, <1>2 DEF BlankBelow
  <1>5. QED
    BY <1>3, <1>4 DEF Over, u

\* A window that shows them, the first in line from, the cursor in line l.
RowsAre(h, w, g, l, from, over) ==
    /\ <<h, w>> \in Windows
    /\ from \in 0 .. h - 1
    /\ over \in Nat
    /\ g = [p \in Window(h, w) |-> g[p]]
    /\ l = AtMost(from + over, h - 1)
    /\ Over(g, l, w, over)
    /\ BlankBelow(g, h, w, l)

\* The end of line l makes it one of them.
LEMMA OneMoreOver ==
  ASSUME NEW h, NEW w, NEW g, NEW l, NEW from, NEW over,
         RowsAre(h, w, g, l, from, over),
         NEW x, x = MainOrder[over + 1], NEW s, s = n - 1,
         LineHas(g, l, w, ProgressCells(x, s)),
         NEW u, u = MovedUp(g, l, h), NEW e, e = NextLine(l, h),
         NEW more, more = over + 1
  PROVE  RowsAre(h, w, u, e, from, more) /\ LineHas(u, e, w, <<>>)
  <1>0. /\ h \in Nat \ {0} /\ w \in Nat /\ over \in Nat /\ from \in 0 .. h - 1
        /\ g = [p \in Window(h, w) |-> g[p]] /\ l \in 0 .. h - 1
        /\ l = AtMost(from + over, h - 1)
        /\ Over(g, l, w, over) /\ BlankBelow(g, h, w, l)
    <2>1. h \in Nat \ {0} /\ w \in Nat
      BY ConsolesAssumption DEF RowsAre
    <2>2. over \in Nat /\ from \in 0 .. h - 1 /\ l = AtMost(from + over, h - 1)
      BY DEF RowsAre
    <2>3. l \in 0 .. h - 1
      BY <2>1, <2>2 DEF AtMost
    <2>4. QED
      BY <2>1, <2>2, <2>3 DEF RowsAre
  <1>1. e \in 0 .. h - 1 /\ (l < h - 1 => e = l + 1) /\ (l = h - 1 => e = l)
    BY <1>0 DEF NextLine, AtMost
  <1>2. \A k, d \in 0 .. h - 1 : \A cells :
          d = (IF l < h - 1 THEN k ELSE k - 1) /\ LineHas(g, k, w, cells)
            => LineHas(u, d, w, cells)
    BY <1>0, LinesMoveUp
  <1>3. ASSUME NEW b \in 1 .. more, NEW d \in Nat, d = e - more + b - 1
        PROVE  LineHas(u, d, w, ProgressCells(MainOrder[b], n - 1))
    <2> DEFINE cells == ProgressCells(MainOrder[b], n - 1)
    <2>0. PICK k : k = l - over + b - 1
      OBVIOUS
    <2>1. k \in 0 .. h - 1 /\ d \in 0 .. h - 1
          /\ d = (IF l < h - 1 THEN k ELSE k - 1)
      BY <1>0, <1>1, <1>3, <2>0
    <2>2. LineHas(g, k, w, cells)
      <3>1. CASE b \in 1 .. over
        <4>1. k \in Nat
          BY <1>0, <2>1
        <4>2. QED
          BY <1>0, <2>0, <3>1, <4>1 DEF Over
      <3>2. CASE b = over + 1
        <4>1. k = l
          BY <1>0, <2>0, <3>2
        <4>2. QED
          BY <3>2, <4>1
      <3>3. QED
        BY <1>0, <3>1, <3>2
    <2> HIDE DEF cells
    <2>3. LineHas(u, d, w, cells)
      BY <1>2, <2>1, <2>2
    <2>4. QED
      BY <2>3 DEF cells
  <1>4. ASSUME NEW d \in 0 .. h - 1, d > e
        PROVE  LineHas(u, d, w, <<>>)
    <2>1. l < h - 1 /\ d > l
      BY <1>0, <1>1, <1>4
    <2>2. LineHas(g, d, w, <<>>)
      BY <1>0, <2>1 DEF BlankBelow
    <2>3. u = g
      BY <2>1 DEF MovedUp
    <2>4. QED
      BY <2>2, <2>3
  <1>5. LineHas(u, e, w, <<>>)
    <2>1. CASE l < h - 1
      <3>1. u = g /\ e > l
        BY <1>0, <1>1, <2>1 DEF MovedUp
      <3>2. QED
        BY <1>0, <1>1, <3>1 DEF BlankBelow
    <2>2. CASE l = h - 1
      BY <1>0, <1>1, <2>2, LastLineIsBlank
    <2>3. QED
      BY <1>0, <2>1, <2>2
  <1>6. u = [p \in Window(h, w) |-> u[p]]
    <2>1. g = [p \in Window(h, w) |-> g[p]]
      BY <1>0
    <2>2. CASE l < h - 1
      BY <2>1, <2>2 DEF MovedUp
    <2>3. CASE ~(l < h - 1)
      <3>1. u = Scrolled(g, h) /\ DOMAIN g = Window(h, w)
        BY <2>1, <2>3 DEF MovedUp
      <3>2. QED
        BY <3>1 DEF Scrolled
    <2>4. QED
      BY <2>2, <2>3
  <1>7. e = AtMost(from + more, h - 1) /\ more \in Nat
    BY <1>0 DEF NextLine, AtMost
  <1>8. Over(u, e, w, more) /\ BlankBelow(u, h, w, e)
    BY <1>3, <1>4 DEF Over, BlankBelow
  <1>9. <<h, w>> \in Windows
    BY DEF RowsAre
  <1>10. QED
    BY <1>0, <1>5, <1>6, <1>7, <1>8, <1>9 DEF RowsAre

\* What the line of the benchmark b shows while its reporter lives; r is the
\* progress last reported.
Current(g, l, w, b, r) ==
    /\ r \in -1 .. n - 1
    /\ r = -1 => LineHas(g, l, w, DescriptionCells(b))
    /\ r # -1 => LineHas(g, l, w, ProgressCells(b, r))

\* Its description is there, and no more than the percentage of r.
LEMMA CurrentParts ==
  ASSUME NEW g, NEW l, NEW w \in Nat, NEW b, DescriptionSize[b] \in Nat,
         NEW r, Current(g, l, w, b, r), NEW s \in 0 .. n - 1, r <= s
  PROVE  /\ Percent(s) \in Int
         /\ DescriptionIsThere(g, l, w, b)
         /\ \E m \in Nat : /\ m <= Len(PercentText(Percent(s)))
                           /\ NoMoreThan(g, l, w, b, m)
  <1>1. Percent(s) \in Int
    BY PercentGrows
  <1>2. r \in -1 .. n - 1
    BY DEF Current
  <1>3. CASE r = -1
    <2>1. DescriptionIsThere(g, l, w, b) /\ NoMoreThan(g, l, w, b, 0)
      BY <1>3, DescriptionLine DEF Current
    <2>2. 0 <= Len(PercentText(Percent(s)))
      <3>1. Len(PercentText(Percent(s))) \in 2 .. 4
        BY <1>1, PercentTextGrows
      <3>2. \A N \in 2 .. 4 : 0 <= N
        OBVIOUS
      <3>3. QED
        BY <3>1, <3>2
    <2>3. QED
      BY <1>1, <2>1, <2>2
  <1>4. CASE r # -1
    <2> DEFINE x == PercentText(Percent(r))
               m == Len(x)
    <2>1. r \in 0 .. n - 1
      BY <1>2, <1>4
    <2>2. Percent(r) \in Int /\ Percent(r) <= Percent(s)
      BY <2>1, PercentGrows
    <2>3. m \in 2 .. 4 /\ m <= Len(PercentText(Percent(s)))
      BY <1>1, <2>2, PercentTextGrows
    <2>4. LineHas(g, l, w, ProgressCells(b, r))
      BY <1>4 DEF Current
    <2>5. DescriptionIsThere(g, l, w, b) /\ NoMoreThan(g, l, w, b, m)
      BY <2>2, <2>4, ProgressLine
    <2> HIDE DEF m
    <2>6. m \in Nat
      BY <2>3
    <2>7. QED
      BY <1>1, <2>3, <2>5, <2>6
  <1>5. QED
    BY <1>3, <1>4
-----------------------------------------------------------------------------
(* The console of main() *)

\* Every window has room for a description and the last percentage.
WideEnough ==
    \A size \in Windows, b \in Range(MainOrder) :
        DescriptionSize[b] + 6 <= size[2]

\* The line after those of the benchmarks that are over.
LineAfter(t, from, over) == AtMost(from + over, t.lines - 1)

\* A console t with the lines of the benchmarks that are over, the cursor in
\* the line after them.
Rows(t, from, over) ==
    /\ <<t.lines, t.columns>> \in Windows
    /\ from \in 0 .. t.lines - 1
    /\ over \in Nat
    /\ t.shown = [p \in Window(t.lines, t.columns) |-> t.shown[p]]
    /\ t = Showing(t.lines, t.columns, t.shown, LineAfter(t, from, over),
                   t.column, DefaultFormat, t.visible)
    /\ Over(t.shown, LineAfter(t, from, over), t.columns, over)
    /\ BlankBelow(t.shown, t.lines, t.columns, LineAfter(t, from, over))

\* Nothing in that line, before a reporter is constructed,
Waiting(t, from, over) ==
    /\ Rows(t, from, over)
    /\ t.visible = TRUE
    /\ t.column = 0
    /\ LineHas(t.shown, LineAfter(t, from, over), t.columns, <<>>)

\* ... and what that of benchmark b has reported in it.
Running(t, from, over, b, r) ==
    /\ Rows(t, from, over)
    /\ t.visible = FALSE
    /\ Current(t.shown, LineAfter(t, from, over), t.columns, b, r)

\* The sizes in it.
LEMMA RowsParts ==
  ASSUME NEW t, NEW from, NEW over, Rows(t, from, over)
  PROVE  /\ t.lines \in Nat \ {0} /\ t.columns \in Nat \ {0}
         /\ LineAfter(t, from, over) \in 0 .. t.lines - 1
         /\ from \in Nat /\ over \in Nat
  <1>1. t.lines \in Nat \ {0} /\ t.columns \in Nat \ {0}
    BY ConsolesAssumption DEF Rows
  <1>2. from \in 0 .. t.lines - 1 /\ over \in Nat
    BY DEF Rows
  <1>3. QED
    BY <1>1, <1>2 DEF LineAfter, AtMost

\* Such a console by its parts.
LEMMA RowsOf ==
  ASSUME NEW t, NEW h, NEW w, NEW g, NEW l, NEW c, NEW v,
         t = Showing(h, w, g, l, c, DefaultFormat, v),
         NEW from, NEW over, RowsAre(h, w, g, l, from, over)
  PROVE  /\ Rows(t, from, over)
         /\ LineAfter(t, from, over) = l
         /\ t.shown = g /\ t.columns = w /\ t.column = c /\ t.visible = v
  <1>1. /\ t.lines = h /\ t.columns = w /\ t.shown = g /\ t.column = c
        /\ t.visible = v
    BY DEF Showing
  <1>2. LineAfter(t, from, over) = l
    BY <1>1 DEF LineAfter, RowsAre
  <1>3. QED
    BY <1>1, <1>2 DEF Rows, RowsAre

\* There is room for a description and for every percentage.
LEMMA RoomForBoth ==
  ASSUME WideEnough, NEW t, NEW from, NEW over, Rows(t, from, over),
         NEW b \in Range(MainOrder), NEW h, h = t.lines, NEW w, w = t.columns,
         NEW g, g = t.shown, NEW l, l = LineAfter(t, from, over)
  PROVE  /\ DescriptionSize[b] \in Nat
         /\ HasRoom(g, h, w, l, 0, Len(DescriptionText(b)))
         /\ \A d, s : d = DescriptionSize[b] + 2 /\ Percent(s) \in Int =>
              HasRoom(g, h, w, l, d, Len(PercentText(Percent(s))))
  <1> DEFINE D == DescriptionSize[b]
  <1>1. D \in Nat
    BY DescriptionsAssumption
  <1>2. h \in Nat /\ w \in Nat /\ l \in 0 .. h - 1
        /\ g = [p \in Window(h, w) |-> g[p]]
    BY RowsParts DEF Rows
  <1>3. D + 6 <= w
    <2>1. <<h, w>> \in Windows /\ <<h, w>>[2] = w
      BY DEF Rows
    <2>2. QED
      BY <2>1 DEF WideEnough
  <1> DEFINE N == Len(DescriptionText(b))
  <1>4. N = D + 1
    BY <1>1, DescriptionString
  <1>5. HasRoom(g, h, w, l, 0, N)
    <2> HIDE DEF D, N
    <2>1. N \in Nat /\ 0 + N <= w /\ 0 \in Nat
      BY <1>1, <1>2, <1>3, <1>4
    <2>2. QED
      BY <1>2, <2>1 DEF HasRoom
  <1>6. ASSUME NEW d, NEW s, d = D + 2, Percent(s) \in Int
        PROVE  HasRoom(g, h, w, l, d, Len(PercentText(Percent(s))))
    <2> DEFINE m == Len(PercentText(Percent(s)))
    <2>1. m \in 2 .. 4 /\ d = D + 2
      BY <1>6, PercentTextGrows
    <2> HIDE DEF m, D
    <2>2. m \in Nat /\ d \in Nat /\ d + m <= w
      BY <1>1, <1>2, <1>3, <2>1
    <2>3. HasRoom(g, h, w, l, d, m)
      BY <1>2, <2>2 DEF HasRoom
    <2>4. QED
      BY <2>3 DEF m
  <1>7. QED
    BY <1>1, <1>5, <1>6

\* A reporter is constructed.
LEMMA Constructed ==
  ASSUME WideEnough, NEW t, NEW from, NEW over, Waiting(t, from, over),
         NEW b \in Range(MainOrder), b = benchmark
  PROVE  Running(Display(t, progress_reporter), from, over, b, -1)
  <1> DEFINE h == t.lines
             w == t.columns
             g == t.shown
             l == LineAfter(t, from, over)
             after == Display(t, progress_reporter)
  <1>0. PICK o, e, no : AtLeft(o) /\ e = DescriptionSize[b] + 1 /\ Hidden(no)
    BY DEF AtLeft, Hidden
  <1> DEFINE x == DescriptionText(b)
             u == Overwritten(g, l, o, x, DefaultFormat)
  <1>1. Rows(t, from, over) /\ t.column = o /\ LineHas(g, l, w, <<>>)
    BY <1>0 DEF Waiting, AtLeft
  <1>2. DescriptionSize[b] \in Nat /\ HasRoom(g, h, w, l, o, Len(x))
    BY <1>0, <1>1, RoomForBoth DEF AtLeft
  <1>3. after = Showing(h, w, u, l, e, DefaultFormat, no)
    <2>1. t = Showing(h, w, g, l, o, DefaultFormat, t.visible)
      BY <1>1 DEF Rows
    <2> DEFINE v == t.visible
    <2> HIDE DEF h, w, g, l, v
    <2>2. Display(Showing(h, w, g, l, o, DefaultFormat, v), progress_reporter)
            = Showing(h, w,
                      Overwritten(g, l, o, DescriptionText(b), DefaultFormat),
                      l, e, DefaultFormat, no)
      BY <1>0, <1>2, ConstructorShown
    <2>3. QED
      BY <2>1, <2>2 DEF v
  <1>4. LineHas(u, l, w, DescriptionCells(b))
    BY <1>0, <1>1, <1>2, DescriptionWritten DEF AtLeft
  <1>5. Over(u, l, w, over) /\ BlankBelow(u, h, w, l)
    BY <1>1, <1>2, OthersStay DEF Rows
  <1>6. u = [p \in Window(h, w) |-> u[p]]
    BY <1>2, OverwrittenWindow
  <1>7. <<h, w>> \in Windows /\ from \in 0 .. h - 1 /\ over \in Nat
        /\ l = AtMost(from + over, h - 1)
    BY <1>1 DEF Rows, LineAfter
  <1> HIDE DEF h, w, g, l, u, after
  <1>8. RowsAre(h, w, u, l, from, over)
    BY <1>5, <1>6, <1>7 DEF RowsAre
  <1>9. /\ Rows(after, from, over)
        /\ LineAfter(after, from, over) = l
        /\ after.shown = u /\ after.columns = w /\ after.visible = no
    BY <1>3, <1>8, RowsOf
  <1>10. Current(u, l, w, b, -1)
    BY <1>4, SamplesAssumption DEF Current
  <1>11. Running(after, from, over, b, -1)
    BY <1>0, <1>9, <1>10 DEF Running, Hidden
  <1>12. QED
    BY <1>11 DEF after

\* The parts of a console that shows a percentage, after a new one.
LEMMA PercentOnConsole ==
  ASSUME WideEnough, NEW t, NEW from, NEW over, NEW b \in Range(MainOrder),
         b = benchmark, NEW r, Running(t, from, over, b, r),
         NEW s \in 0 .. n - 1, r <= s,
         NEW h, h = t.lines, NEW w, w = t.columns, NEW g, g = t.shown,
         NEW l, l = LineAfter(t, from, over),
         NEW d, d = DescriptionSize[b] + 2,
         NEW u,
         u = Overwritten(g, l, d, PercentText(Percent(s)), Colored(s))
  PROVE  /\ DescriptionSize[b] \in Nat /\ Percent(s) \in Int
         /\ HasRoom(g, h, w, l, d, Len(PercentText(Percent(s))))
         /\ LineHas(u, l, w, ProgressCells(b, s))
         /\ Over(u, l, w, over) /\ BlankBelow(u, h, w, l)
         /\ u = [p \in Window(h, w) |-> u[p]]
  <1>1. Rows(t, from, over) /\ Current(g, l, w, b, r)
    BY DEF Running
  <1>2. h \in Nat \ {0} /\ w \in Nat /\ over \in Nat
    BY <1>1, RowsParts
  <1>3. DescriptionSize[b] \in Nat
    BY DescriptionsAssumption
  <1>4. /\ Percent(s) \in Int
        /\ DescriptionIsThere(g, l, w, b)
        /\ \E m \in Nat : /\ m <= Len(PercentText(Percent(s)))
                          /\ NoMoreThan(g, l, w, b, m)
    BY <1>1, <1>2, <1>3, CurrentParts
  <1>5. HasRoom(g, h, w, l, d, Len(PercentText(Percent(s))))
    BY <1>1, <1>4, RoomForBoth
  <1>6. LineHas(u, l, w, ProgressCells(b, s))
    BY <1>3, <1>4, <1>5, PercentWritten
  <1>7. Over(g, l, w, over) /\ BlankBelow(g, h, w, l)
    BY <1>1 DEF Rows
  <1>8. Over(u, l, w, over) /\ BlankBelow(u, h, w, l)
    BY <1>2, <1>5, <1>7, OthersStay
  <1>9. u = [p \in Window(h, w) |-> u[p]]
    BY <1>5, OverwrittenWindow
  <1>10. QED
    BY <1>3, <1>4, <1>5, <1>6, <1>8, <1>9

\* A progress that is not smaller than the last is reported.
LEMMA Reported ==
  ASSUME WideEnough, NEW t, NEW from, NEW over, NEW b \in Range(MainOrder),
         b = benchmark, NEW r, Running(t, from, over, b, r),
         NEW s \in 0 .. n - 1, r <= s
  PROVE  Running(Display(t, Shown(s)), from, over, b, s)
  <1> DEFINE h == t.lines
             w == t.columns
             g == t.shown
             l == LineAfter(t, from, over)
             after == Display(t, Shown(s))
  <1>0. PICK d : d = DescriptionSize[b] + 2
    OBVIOUS
  <1> DEFINE u == Overwritten(g, l, d, PercentText(Percent(s)), Colored(s))
  <1>1. PICK e, no : e = d + Len(PercentText(Percent(s))) /\ Hidden(no)
    BY DEF Hidden
  <1>2. Rows(t, from, over) /\ t.visible = no
    BY <1>1 DEF Running, Hidden
  <1>3. /\ DescriptionSize[b] \in Nat /\ Percent(s) \in Int
        /\ HasRoom(g, h, w, l, d, Len(PercentText(Percent(s))))
        /\ LineHas(u, l, w, ProgressCells(b, s))
        /\ Over(u, l, w, over) /\ BlankBelow(u, h, w, l)
        /\ u = [p \in Window(h, w) |-> u[p]]
    BY <1>0, PercentOnConsole
  <1>4. after = Showing(h, w, u, l, e, DefaultFormat, no)
    <2> DEFINE k == t.column
    <2>1. t = Showing(h, w, g, l, k, DefaultFormat, no)
      BY <1>2 DEF Rows
    <2> HIDE DEF h, w, g, l, k
    <2>2. Display(Showing(h, w, g, l, k, DefaultFormat, no), Shown(s))
            = Showing(h, w, u, l, e, DefaultFormat, no)
      BY <1>0, <1>1, <1>3, PercentShown
    <2>3. QED
      BY <2>1, <2>2
  <1>5. <<h, w>> \in Windows /\ from \in 0 .. h - 1 /\ over \in Nat
        /\ l = AtMost(from + over, h - 1)
    BY <1>2 DEF Rows, LineAfter
  <1> HIDE DEF h, w, g, l, u, after
  <1>6. RowsAre(h, w, u, l, from, over)
    BY <1>3, <1>5 DEF RowsAre
  <1>7. /\ Rows(after, from, over)
        /\ LineAfter(after, from, over) = l
        /\ after.shown = u /\ after.columns = w /\ after.visible = no
    BY <1>4, <1>6, RowsOf
  <1>8. Current(u, l, w, b, s)
    BY <1>3, SamplesAssumption DEF Current
  <1>9. Running(after, from, over, b, s)
    BY <1>1, <1>7, <1>8 DEF Running, Hidden
  <1>10. QED
    BY <1>9 DEF after

\* A reporter is destructed.
LEMMA Destructed ==
  ASSUME WideEnough, NEW t, NEW from, NEW over, NEW b \in Range(MainOrder),
         b = benchmark, NEW r, Running(t, from, over, b, r),
         b = MainOrder[over + 1], NEW more, more = over + 1
  PROVE  Waiting(Display(t, progress_reporter_destructor), from, more)
  <1> DEFINE h == t.lines
             w == t.columns
             g == t.shown
             l == LineAfter(t, from, over)
             k == NextLine(l, h)
             after == Display(t, progress_reporter_destructor)
  <1>0. PICK d, o, no, yes :
          /\ d = DescriptionSize[b] + 2
          /\ AtLeft(o) /\ Hidden(no) /\ Visible(yes)
    BY DEF AtLeft, Hidden, Visible
  <1>1. PICK s : s = n - 1
    OBVIOUS
  <1> DEFINE u == Overwritten(g, l, d, PercentText(Percent(s)), Colored(s))
             z == MovedUp(u, l, h)
  <1>2. Rows(t, from, over) /\ t.visible = no /\ Current(g, l, w, b, r)
    BY <1>0 DEF Running, Hidden
  <1>3. s \in 0 .. n - 1 /\ r <= s
    BY <1>1, <1>2, SamplesAssumption DEF Current
  <1>4. /\ DescriptionSize[b] \in Nat /\ Percent(s) \in Int
        /\ HasRoom(g, h, w, l, d, Len(PercentText(Percent(s))))
        /\ LineHas(u, l, w, ProgressCells(b, s))
        /\ Over(u, l, w, over) /\ BlankBelow(u, h, w, l)
        /\ u = [p \in Window(h, w) |-> u[p]]
    BY <1>0, <1>3, PercentOnConsole
  <1>5. h \in Nat \ {0} /\ w \in Nat /\ l \in 0 .. h - 1
        /\ from \in Nat /\ over \in Nat
    BY <1>2, RowsParts
  <1>6. after = Showing(h, w, z, k, o, DefaultFormat, yes)
    <2> DEFINE c == t.column
    <2>1. t = Showing(h, w, g, l, c, DefaultFormat, no)
      BY <1>2 DEF Rows
    <2>2. PICK v : v = u
      OBVIOUS
    <2> HIDE DEF h, w, g, l, c
    <2>3. Display(Showing(h, w, g, l, c, DefaultFormat, no),
                  progress_reporter_destructor)
            = Showing(h, w, MovedUp(v, l, h), NextLine(l, h), o,
                      DefaultFormat, yes)
      BY <1>0, <1>1, <1>4, <2>2, DestructorShown
    <2>4. QED
      BY <2>1, <2>2, <2>3
  <1>7. <<h, w>> \in Windows /\ from \in 0 .. h - 1
        /\ l = AtMost(from + over, h - 1)
    BY <1>2 DEF Rows, LineAfter
  <1>8. RowsAre(h, w, u, l, from, over)
    BY <1>4, <1>5, <1>7 DEF RowsAre
  <1> HIDE DEF h, w, g, l, u, after
  <1>9. RowsAre(h, w, z, k, from, more) /\ LineHas(z, k, w, <<>>)
    BY <1>1, <1>4, <1>8, OneMoreOver
  <1> HIDE DEF z, k
  <1>10. /\ Rows(after, from, more)
         /\ LineAfter(after, from, more) = k
         /\ after.shown = z /\ after.columns = w /\ after.column = o
         /\ after.visible = yes
    BY <1>6, <1>9, RowsOf
  <1>11. Waiting(after, from, more)
    BY <1>0, <1>9, <1>10 DEF Waiting, AtLeft, Visible
  <1>12. QED
    BY <1>11 DEF after
-----------------------------------------------------------------------------
(* Every step of main() *)

\* A progress is reported after those before it.
ReportedInv ==
    /\ at = "report" => /\ m_progress = Len(payload)
                        /\ reported \in -1 .. m_progress - 1
    /\ at = "measure" => /\ m_progress = Len(payload) + 1
                         /\ reported \in 0 .. m_progress - 1

\* What the console shows with and without a reporter.
ProgressInv ==
    /\ reporting => Running(console, start, finished, benchmark, reported)
    /\ ~reporting => Waiting(console, start, finished)

LEMMA InitReportedInv == Init => ReportedInv
  BY DEF Init, ReportedInv

LEMMA StepReportedInv == IInv /\ ReportedInv /\ [Next]_vars => ReportedInv'
  <1> SUFFICES ASSUME IInv, ReportedInv, [Next]_vars PROVE ReportedInv'
    OBVIOUS
  <1> USE DEF ReportedInv, Goes
  <1>1. CASE Construct
    BY <1>1 DEF Construct
  <1>2. CASE Report \/ ReportTooSoon
    <2>1. payload \in Seq({benchmark}) /\ at = "report"
      BY <1>2 DEF Report, ReportTooSoon, IInv, Payload
    <2> DEFINE N == Len(payload)
    <2>2. N \in Nat
      BY <2>1
    <2>3. m_progress = N /\ reported \in -1 .. m_progress - 1
      BY <2>1
    <2>4. /\ payload' = payload /\ m_progress' = m_progress + 1
          /\ at' = "measure"
          /\ \/ reported' = m_progress
             \/ reported' = reported /\ reported >= 0
      <3>1. CASE Report
        BY <3>1 DEF Report
      <3>2. CASE ReportTooSoon
        BY <3>2 DEF ReportTooSoon
      <3>3. QED
        BY <1>2, <3>1, <3>2
    <2> HIDE DEF N
    <2>5. m_progress' = N + 1 /\ reported' \in 0 .. m_progress' - 1
      BY <2>2, <2>3, <2>4
    <2>6. QED
      BY <2>4, <2>5 DEF N
  <1>3. CASE Measure
    <2>1. payload \in Seq({benchmark}) /\ at = "measure"
      BY <1>3 DEF Measure, IInv, Payload
    <2>2. payload' = Append(payload, benchmark)
          /\ UNCHANGED <<m_progress, reported>>
          /\ at' \in {"report", "emplace"}
      BY <1>3 DEF Measure
    <2>3. Len(payload') = Len(payload) + 1 /\ Len(payload) \in Nat
      BY <2>1, <2>2
    <2>4. QED
      BY <2>1, <2>2, <2>3
  <1>4. CASE Throw \/ Emplace \/ JsonWrite
    BY <1>4 DEF Throw, Emplace, JsonWrite
  <1>5. CASE Destroy
    BY <1>5 DEF Destroy
  <1>6. CASE Terminating \/ UNCHANGED vars
    BY <1>6 DEF Terminating, vars
  <1>7. QED
    BY <1>1, <1>2, <1>3, <1>4, <1>5, <1>6 DEF Next, Step

\* The benchmark that runs is one of main().
LEMMA BenchmarkIsListed ==
  ASSUME TypeInv
  PROVE  benchmark \in Range(MainOrder) /\ current \in Nat \ {0}
  <1>1. Len(MainOrder) = 9 /\ DOMAIN MainOrder = 1 .. 9
    BY DEF MainOrder
  <1>2. current \in 1 .. 9
    BY <1>1 DEF TypeInv
  <1>3. QED
    BY <1>1, <1>2 DEF benchmark, Range

\* A console without anything on it.
LEMMA InitProgressInv == ConsoleInit => ProgressInv
  <1> SUFFICES ASSUME ConsoleInit PROVE ProgressInv
    OBVIOUS
  <1>1. PICK size \in Windows :
          /\ start \in 0 .. size[1] - 1
          /\ console = Opened(size[1], size[2], Blank, start, DefaultFormat)
    BY DEF ConsoleInit
  <1> DEFINE h == size[1]
             w == size[2]
             g == [p \in Window(h, w) |-> Blank]
  <1>2. h \in Nat \ {0} /\ w \in Nat \ {0} /\ <<h, w>> \in Windows
    BY ConsolesAssumption
  <1>3. console = Showing(h, w, g, start, 0, DefaultFormat, TRUE)
    BY <1>1 DEF Opened, Showing
  <1>4. ASSUME NEW k \in 0 .. h - 1
        PROVE  LineHas(g, k, w, <<>>)
    <2>1. \A column \in 0 .. w - 1 : <<k, column>> \in Window(h, w)
      BY DEF Window
    <2>2. QED
      BY <2>1 DEF LineHas
  <1>5. /\ ~reporting /\ finished = 0
    BY DEF ConsoleInit, Init, reporting, finished
  <1>6. g = [p \in Window(h, w) |-> g[p]]
    OBVIOUS
  <1>7. start = AtMost(start + 0, h - 1)
    BY <1>1, <1>2 DEF AtMost
  <1> HIDE DEF g
  <1>8. Over(g, start, w, 0) /\ BlankBelow(g, h, w, start)
    BY <1>4 DEF Over, BlankBelow
  <1>9. RowsAre(h, w, g, start, start, 0)
    BY <1>1, <1>2, <1>6, <1>7, <1>8 DEF RowsAre
  <1>10. PICK v, o : v = TRUE /\ o = 0
    OBVIOUS
  <1>11. console = Showing(h, w, g, start, o, DefaultFormat, v)
    BY <1>3, <1>10
  <1> HIDE DEF h, w
  <1>12. PICK t : t = console
    OBVIOUS
  <1>13. /\ Rows(t, start, 0)
         /\ LineAfter(t, start, 0) = start
         /\ t.shown = g /\ t.columns = w /\ t.column = o
         /\ t.visible = v
    BY <1>9, <1>11, <1>12, RowsOf
  <1>14. LineHas(g, start, w, <<>>)
    BY <1>1, <1>4 DEF h
  <1>15. Waiting(t, start, 0)
    BY <1>10, <1>13, <1>14 DEF Waiting
  <1>16. QED
    BY <1>5, <1>12, <1>15 DEF ProgressInv

LEMMA StepProgressInv ==
  ASSUME WideEnough
  PROVE  IInv /\ ReportedInv /\ ProgressInv /\ [ConsoleNext]_consoleVars
           => ProgressInv'
  <1> SUFFICES ASSUME IInv, ReportedInv, ProgressInv,
                      [ConsoleNext]_consoleVars
               PROVE  ProgressInv'
    OBVIOUS
  <1>1. /\ benchmark \in Range(MainOrder) /\ current \in Nat \ {0}
        /\ TypeInv
    BY BenchmarkIsListed DEF IInv
  <1>2. CASE ConstructOnConsole
    <2>1. /\ ~reporting /\ finished = current - 1
          /\ reporting' /\ finished' = finished /\ benchmark' = benchmark
          /\ reported' = -1 /\ start' = start
      BY <1>2 DEF ConstructOnConsole, Construct, Goes, Send, reporting,
                  finished, benchmark
    <2>2. console' = Display(console, progress_reporter)
      BY <1>2 DEF ConstructOnConsole, Send
    <2>3. Waiting(console, start, finished)
      BY <2>1 DEF ProgressInv
    <2>4. Running(Display(console, progress_reporter), start, finished,
                  benchmark, -1)
      BY <1>1, <2>3, Constructed
    <2>5. QED
      BY <2>1, <2>2, <2>4 DEF ProgressInv
  <1>3. CASE ReportOnConsole
    <2>1. /\ at = "report"
          /\ reporting /\ reporting' /\ finished' = finished
          /\ benchmark' = benchmark
          /\ reported' = m_progress /\ start' = start
      BY <1>3 DEF ReportOnConsole, Report, Goes, Send, reporting,
                  finished, benchmark
    <2>2. console' = Display(console, Shown(m_progress))
      BY <1>3 DEF ReportOnConsole, Send
    <2>3. Running(console, start, finished, benchmark, reported)
      BY <2>1 DEF ProgressInv
    <2>4. m_progress \in 0 .. n - 1 /\ reported <= m_progress
      <3>1. payload \in Seq({benchmark}) /\ Len(payload) < n
        BY <2>1 DEF IInv, Payload
      <3> DEFINE N == Len(payload)
      <3>2. N \in Nat /\ N < n
        BY <3>1
      <3>3. m_progress = N /\ reported \in -1 .. m_progress - 1
        BY <2>1 DEF ReportedInv
      <3> HIDE DEF N
      <3>4. QED
        BY <3>2, <3>3, SamplesAssumption
    <2>5. Running(Display(console, Shown(m_progress)), start, finished,
                  benchmark, m_progress)
      BY <1>1, <2>3, <2>4, Reported
    <2>6. QED
      BY <2>1, <2>2, <2>5 DEF ProgressInv
  <1>4. CASE DestroyOnConsole
    <2>1. /\ reporting /\ finished = current - 1
          /\ start' = start /\ ~reporting'
      BY <1>4 DEF DestroyOnConsole, Destroy, Goes, Send, reporting,
                  finished
    <2>2. finished' = finished + 1
      BY <1>1, <1>4 DEF DestroyOnConsole, Destroy, Goes, finished, TypeInv
    <2>3. console' = Display(console, progress_reporter_destructor)
      BY <1>4 DEF DestroyOnConsole, Send
    <2>4. Running(console, start, finished, benchmark, reported)
      BY <2>1 DEF ProgressInv
    <2>5. benchmark = MainOrder[finished + 1]
      BY <1>1, <2>1 DEF benchmark
    <2> DEFINE more == finished + 1
    <2>6. more = finished + 1
      OBVIOUS
    <2> HIDE DEF more
    <2>7. Waiting(Display(console, progress_reporter_destructor), start, more)
      BY <1>1, <2>4, <2>5, <2>6, Destructed
    <2>8. QED
      BY <2>1, <2>2, <2>3, <2>7 DEF ProgressInv, more
  <1>5. CASE SilentStep \/ UNCHANGED consoleVars
    <2>1. /\ reporting' = reporting /\ finished' = finished
          /\ UNCHANGED <<console, start>>
          /\ reporting => benchmark' = benchmark /\ reported' = reported
      BY <1>1, <1>5
         DEF SilentStep, ReportTooSoon, Measure, Throw, Emplace, JsonWrite,
             Terminating, Goes, reporting, finished, benchmark, results,
             consoleVars, vars
    <2>2. QED
      BY <2>1 DEF ProgressInv
  <1>6. QED
    BY <1>2, <1>3, <1>4, <1>5 DEF ConsoleNext

\* main() with its reporters is main(): what they send changes none of its
\* steps.
THEOREM ProgressReporterImplementsSuite == ConsoleSpec => Spec
  <1>1. ConsoleInit => Init
    BY DEF ConsoleInit
  <1>2. [ConsoleNext]_consoleVars => [Next]_vars
    BY DEF ConsoleNext, ConstructOnConsole, ReportOnConsole, DestroyOnConsole,
           SilentStep, Next, Step, consoleVars
  <1>3. QED
    BY <1>1, <1>2, PTL DEF ConsoleSpec, Spec

\* The invariants of both hold in every state.
THEOREM ConsoleInvariance ==
  ASSUME WideEnough
  PROVE  ConsoleSpec => [](IInv /\ ReportedInv /\ ProgressInv)
  <1>1. Init => ReportedInv
    BY InitReportedInv
  <1>2. IInv /\ ReportedInv /\ [Next]_vars => ReportedInv'
    BY StepReportedInv
  <1>3. Spec => [](IInv /\ ReportedInv)
    BY <1>1, <1>2, Invariance, PTL DEF Spec
  <1>4. ConsoleInit => ProgressInv
    BY InitProgressInv
  <1>5. IInv /\ ReportedInv /\ ProgressInv /\ [ConsoleNext]_consoleVars
          => ProgressInv'
    BY StepProgressInv
  <1>6. QED
    BY <1>3, <1>4, <1>5, ProgressReporterImplementsSuite, PTL DEF ConsoleSpec

\* On every console that is wide enough, of however few lines, the line of each
\* benchmark shows its description and progress and nothing else.
THEOREM ProgressOnConsole ==
  ASSUME WideEnough
  PROVE  ConsoleSpec => []ConsoleShowsProgress
  <1>1. IInv /\ ProgressInv => ConsoleShowsProgress
    <2> SUFFICES ASSUME IInv, ProgressInv
                 PROVE  ConsoleShowsProgress
      OBVIOUS
    <2> DEFINE h == console.lines
               w == console.columns
               g == console.shown
               l == LineAfter(console, start, finished)
    <2>1. Rows(console, start, finished)
      BY DEF ProgressInv, Running, Waiting
    <2>2. /\ h \in Nat \ {0} /\ w \in Nat \ {0} /\ l \in 0 .. h - 1
          /\ start \in Nat /\ finished \in Nat
      BY <2>1, RowsParts
    <2>3. /\ console.line = l /\ console.format = DefaultFormat
          /\ Over(g, l, w, finished)
      BY <2>1 DEF Rows, Showing
    <2>4. \A b \in Int : LineOf(b) = l - finished + b - 1
      <3> DEFINE N == finished
      <3>1. l = AtMost(start + N, h - 1)
        BY DEF LineAfter
      <3>2. \A b \in Int : LineOf(b) =
                             start + b - 1 - AtLeast(start + N - (h - 1), 0)
        BY DEF LineOf
      <3> HIDE DEF N, h, l
      <3>3. QED
        BY <2>2, <3>1, <3>2 DEF AtMost, AtLeast, N
    <2>5. LineOf(finished + 1) = l
      <3> DEFINE N == finished
      <3>1. LineOf(N + 1) = l - N + (N + 1) - 1
        BY <2>2, <2>4
      <3> HIDE DEF N, l, h
      <3>2. QED
        BY <2>2, <3>1 DEF N
    <2>6. ASSUME NEW b \in 1 .. finished, LineOf(b) >= 0
          PROVE  ShowsLine(LineOf(b),
                           Looks(DescriptionText(MainOrder[b]), DefaultFormat)
                           \o PercentCells(n - 1))
      <3>1. b \in Int /\ LineOf(b) = l - finished + b - 1
        BY <2>2, <2>4
      <3>2. LineOf(b) \in Nat
        <4> HIDE DEF l, h
        <4>1. QED
          BY <2>2, <2>6, <3>1
      <3>3. LineHas(g, LineOf(b), w, ProgressCells(MainOrder[b], n - 1))
        BY <2>3, <3>1, <3>2 DEF Over
      <3>4. QED
        BY <3>3 DEF ShowsLine, LineHas, ProgressCells, DescriptionCells
    <2> DEFINE cells == IF ~reporting THEN <<>>
                        ELSE Looks(DescriptionText(benchmark), DefaultFormat)
                             \o (IF reported < 0 THEN <<>>
                                 ELSE PercentCells(reported))
    <2>7. LineHas(g, l, w, cells)
      <3>1. CASE ~reporting
        BY <3>1 DEF ProgressInv, Waiting
      <3>2. CASE reporting
        <4>1. Current(g, l, w, benchmark, reported)
          BY <3>2 DEF ProgressInv, Running
        <4>2. reported \in -1 .. n - 1
          BY <4>1 DEF Current
        <4>3. CASE reported = -1
          <5>1. cells = DescriptionCells(benchmark) \o <<>>
            BY <3>2, <4>3 DEF DescriptionCells
          <5>2. IsString(DescriptionCells(benchmark))
            <6>1. DescriptionSize[benchmark] \in Nat
              BY BenchmarkIsListed, DescriptionsAssumption DEF IInv
            <6>2. QED
              BY <6>1, DescriptionString, LooksOf DEF DescriptionCells
          <5>3. cells = DescriptionCells(benchmark)
            BY <5>1, <5>2 DEF IsString
          <5>4. QED
            BY <4>1, <4>3, <5>3 DEF Current
        <4>4. CASE reported # -1
          <5>1. ~(reported < 0)
            BY <4>2, <4>4
          <5>2. cells = ProgressCells(benchmark, reported)
            BY <3>2, <5>1 DEF ProgressCells, DescriptionCells
          <5>3. QED
            BY <4>1, <4>4, <5>2 DEF Current
        <4>5. QED
          BY <4>3, <4>4
      <3>3. QED
        BY <3>1, <3>2
    <2>8. ShowsLine(console.line, cells)
      <3> HIDE DEF cells
      <3>1. QED
        BY <2>3, <2>7 DEF ShowsLine, LineHas
    <2>9. console.visible = ~reporting
      <3>1. (reporting => console.visible = FALSE)
            /\ (~reporting => console.visible = TRUE)
        BY DEF ProgressInv, Running, Waiting
      <3>2. QED
        BY <3>1
    <2>10. QED
      BY <2>3, <2>5, <2>6, <2>8, <2>9 DEF ConsoleShowsProgress
  <1>2. QED
    BY <1>1, ConsoleInvariance, PTL
-----------------------------------------------------------------------------
(* Statistics: counts and order *)

\* Finitely many numbers.
IsFamily(f) ==
    /\ IsFiniteSet(DOMAIN f)
    /\ \A k \in DOMAIN f : f[k] \in Int

\* The counts of a family of numbers.
LEMMA Counts ==
  ASSUME NEW f, IsFamily(f), NEW x \in Int
  PROVE  /\ Below(f, x) \in Nat /\ UpTo(f, x) \in Nat
         /\ Cardinality(DOMAIN f) \in Nat
         /\ Below(f, x) <= UpTo(f, x)
         /\ UpTo(f, x) <= Cardinality(DOMAIN f)
         /\ x \in Range(f) => Below(f, x) < UpTo(f, x)
  <1> DEFINE B == {k \in DOMAIN f : f[k] < x}
             U == {k \in DOMAIN f : f[k] <= x}
  <1>1. IsFiniteSet(B) /\ IsFiniteSet(U)
        /\ Cardinality(U) <= Cardinality(DOMAIN f)
    BY FS_Subset DEF IsFamily
  <1>2. B \in SUBSET U
    BY DEF IsFamily
  <1>3. /\ Cardinality(B) <= Cardinality(U)
        /\ Cardinality(B) = Cardinality(U) => B = U
    <2> HIDE DEF B, U
    <2>1. QED
      BY <1>1, <1>2, FS_Subset
  <1>4. x \in Range(f) => B # U
    <2> SUFFICES ASSUME NEW k \in DOMAIN f, x = f[k] PROVE B # U
      BY DEF Range
    <2>1. k \in U /\ k \notin B
      BY DEF IsFamily
    <2>2. QED
      BY <2>1
  <1>5. /\ Cardinality(B) \in Nat /\ Cardinality(U) \in Nat
        /\ Cardinality(DOMAIN f) \in Nat
    BY <1>1, FS_CardinalityType DEF IsFamily
  <1>6. Below(f, x) = Cardinality(B) /\ UpTo(f, x) = Cardinality(U)
    BY DEF Below, UpTo
  <1> HIDE DEF B, U
  <1>7. QED
    BY <1>1, <1>3, <1>4, <1>5, <1>6

\* More values are below a greater number.
LEMMA CountsGrow ==
  ASSUME NEW f, IsFamily(f), NEW x \in Int, NEW y \in Int
  PROVE  /\ x < y => UpTo(f, x) <= Below(f, y)
         /\ x <= y => UpTo(f, x) <= UpTo(f, y) /\ Below(f, x) <= Below(f, y)
  <1> DEFINE B(z) == {k \in DOMAIN f : f[k] < z}
             U(z) == {k \in DOMAIN f : f[k] <= z}
  <1>1. /\ IsFiniteSet(B(x)) /\ IsFiniteSet(B(y))
        /\ IsFiniteSet(U(x)) /\ IsFiniteSet(U(y))
    BY FS_Subset DEF IsFamily
  <1>2. x < y => U(x) \in SUBSET B(y)
    BY DEF IsFamily
  <1>3. x <= y => U(x) \in SUBSET U(y) /\ B(x) \in SUBSET B(y)
    BY DEF IsFamily
  <1>4. \A z : Below(f, z) = Cardinality(B(z)) /\ UpTo(f, z) = Cardinality(U(z))
    BY DEF Below, UpTo
  <1> HIDE DEF B, U
  <1>5. x < y => Cardinality(U(x)) <= Cardinality(B(y))
    BY <1>1, <1>2, FS_Subset
  <1>6. x <= y => /\ Cardinality(U(x)) <= Cardinality(U(y))
                  /\ Cardinality(B(x)) <= Cardinality(B(y))
    BY <1>1, <1>3, FS_Subset
  <1>7. QED
    BY <1>4, <1>5, <1>6

\* Some value is the greatest.
LEMMA Greatest ==
  ASSUME NEW f, IsFamily(f), DOMAIN f # {}
  PROVE  \E x \in Range(f) : \A k \in DOMAIN f : f[k] <= x
  <1> DEFINE N == Cardinality(DOMAIN f)
             T == {N - UpTo(f, x) : x \in Range(f)}
  <1>1. Range(f) \subseteq Int /\ \A k \in DOMAIN f : f[k] \in Range(f)
    BY DEF IsFamily, Range
  <1>2. \A x \in Range(f) : /\ UpTo(f, x) \in Nat /\ N \in Nat
                            /\ UpTo(f, x) <= N
    BY <1>1, Counts
  <1> HIDE DEF N
  <1>3. T \in SUBSET Nat /\ T # {}
    BY <1>1, <1>2
  <1>4. PICK m \in T : \A t \in T : m <= t
    <2> HIDE DEF T
    <2>1. QED
      BY <1>3, Least
  <1>5. PICK x \in Range(f) : m = N - UpTo(f, x)
    BY <1>4
  <1>6. ASSUME NEW k \in DOMAIN f
        PROVE  f[k] <= x
    <2> DEFINE y == f[k]
    <2>1. y \in Range(f) /\ y \in Int /\ x \in Int
      BY <1>1
    <2> HIDE DEF y
    <2>2. UpTo(f, y) <= UpTo(f, x)
      BY <1>2, <1>4, <1>5, <2>1
    <2>3. ~ (x < y)
      BY <2>1, <2>2, Counts, CountsGrow
    <2>4. QED
      BY <2>1, <2>3 DEF y
  <1>7. QED
    BY <1>6

\* x is the k-th of the values.
IsRanked(f, k, x) ==
    x \in Range(f) /\ Below(f, x) < k /\ k <= UpTo(f, x)

\* Of the values with at least k up to them the least is the k-th: with k
\* below it, the greatest of those would be another.
LEMMA RankedExists ==
  ASSUME NEW f, IsFamily(f), NEW k \in 1 .. Cardinality(DOMAIN f)
  PROVE  IsRanked(f, k, Ranked(f, k))
  <1> DEFINE N == Cardinality(DOMAIN f)
             C == {x \in Range(f) : k <= UpTo(f, x)}
             D == {UpTo(f, x) : x \in C}
  <1>1. N \in Nat
    BY FS_CardinalityType DEF IsFamily
  <1>2. Range(f) \subseteq Int
    BY DEF IsFamily, Range
  <1>3. \A x \in Range(f) : UpTo(f, x) \in Nat /\ UpTo(f, x) <= N
    BY <1>2, Counts
  <1>4. D \in SUBSET Nat
    BY <1>3
  <1>5. D # {}
    <2>1. DOMAIN f # {}
      BY <1>1, FS_EmptySet DEF IsFamily
    <2>2. PICK x \in Range(f) : \A m \in DOMAIN f : f[m] <= x
      BY <2>1, Greatest
    <2>3. {m \in DOMAIN f : f[m] <= x} = DOMAIN f
      BY <2>2
    <2>4. UpTo(f, x) = N
      BY <2>3 DEF UpTo
    <2>5. x \in C
      BY <1>1, <2>4
    <2>6. QED
      BY <2>5
  <1>6. PICK d \in D : \A e \in D : d <= e
    <2> HIDE DEF D
    <2>1. QED
      BY <1>4, <1>5, Least
  <1>7. PICK x \in C : d = UpTo(f, x)
    BY <1>6
  <1>8. Below(f, x) < k
    <2> SUFFICES ASSUME k <= Below(f, x)
                 PROVE  FALSE
      BY <1>2, Counts
    <2> DEFINE B == {m \in DOMAIN f : f[m] < x}
               g == [m \in B |-> f[m]]
    <2>1. IsFiniteSet(B) /\ Below(f, x) = Cardinality(B)
      BY FS_Subset DEF IsFamily, Below
    <2>2. B # {}
      BY <2>1, FS_EmptySet
    <2>3. IsFamily(g) /\ DOMAIN g # {}
      <3>1. \A m \in B : f[m] \in Int
        BY DEF IsFamily
      <3> HIDE DEF B
      <3>2. QED
        BY <2>1, <2>2, <3>1 DEF IsFamily
    <2>4. PICK y \in Range(g) : \A m \in B : g[m] <= y
      <3> HIDE DEF g
      <3>1. PICK y \in Range(g) : \A m \in DOMAIN g : g[m] <= y
        BY <2>3, Greatest
      <3>2. DOMAIN g = B
        BY DEF g
      <3>3. QED
        BY <3>1, <3>2
    <2>5. PICK b \in B : y = f[b]
      BY DEF Range
    <2>6. y \in Range(f) /\ y < x /\ y \in Int /\ x \in Int
      BY <1>2, <2>5 DEF Range
    <2>7. {m \in DOMAIN f : f[m] <= y} = B
      <3>1. \A m \in DOMAIN f : f[m] \in Int
        BY DEF IsFamily
      <3>2. \A m \in B : f[m] <= y
        BY <2>4
      <3>3. QED
        BY <2>6, <3>1, <3>2
    <2>8. UpTo(f, y) = Below(f, x)
      BY <2>1, <2>7 DEF UpTo
    <2>9. UpTo(f, y) \in D
      BY <2>6, <2>8
    <2>10. Below(f, x) < UpTo(f, x)
      BY <1>2, Counts
    <2>11. Below(f, x) \in Nat /\ UpTo(f, x) \in Nat
      BY <1>2, Counts
    <2> HIDE DEF D, B, g
    <2>12. QED
      BY <1>6, <1>7, <2>8, <2>9, <2>10, <2>11
  <1>9. IsRanked(f, k, x)
    BY <1>7, <1>8 DEF IsRanked
  <1>10. QED
    BY <1>9 DEF IsRanked, Ranked

\* There is only one.
LEMMA RankedUnique ==
  ASSUME NEW f, IsFamily(f), NEW k \in Int,
         NEW x, IsRanked(f, k, x), NEW y, IsRanked(f, k, y)
  PROVE  x = y
  <1>1. x \in Int /\ y \in Int
    BY DEF IsRanked, IsFamily, Range
  <1>2. ASSUME NEW a \in {x, y}, NEW b \in {x, y}
        PROVE  ~ (a < b)
    <2>1. /\ a \in Int /\ b \in Int /\ Below(f, b) < k /\ k <= UpTo(f, a)
      BY <1>1 DEF IsRanked
    <2>2. /\ Below(f, b) \in Nat /\ UpTo(f, a) \in Nat
          /\ a < b => UpTo(f, a) <= Below(f, b)
      BY <2>1, Counts, CountsGrow
    <2>3. QED
      BY <2>1, <2>2
  <1>3. QED
    BY <1>1, <1>2

\* The median of any numbers.
LEMMA MedianIsRanked ==
  ASSUME NEW s \in Seq(Int), s # <<>>
  PROVE  /\ get_50th_percentile(s) \in Range(s)
         /\ 2 * Cardinality({k \in DOMAIN s : s[k] < get_50th_percentile(s)})
              <= Len(s)
         /\ 2 * Cardinality({k \in DOMAIN s : s[k] > get_50th_percentile(s)})
              < Len(s)
  <1> DEFINE L == Len(s)
             h == L \div 2
             x == get_50th_percentile(s)
             U == {k \in DOMAIN s : s[k] <= x}
             A == {k \in DOMAIN s : s[k] > x}
  <1>1. L \in Nat \ {0} /\ DOMAIN s = 1 .. L
    OBVIOUS
  <1>2. IsFamily(s) /\ Cardinality(DOMAIN s) = L
    <2>1. IsFiniteSet(1 .. L) /\ Cardinality(1 .. L) = L
      BY <1>1, FS_Interval
    <2>2. QED
      BY <1>1, <2>1 DEF IsFamily
  <1> HIDE DEF L
  <1>3. h \in Nat /\ h + 1 \in 1 .. L /\ 2 * h <= L /\ L < 2 * (h + 1)
    BY <1>1
  <1> HIDE DEF h
  <1>4. x = Ranked(s, h + 1)
    BY <1>1, <1>3 DEF get_50th_percentile, Sorted, h, L
  <1>5. IsRanked(s, h + 1, x)
    BY <1>2, <1>3, <1>4, RankedExists
  <1> HIDE DEF x
  <1>6. x \in Int
    BY <1>5 DEF IsRanked, Range
  <1>7. /\ Below(s, x) \in Nat /\ Below(s, x) <= h
        /\ UpTo(s, x) \in Nat /\ h + 1 <= UpTo(s, x)
    <2>1. Below(s, x) \in Nat /\ UpTo(s, x) \in Nat
      BY <1>2, <1>6, Counts
    <2>2. Below(s, x) < h + 1 /\ h + 1 <= UpTo(s, x)
      BY <1>5 DEF IsRanked
    <2>3. QED
      BY <1>3, <2>1, <2>2
  <1>8. /\ Cardinality(A) = L - UpTo(s, x)
        /\ Cardinality(A) \in Nat
    <2>1. IsFiniteSet(U) /\ IsFiniteSet(A)
      BY <1>2, FS_Subset DEF IsFamily
    <2>2. U \cup A = DOMAIN s /\ U \cap A = {}
      <3>1. \A k \in DOMAIN s : s[k] \in Int
        OBVIOUS
      <3>2. \A k \in DOMAIN s : s[k] > x <=> ~ (s[k] <= x)
        BY <1>6, <3>1
      <3>3. QED
        BY <3>2
    <2>3. UpTo(s, x) = Cardinality(U)
      BY DEF UpTo
    <2> HIDE DEF U, A
    <2>4. /\ Cardinality(U \cup A)
               = Cardinality(U) + Cardinality(A) - Cardinality(U \cap A)
          /\ Cardinality({}) = 0
          /\ Cardinality(U) \in Nat /\ Cardinality(A) \in Nat
      BY <2>1, FS_Union, FS_EmptySet, FS_CardinalityType
    <2>5. L = Cardinality(U) + Cardinality(A) - 0
      BY <1>2, <2>2, <2>4
    <2>6. QED
      BY <1>1, <2>3, <2>4, <2>5
  <1>9. x \in Range(s)
    BY <1>5 DEF IsRanked
  <1>10. 2 * Below(s, x) <= L
    BY <1>1, <1>3, <1>7
  <1>11. 2 * Cardinality(A) < L
    BY <1>1, <1>3, <1>7, <1>8
  <1>12. QED
    BY <1>9, <1>10, <1>11 DEF Below, x, L

\* Sorted numbers: those below some number come first, those up to it next.
LEMMA SortedInOrder ==
  ASSUME NEW s \in Seq(Int), NEW x \in Int
  PROVE  /\ IsFamily(s) /\ DOMAIN Sorted(s) = 1 .. Len(s)
         /\ Cardinality(DOMAIN s) = Len(s)
         /\ Below(s, x) \in 0 .. Len(s) /\ UpTo(s, x) \in 0 .. Len(s)
         /\ Below(s, x) <= UpTo(s, x)
         /\ \A k \in 1 .. Len(s) :
              /\ Sorted(s)[k] \in Int
              /\ Sorted(s)[k] \in Range(s)
              /\ Sorted(s)[k] <= x <=> k <= UpTo(s, x)
              /\ Sorted(s)[k] < x <=> k <= Below(s, x)
  <1> DEFINE L == Len(s)
             t == Sorted(s)
  <1>1. L \in Nat /\ DOMAIN s = 1 .. L
    OBVIOUS
  <1>2. IsFamily(s) /\ Cardinality(DOMAIN s) = L
    <2>1. IsFiniteSet(1 .. L) /\ Cardinality(1 .. L) = L
      BY <1>1, FS_Interval
    <2>2. QED
      BY <1>1, <2>1 DEF IsFamily
  <1>3. DOMAIN t = 1 .. L /\ \A k \in 1 .. L : t[k] = Ranked(s, k)
    BY <1>1 DEF Sorted
  <1> HIDE DEF L, t
  <1>4. ASSUME NEW k \in 1 .. L
        PROVE  /\ t[k] \in Int /\ t[k] \in Range(s)
               /\ t[k] <= x <=> k <= UpTo(s, x)
               /\ t[k] < x <=> k <= Below(s, x)
    <2> DEFINE y == t[k]
    <2>1. IsRanked(s, k, y)
      BY <1>2, <1>3, RankedExists
    <2> HIDE DEF y
    <2>2. y \in Range(s) /\ y \in Int
      BY <2>1 DEF IsRanked, Range
    <2>3. Below(s, y) < k /\ k <= UpTo(s, y)
      BY <2>1 DEF IsRanked
    <2>4. /\ Below(s, x) \in Nat /\ UpTo(s, x) \in Nat
          /\ Below(s, y) \in Nat /\ UpTo(s, y) \in Nat
      BY <1>2, <2>2, Counts
    <2>5. /\ y < x => UpTo(s, y) <= Below(s, x)
          /\ y <= x => UpTo(s, y) <= UpTo(s, x)
          /\ x < y => UpTo(s, x) <= Below(s, y)
          /\ x <= y => Below(s, x) <= Below(s, y)
      BY <1>2, <2>2, CountsGrow
    <2>6. /\ y <= x <=> k <= UpTo(s, x)
          /\ y < x <=> k <= Below(s, x)
      BY <2>2, <2>3, <2>4, <2>5
    <2>7. QED
      BY <2>2, <2>6 DEF y
  <1>5. /\ Below(s, x) \in 0 .. L /\ UpTo(s, x) \in 0 .. L
        /\ Below(s, x) <= UpTo(s, x)
    <2>1. /\ Below(s, x) \in Nat /\ UpTo(s, x) \in Nat
          /\ Below(s, x) <= UpTo(s, x)
          /\ UpTo(s, x) <= Cardinality(DOMAIN s)
      BY <1>2, Counts
    <2>2. UpTo(s, x) <= L
      BY <1>2, <2>1
    <2>3. QED
      BY <1>1, <2>1, <2>2
  <1>6. QED
    BY <1>2, <1>3, <1>4, <1>5 DEF L, t

\* They are the same numbers.
LEMMA SortedRange ==
  ASSUME NEW s \in Seq(Int)
  PROVE  Range(Sorted(s)) = Range(s)
  <1>1. Range(s) \subseteq Int
    BY DEF Range
  <1>2. ASSUME NEW x \in Range(s)
        PROVE  x \in Range(Sorted(s))
    <2> DEFINE k == UpTo(s, x)
    <2>1. IsFamily(s) /\ DOMAIN Sorted(s) = 1 .. Len(s)
      BY SortedInOrder
    <2>2. Below(s, x) \in Nat /\ k \in Nat /\ Below(s, x) < k
      BY <1>1, <2>1, Counts
    <2>3. k \in 1 .. Len(s)
      BY <1>1, <2>2, SortedInOrder
    <2>4. /\ Sorted(s)[k] \in Int
          /\ Sorted(s)[k] <= x /\ ~ (Sorted(s)[k] < x)
      <3>1. x \in Int
        BY <1>1
      <3>2. /\ Sorted(s)[k] \in Int
            /\ Sorted(s)[k] <= x <=> k <= UpTo(s, x)
            /\ Sorted(s)[k] < x <=> k <= Below(s, x)
        BY <2>3, <3>1, SortedInOrder
      <3>3. k <= UpTo(s, x) /\ ~ (k <= Below(s, x))
        BY <2>2
      <3>4. QED
        BY <3>2, <3>3
    <2>5. Sorted(s)[k] = x
      BY <1>1, <2>4
    <2>6. QED
      BY <2>1, <2>3, <2>5 DEF Range
  <1>3. ASSUME NEW x \in Range(Sorted(s))
        PROVE  x \in Range(s)
    <2>1. PICK k \in 1 .. Len(s) : x = Sorted(s)[k]
      BY SortedInOrder DEF Range
    <2>2. 0 \in Int
      OBVIOUS
    <2>3. QED
      BY <2>1, <2>2, SortedInOrder
  <1>4. QED
    BY <1>2, <1>3
-----------------------------------------------------------------------------
(* Curves *)

\* The values without repetition, in order.
LEMMA UniqueValues ==
  ASSUME NEW s, IsFamily(s), DOMAIN s # {}, NEW t, Range(t) = Range(s),
         NEW V, V = Range(s), NEW M, M = Cardinality(V)
  PROVE  /\ M \in Nat \ {0}
         /\ Unique(t) = [k \in 1 .. M |-> Unique(t)[k]]
         /\ \A k \in 1 .. M : Unique(t)[k] \in V
         /\ \A x \in V : \E k \in 1 .. M : Unique(t)[k] = x
         /\ \A x \in V : x <= Unique(t)[M]
  <1> DEFINE v == [x \in V |-> x]
             u == Unique(t)
  <1>1. V \subseteq Int /\ V # {}
    BY DEF IsFamily, Range
  <1>2. IsFiniteSet(V)
    <2> DEFINE r == [k \in DOMAIN s |-> s[k]]
    <2>1. r \in Surjection(DOMAIN s, V)
      BY DEF Surjection, Range
    <2> HIDE DEF r
    <2>2. QED
      BY <2>1, FS_Surjection DEF IsFamily
  <1>3. IsFamily(v) /\ DOMAIN v = V /\ Range(v) = V
    BY <1>1, <1>2 DEF IsFamily, Range
  <1>4. M \in Nat \ {0}
    BY <1>1, <1>2, FS_CardinalityType, FS_EmptySet
  <1>5. u = [k \in 1 .. M |-> Ranked(v, k)]
    BY DEF Unique
  <1> HIDE DEF u, v
  <1>6. \A k \in 1 .. M : IsRanked(v, k, u[k])
    BY <1>3, <1>5, RankedExists
  <1>7. \A k \in 1 .. M : u[k] \in V
    BY <1>3, <1>6 DEF IsRanked
  <1>8. ASSUME NEW x \in V
        PROVE  \E k \in 1 .. M : u[k] = x
    <2> DEFINE k == UpTo(v, x)
    <2>1. Below(v, x) \in Nat /\ k \in Nat /\ Below(v, x) < k /\ k <= M
      BY <1>1, <1>3, Counts
    <2>2. IsRanked(v, k, x)
      BY <1>3, <2>1 DEF IsRanked
    <2>3. k \in 1 .. M /\ k \in Int
      BY <1>4, <2>1
    <2> HIDE DEF k
    <2>4. u[k] = x
      BY <1>3, <1>6, <2>2, <2>3, RankedUnique
    <2>5. QED
      BY <2>3, <2>4
  <1>9. ASSUME NEW x \in V
        PROVE  x <= u[M]
    <2> DEFINE y == u[M]
    <2>1. IsRanked(v, M, y) /\ y \in V
      BY <1>4, <1>6, <1>7
    <2> HIDE DEF y
    <2>2. x \in Int /\ y \in Int
      BY <1>1, <2>1
    <2>3. {z \in V : z <= y} = V
      <3> DEFINE W == {z \in V : z <= y}
      <3>1. W \in SUBSET V
        OBVIOUS
      <3>2. UpTo(v, y) = Cardinality(W)
        <4>1. \A z \in V : v[z] = z
          BY DEF v
        <4>2. {z \in DOMAIN v : v[z] <= y} = W
          BY <1>3, <4>1
        <4> HIDE DEF W
        <4>3. QED
          BY <4>2 DEF UpTo
      <3> HIDE DEF W
      <3>3. Cardinality(W) \in Nat /\ Cardinality(W) <= Cardinality(V)
            /\ (Cardinality(V) = Cardinality(W) => V = W)
        BY <1>2, <3>1, FS_Subset, FS_CardinalityType
      <3>4. M <= Cardinality(W)
        BY <2>1, <3>2 DEF IsRanked
      <3>5. QED
        BY <1>4, <3>3, <3>4 DEF W
    <2>4. QED
      BY <2>2, <2>3 DEF y
  <1>10. QED
    BY <1>4, <1>5, <1>7, <1>8, <1>9 DEF u

\* Where a value of s is when they are sorted.
LEMMA Occurrences ==
  ASSUME NEW s \in Seq(Int), NEW x \in Range(s),
         NEW O, O = {k \in DOMAIN Sorted(s) : Sorted(s)[k] = x}
  PROVE  /\ Below(s, x) \in Nat /\ UpTo(s, x) \in Nat
         /\ Below(s, x) < UpTo(s, x)
         /\ O = Below(s, x) + 1 .. UpTo(s, x)
  <1> DEFINE b == Below(s, x)
             e == UpTo(s, x)
             t == Sorted(s)
  <1>1. x \in Int
    BY DEF Range
  <1>2. /\ DOMAIN t = 1 .. Len(s) /\ IsFamily(s) /\ e <= Len(s)
        /\ \A k \in 1 .. Len(s) : /\ t[k] \in Int
                                  /\ t[k] <= x <=> k <= e
                                  /\ t[k] < x <=> k <= b
    <2>1. /\ DOMAIN t = 1 .. Len(s) /\ IsFamily(s)
          /\ UpTo(s, x) \in 0 .. Len(s)
      BY <1>1, SortedInOrder
    <2>2. ASSUME NEW k \in 1 .. Len(s)
          PROVE  /\ t[k] \in Int
                 /\ t[k] <= x <=> k <= e
                 /\ t[k] < x <=> k <= b
      BY <1>1, SortedInOrder
    <2>3. QED
      BY <2>1, <2>2
  <1>3. b \in Nat /\ e \in Nat /\ b < e
    BY <1>1, <1>2, Counts
  <1> HIDE DEF b, e, t
  <1>4. Len(s) \in Nat
    OBVIOUS
  <1>5. \A k \in 1 .. Len(s) : t[k] = x <=> k \in b + 1 .. e
    <2> TAKE k \in 1 .. Len(s)
    <2>1. t[k] = x <=> t[k] <= x /\ ~ (t[k] < x)
      BY <1>1, <1>2
    <2>2. QED
      BY <1>2, <1>3, <2>1
  <1>6. O = {k \in 1 .. Len(s) : t[k] = x}
    BY <1>2 DEF t
  <1>7. O = b + 1 .. e
    <2>1. b + 1 .. e \subseteq 1 .. Len(s)
      BY <1>2, <1>3, <1>4
    <2>2. QED
      BY <1>5, <1>6, <2>1
  <1>8. QED
    BY <1>3, <1>7 DEF b, e

\* The least of an interval is its first number.
LEMMA MinOfInterval ==
  ASSUME NEW a \in Int, NEW b \in Int, a <= b
  PROVE  Min(a .. b) = a
  BY DEF Min

\* A point of the curve is a value, and how many of s are at most it.
LEMMA CurveOfValues ==
  ASSUME NEW s \in Seq(Int), s # <<>>,
         NEW C, C = CdfOfUnique(Sorted(s)),
         NEW M, M = Cardinality(Range(s)), NEW u, u = Unique(Sorted(s))
  PROVE  /\ M \in Nat \ {0}
         /\ C = [k \in 1 .. M |-> [x |-> u[k], y |-> UpTo(s, u[k])]]
         /\ \A k \in 1 .. M : u[k] \in Int
         /\ \A x \in Range(s) : \E k \in 1 .. M : u[k] = x
         /\ \A x \in Range(s) : x <= u[M]
  <1> DEFINE t == Sorted(s)
             O(x) == {k \in DOMAIN t : t[k] = x}
             P(x) == Min(O(x)) + Cardinality(O(x)) - 1
  <1>1. IsFamily(s) /\ DOMAIN s # {} /\ Range(t) = Range(s)
    <2>1. 1 \in DOMAIN s
      OBVIOUS
    <2>2. DOMAIN s # {}
      BY <2>1
    <2>3. QED
      BY <2>2, SortedInOrder, SortedRange
  <1>2. /\ M \in Nat \ {0}
        /\ u = [k \in 1 .. M |-> u[k]]
        /\ \A k \in 1 .. M : u[k] \in Range(s)
        /\ \A x \in Range(s) : \E k \in 1 .. M : u[k] = x
        /\ \A x \in Range(s) : x <= u[M]
    <2>1. u = Unique(t)
      OBVIOUS
    <2> HIDE DEF t
    <2>2. QED
      BY <1>1, <2>1, UniqueValues
  <1>3. \A x \in Range(s) : P(x) = UpTo(s, x)
    <2> TAKE x \in Range(s)
    <2> DEFINE b == Below(s, x)
               e == UpTo(s, x)
    <2>1. b \in Nat /\ e \in Nat /\ b < e /\ O(x) = b + 1 .. e
      BY Occurrences
    <2> HIDE DEF b, e
    <2>2. /\ b + 1 \in Int /\ b + 1 <= e /\ e \in Int
          /\ ~ (b + 1 > e)
      BY <2>1
    <2>3. Min(b + 1 .. e) = b + 1
      BY <2>2, MinOfInterval
    <2>4. Cardinality(b + 1 .. e) = e - (b + 1) + 1
      BY <2>2, FS_Interval
    <2> HIDE DEF O
    <2>5. P(x) = b + 1 + (e - (b + 1) + 1) - 1
      BY <2>1, <2>3, <2>4
    <2>6. P(x) = e
      BY <2>1, <2>5
    <2>7. QED
      BY <2>6 DEF e
  <1>4. C = [k \in DOMAIN u |-> [x |-> u[k], y |-> P(u[k])]]
    BY DEF CdfOfUnique
  <1> HIDE DEF t, O, P
  <1>5. DOMAIN u = 1 .. M
    BY <1>2
  <1>6. C = [k \in 1 .. M |-> [x |-> u[k], y |-> UpTo(s, u[k])]]
    BY <1>2, <1>3, <1>4, <1>5
  <1>7. \A x \in Range(s) : x \in Int
    BY <1>1 DEF IsFamily, Range
  <1>8. QED
    BY <1>2, <1>6, <1>7

\* r is c, L long, with e before its last element.
IsInserted(r, c, L, e) ==
    /\ Len(r) = L + 1
    /\ \A k \in 1 .. L - 1 : r[k] = c[k]
    /\ r[L] = e /\ r[L + 1] = c[L]

\* A point before the last one.
LEMMA Inserted ==
  ASSUME NEW S, NEW c \in Seq(S), NEW L \in Nat \ {0}, Len(c) = L, NEW e \in S,
         NEW r, r = InsertAt(c, L, e)
  PROVE  r \in Seq(S) /\ IsInserted(r, c, L, e)
  <1> DEFINE a == SubSeq(c, 1, L - 1)
             b == SubSeq(c, L, L)
  <1>1. r = a \o <<e>> \o b
    BY DEF InsertAt
  <1>2. /\ a \in Seq(S) /\ Len(a) = L - 1
        /\ \A k \in 1 .. L - 1 : a[k] = c[k]
    OBVIOUS
  <1>3. b \in Seq(S) /\ Len(b) = 1 /\ b[1] = c[L]
    OBVIOUS
  <1> HIDE DEF a, b
  <1> DEFINE d == a \o <<e>>
  <1>4. /\ d \in Seq(S) /\ Len(d) = L /\ d[L] = e
        /\ \A k \in 1 .. L - 1 : d[k] = a[k]
    BY <1>2
  <1>5. r = d \o b
    BY <1>1
  <1> HIDE DEF d
  <1>6. /\ r \in Seq(S) /\ Len(r) = L + 1
        /\ \A k \in 1 .. L : r[k] = d[k]
        /\ r[L + 1] = b[1]
    <2>1. /\ r \in Seq(S) /\ IsString(d) /\ IsString(b)
      BY <1>3, <1>4, <1>5 DEF IsString
    <2>2. Len(r) = Len(d) + Len(b) /\ HasBoth(r, d, b)
      BY <1>5, <2>1, JoinedLength, JoinedElements
    <2>3. QED
      BY <1>3, <1>4, <2>1, <2>2 DEF HasBoth
  <1>7. \A k \in 1 .. L - 1 : r[k] = c[k]
    <2> TAKE k \in 1 .. L - 1
    <2>1. k \in 1 .. L
      OBVIOUS
    <2>2. QED
      BY <1>2, <1>4, <1>6, <2>1
  <1>8. r[L] = e
    <2>1. L \in 1 .. L
      OBVIOUS
    <2>2. QED
      BY <1>4, <1>6, <2>1
  <1>9. QED
    BY <1>3, <1>6, <1>7, <1>8 DEF IsInserted

\* All points of a curve but the origin.
LEMMA CurveIsWhole ==
  ASSUME NEW s \in Seq(Int), s # <<>>, NEW m \in Int,
         NEW P, P = Range(Tail(get_cdf(Sorted(s), m)))
  PROVE  /\ \A p \in P : p.y = UpTo(s, p.x)
         /\ \A x \in Range(s) : \E p \in P : p.x = x
  <1> DEFINE t == Sorted(s)
             u == Unique(t)
             C == CdfOfUnique(t)
             M == Cardinality(Range(s))
             o == [x |-> 0, y |-> 0]
             q == [x |-> m, y |-> Len(t)]
             curve == <<o>> \o C
             S == {o, q} \cup {C[k] : k \in 1 .. M}
  <1>1. /\ M \in Nat \ {0}
        /\ C = [k \in 1 .. M |-> [x |-> u[k], y |-> UpTo(s, u[k])]]
        /\ \A k \in 1 .. M : u[k] \in Int
        /\ \A x \in Range(s) : \E k \in 1 .. M : u[k] = x
        /\ \A x \in Range(s) : x <= u[M]
    BY CurveOfValues
  <1>2. Len(t) = Len(s)
    <2>1. DOMAIN t = 1 .. Len(s) /\ Len(s) \in Nat
      BY SortedInOrder
    <2>2. t = [k \in 1 .. Len(s) |-> t[k]]
      BY <2>1 DEF Sorted
    <2> HIDE DEF t
    <2>3. QED
      BY <2>1, <2>2
  <1> HIDE DEF t, u, M, C
  <1>3. /\ C \in Seq(S) /\ Len(C) = M
        /\ \A k \in 1 .. M : /\ C[k].x = u[k]
                             /\ C[k].y = UpTo(s, u[k])
    <2>1. C \in [1 .. M -> S]
      BY <1>1
    <2> HIDE DEF S
    <2>2. QED
      BY <1>1, <2>1
  <1>4. o \in S /\ q \in S
    OBVIOUS
  <1> HIDE DEF S, o, q
  <1>5. /\ curve \in Seq(S) /\ Len(curve) = M + 1
        /\ \A k \in 1 .. M : curve[k + 1] = C[k]
    BY <1>1, <1>3, <1>4
  <1> HIDE DEF curve
  <1>6. Last(curve).x = u[M]
    BY <1>1, <1>3, <1>5 DEF Last
  <1>7. CASE m > u[M]
    <2> DEFINE r == InsertAt(curve, M + 1, q)
    <2>1. /\ r \in Seq(S) /\ Len(r) = M + 2
          /\ \A k \in 1 .. M : r[k] = curve[k]
          /\ r[M + 1] = q /\ r[M + 2] = curve[M + 1]
      <3>1. /\ M + 1 \in Nat \ {0} /\ (M + 1) - 1 = M /\ (M + 1) + 1 = M + 2
        BY <1>1
      <3> DEFINE L == M + 1
      <3>2. /\ L \in Nat \ {0} /\ Len(curve) = L /\ r = InsertAt(curve, L, q)
            /\ curve \in Seq(S) /\ q \in S
        BY <1>4, <1>5, <3>1
      <3> HIDE DEF L, r
      <3>3. /\ r \in Seq(S) /\ Len(r) = L + 1
            /\ \A k \in 1 .. L - 1 : r[k] = curve[k]
            /\ r[L] = q /\ r[L + 1] = curve[L]
        <4>1. r \in Seq(S) /\ IsInserted(r, curve, L, q)
          BY <3>2, Inserted
        <4>2. QED
          BY <4>1 DEF IsInserted
      <3>4. QED
        BY <3>1, <3>3 DEF L
    <2>2. get_cdf(t, m) = r
      BY <1>5, <1>6, <1>7 DEF get_cdf, curve, C, o, q
    <2> HIDE DEF r
    <2> DEFINE z == Tail(r)
    <2>3. /\ DOMAIN z = 1 .. M + 1
          /\ \A k \in 1 .. M - 1 : z[k] = C[k]
          /\ z[M] = q /\ z[M + 1] = C[M]
      <3>1. z \in Seq(S) /\ Len(z) = M + 1
            /\ \A k \in 1 .. M + 1 : z[k] = r[k + 1]
        BY <1>1, <2>1
      <3>2. ASSUME NEW k \in 1 .. M - 1
            PROVE  z[k] = C[k]
        <4>1. k \in 1 .. M + 1 /\ k + 1 \in 1 .. M /\ k \in 1 .. M
          BY <1>1
        <4>2. QED
          BY <1>5, <2>1, <3>1, <4>1
      <3>3. z[M] = q
        BY <1>1, <2>1, <3>1
      <3>4. z[M + 1] = C[M]
        <4>1. M + 1 \in 1 .. M + 1 /\ (M + 1) + 1 = M + 2 /\ M \in 1 .. M
          BY <1>1
        <4>2. QED
          BY <1>5, <2>1, <3>1, <4>1
      <3>5. DOMAIN z = 1 .. M + 1
        BY <3>1
      <3> HIDE DEF z
      <3>6. QED
        BY <3>2, <3>3, <3>4, <3>5
    <2>4. q.x = m /\ q.y = UpTo(s, m)
      <3>1. UpTo(s, m) = Len(s)
        <4>1. /\ IsFamily(s) /\ Cardinality(DOMAIN s) = Len(s)
          BY SortedInOrder
        <4>2. \A k \in DOMAIN s : s[k] <= m
          <5> TAKE k \in DOMAIN s
          <5>1. s[k] \in Range(s) /\ s[k] \in Int
            BY DEF Range
          <5>2. QED
            BY <1>1, <1>7, <5>1
        <4>3. {k \in DOMAIN s : s[k] <= m} = DOMAIN s
          BY <4>2
        <4>4. QED
          BY <4>1, <4>3 DEF UpTo
      <3>2. QED
        BY <1>2, <3>1 DEF q
    <2>5. P = {z[k] : k \in 1 .. M + 1}
      BY <2>2, <2>3 DEF Range, t
    <2>6. \A p \in P : p.y = UpTo(s, p.x)
      <3> TAKE p \in P
      <3>1. PICK k \in 1 .. M + 1 : p = z[k]
        BY <2>5
      <3>2. p = q \/ \E l \in 1 .. M : p = C[l]
        <4>1. k \in 1 .. M - 1 \/ k = M \/ k = M + 1
          BY <1>1
        <4>2. 1 .. M - 1 \subseteq 1 .. M /\ M \in 1 .. M
          BY <1>1
        <4>3. QED
          BY <2>3, <3>1, <4>1, <4>2
      <3>3. QED
        BY <1>3, <2>4, <3>2
    <2>7. \A x \in Range(s) : \E p \in P : p.x = x
      <3> TAKE x \in Range(s)
      <3>1. PICK k \in 1 .. M : u[k] = x
        BY <1>1
      <3>2. C[k] \in P
        <4>1. k \in 1 .. M - 1 \/ k = M
          BY <1>1
        <4>2. 1 .. M - 1 \subseteq 1 .. M + 1 /\ M + 1 \in 1 .. M + 1
          BY <1>1
        <4>3. QED
          BY <2>3, <2>5, <4>1, <4>2
      <3>3. QED
        BY <1>3, <3>1, <3>2
    <2>8. QED
      BY <2>6, <2>7
  <1>8. CASE ~ (m > u[M])
    <2> DEFINE z == Tail(curve)
    <2>1. get_cdf(t, m) = curve
      BY <1>6, <1>8 DEF get_cdf, curve, C, o
    <2>2. DOMAIN z = 1 .. M /\ \A k \in 1 .. M : z[k] = C[k]
      <3>1. z \in Seq(S) /\ Len(z) = M
            /\ \A k \in 1 .. M : z[k] = curve[k + 1]
        BY <1>1, <1>5
      <3>2. QED
        BY <1>5, <3>1
    <2>3. P = {z[k] : k \in 1 .. M}
      BY <2>1, <2>2 DEF Range, t
    <2> HIDE DEF z
    <2>4. \A p \in P : \E k \in 1 .. M : p = C[k]
      BY <2>2, <2>3
    <2>5. \A k \in 1 .. M : C[k] \in P
      BY <2>2, <2>3
    <2>6. \A p \in P : p.y = UpTo(s, p.x)
      BY <1>3, <2>4
    <2>7. \A x \in Range(s) : \E p \in P : p.x = x
      BY <1>1, <1>3, <2>5
    <2>8. QED
      BY <2>6, <2>7
  <1>9. QED
    BY <1>7, <1>8
-----------------------------------------------------------------------------
(* Reading a text *)

\* The reader after p of the tokens.
ReaderIs(t, text, f) ==
    f = [p \in 0 .. Len(text) |->
           IF p = 0 THEN t ELSE ReadToken(f[p - 1], text[p])]

\* A text is read one token after the other.
LEMMA ReadUnfolds ==
  ASSUME NEW t, NEW s, Len(s) \in Nat
  PROVE  \E f : ReaderIs(t, s, f) /\ ReadText(t, s) = f[Len(s)]
  <1> DEFINE Upto(m, g) ==
               /\ g[0] = t
               /\ \A p \in 1 .. m : g[p] = ReadToken(g[p - 1], s[p])
             S == {m \in Nat : \E g : Upto(m, g)}
  <1>1. 0 \in S
    <2>1. Upto(0, [p \in {0} |-> t])
      OBVIOUS
    <2>2. QED
      BY <2>1
  <1>2. \A m \in S : m + 1 \in S
    <2> TAKE m \in S
    <2>1. PICK g : Upto(m, g)
      OBVIOUS
    <2> DEFINE h == [p \in 0 .. m + 1 |->
                       IF p = m + 1 THEN ReadToken(g[m], s[m + 1]) ELSE g[p]]
    <2> HIDE DEF h
    <2>2. h[0] = t
      BY <2>1 DEF h
    <2>3. ASSUME NEW p \in 1 .. m + 1
          PROVE  h[p] = ReadToken(h[p - 1], s[p])
      <3>1. p - 1 \in 0 .. m /\ h[p - 1] = g[p - 1]
        BY DEF h
      <3>2. CASE p = m + 1
        BY <3>1, <3>2 DEF h
      <3>3. CASE p # m + 1
        <4>1. p \in 1 .. m
          BY <3>3
        <4>2. h[p] = g[p]
          BY <4>1 DEF h
        <4>3. QED
          BY <2>1, <3>1, <4>1, <4>2
      <3>4. QED
        BY <3>2, <3>3
    <2>4. Upto(m + 1, h)
      BY <2>2, <2>3
    <2> HIDE DEF Upto
    <2>5. m + 1 \in Nat
      OBVIOUS
    <2>6. QED
      BY <2>4, <2>5
  <1> HIDE DEF S
  <1>3. S = Nat
    <2>1. S \in SUBSET Nat
      BY DEF S
    <2>2. QED
      BY <1>1, <1>2, <2>1, Induction
  <1>4. Len(s) \in S
    BY <1>3
  <1>5. PICK g : Upto(Len(s), g)
    BY <1>4 DEF S
  <1> DEFINE f0 == [p \in 0 .. Len(s) |-> g[p]]
  <1>6. ReaderIs(t, s, f0)
    <2>1. \A p \in 0 .. Len(s) : f0[p] = IF p = 0 THEN t
                                 ELSE ReadToken(f0[p - 1], s[p])
      <3> TAKE p \in 0 .. Len(s)
      <3>1. CASE p = 0
        BY <1>5, <3>1
      <3>2. CASE p # 0
        <4>1. p \in 1 .. Len(s) /\ p - 1 \in 0 .. Len(s)
          BY <3>2
        <4>2. f0[p] = g[p] /\ f0[p - 1] = g[p - 1]
          BY <4>1
        <4>3. QED
          BY <1>5, <4>1, <4>2, <3>2
      <3>3. QED
        BY <3>1, <3>2
    <2> HIDE DEF f0
    <2>2. f0 = [p \in 0 .. Len(s) |-> f0[p]]
      BY DEF f0
    <2>3. QED
      BY <2>1, <2>2 DEF ReaderIs
  <1> DEFINE f1 == CHOOSE f : ReaderIs(t, s, f)
  <1>7. ReaderIs(t, s, f1)
    BY <1>6
  <1>8. ReadText(t, s) = f1[Len(s)]
    BY DEF ReadText, ReaderIs
  <1>9. QED
    BY <1>7, <1>8
\* Nothing is read.
LEMMA ReadNothing ==
  ASSUME NEW t
  PROVE  ReadText(t, <<>>) = t
  <1>1. PICK f : ReaderIs(t, <<>>, f) /\ ReadText(t, <<>>) = f[Len(<<>>)]
    BY ReadUnfolds
  <1>2. QED
    BY <1>1 DEF ReaderIs

\* Two texts that begin alike are read alike up to there.
LEMMA SameBeginningRead ==
  ASSUME NEW t, NEW s, NEW u, NEW f, NEW g,
         Len(s) \in Nat, Len(u) \in Nat, Len(s) <= Len(u),
         \A k \in 1 .. Len(s) : u[k] = s[k],
         ReaderIs(t, s, f), ReaderIs(t, u, g)
  PROVE  g[Len(s)] = f[Len(s)]
  <1> DEFINE S == {m \in Nat : m <= Len(s) => g[m] = f[m]}
  <1>1. 0 \in S
    BY DEF ReaderIs
  <1>2. \A m \in S : m + 1 \in S
    <2> TAKE m \in S
    <2>1. ASSUME m + 1 <= Len(s)
          PROVE  g[m + 1] = f[m + 1]
      <3>1. /\ m + 1 \in 1 .. Len(s)
            /\ m + 1 \in 0 .. Len(s)
            /\ m + 1 \in 0 .. Len(u)
            /\ m + 1 # 0
            /\ (m + 1) - 1 = m
        BY <2>1
      <3>2. g[m] = f[m]
        BY <2>1
      <3>3. g[m + 1] = ReadToken(g[(m + 1) - 1], u[m + 1])
        BY <3>1 DEF ReaderIs
      <3>4. f[m + 1] = ReadToken(f[(m + 1) - 1], s[m + 1])
        BY <3>1 DEF ReaderIs
      <3>5. QED
        BY <3>1, <3>2, <3>3, <3>4
    <2>2. QED
      BY <2>1
  <1> HIDE DEF S
  <1>3. S = Nat
    <2>1. S \in SUBSET Nat
      BY DEF S
    <2>2. QED
      BY <1>1, <1>2, <2>1, Induction
  <1>4. QED
    BY <1>3 DEF S

\* One more token.
LEMMA ReadMore ==
  ASSUME NEW t, NEW S, NEW s \in Seq(S), NEW e \in S
  PROVE  ReadText(t, s \o <<e>>) = ReadToken(ReadText(t, s), e)
  <1> DEFINE u == s \o <<e>>
  <1>1. /\ u \in Seq(S) /\ Len(u) = Len(s) + 1 /\ Len(s) \in Nat
        /\ u[Len(u)] = e
        /\ \A k \in 1 .. Len(s) : u[k] = s[k]
    OBVIOUS
  <1> HIDE DEF u
  <1>2. PICK f : ReaderIs(t, s, f) /\ ReadText(t, s) = f[Len(s)]
    BY <1>1, ReadUnfolds
  <1>3. PICK g : ReaderIs(t, u, g) /\ ReadText(t, u) = g[Len(u)]
    BY <1>1, ReadUnfolds
  <1>4. g[Len(s)] = f[Len(s)]
    BY <1>1, <1>2, <1>3, SameBeginningRead
  <1>5. g[Len(u)] = ReadToken(g[Len(s)], u[Len(u)])
    <2>1. Len(u) \in 0 .. Len(u) /\ Len(u) # 0 /\ Len(u) - 1 = Len(s)
      BY <1>1
    <2>2. QED
      BY <1>3, <2>1 DEF ReaderIs
  <1>6. ReadText(t, u) = ReadToken(ReadText(t, s), e)
    BY <1>1, <1>2, <1>3, <1>4, <1>5
  <1>7. QED
    BY <1>6 DEF u

\* A single token.
LEMMA ReadOne ==
  ASSUME NEW t, NEW e
  PROVE  ReadText(t, <<e>>) = ReadToken(t, e)
  <1>1. PICK f : ReaderIs(t, <<e>>, f) /\ ReadText(t, <<e>>) = f[Len(<<e>>)]
    BY ReadUnfolds
  <1>2. Len(<<e>>) = 1 /\ <<e>>[1] = e /\ 1 \in 0 .. Len(<<e>>)
        /\ 0 \in 0 .. Len(<<e>>)
    OBVIOUS
  <1>3. f[0] = t /\ f[1] = ReadToken(f[0], e)
    BY <1>1, <1>2 DEF ReaderIs
  <1>4. QED
    BY <1>1, <1>2, <1>3

\* One more token of the second text.
LEMMA OneMoreRead ==
  ASSUME NEW t, NEW S, NEW s \in Seq(S), NEW u \in Seq(S), NEW e \in S,
         ReadText(t, s \o u) = ReadText(ReadText(t, s), u)
  PROVE  ReadText(t, s \o (u \o <<e>>)) = ReadText(ReadText(t, s), u \o <<e>>)
  <1> DEFINE w == s \o u
  <1>1. w \in Seq(S) /\ s \o (u \o <<e>>) = w \o <<e>>
    BY OneMoreOfBoth
  <1>2. ReadText(t, w) = ReadText(ReadText(t, s), u)
    OBVIOUS
  <1> HIDE DEF w
  <1>3. ReadText(t, w \o <<e>>) = ReadToken(ReadText(t, w), e)
    BY <1>1, ReadMore
  <1>4. ReadText(ReadText(t, s), u \o <<e>>) =
          ReadToken(ReadText(ReadText(t, s), u), e)
    BY ReadMore
  <1>5. QED
    BY <1>1, <1>2, <1>3, <1>4

\* One text after the other.
LEMMA ReadBoth ==
  ASSUME NEW t, NEW S, NEW s \in Seq(S), NEW u \in Seq(S)
  PROVE  ReadText(t, s \o u) = ReadText(ReadText(t, s), u)
  <1> DEFINE Prefix(m) == [k \in 1 .. m |-> u[k]]
             D == {m \in Nat : m <= Len(u) =>
                     ReadText(t, s \o Prefix(m)) =
                       ReadText(ReadText(t, s), Prefix(m))}
  <1>1. 0 \in D
    <2>1. Prefix(0) = <<>> /\ s \o <<>> = s
      OBVIOUS
    <2>2. ReadText(t, s \o Prefix(0)) = ReadText(ReadText(t, s), Prefix(0))
      BY <2>1, ReadNothing
    <2>3. QED
      BY <2>2
  <1>2. \A m \in D : m + 1 \in D
    <2> TAKE m \in D
    <2>1. ASSUME m + 1 <= Len(u)
          PROVE  ReadText(t, s \o Prefix(m + 1)) =
                   ReadText(ReadText(t, s), Prefix(m + 1))
      <3> DEFINE b == Prefix(m)
                 e == u[m + 1]
      <3>1. b \in Seq(S) /\ e \in S /\ Prefix(m + 1) = b \o <<e>>
        BY <2>1
      <3>2. ReadText(t, s \o b) = ReadText(ReadText(t, s), b)
        BY <2>1
      <3> HIDE DEF b, e
      <3>3. ReadText(t, s \o (b \o <<e>>)) =
              ReadText(ReadText(t, s), b \o <<e>>)
        BY <3>1, <3>2, OneMoreRead
      <3>4. QED
        BY <3>1, <3>3
    <2>2. QED
      BY <2>1
  <1> HIDE DEF D
  <1>3. D = Nat
    <2>1. D \in SUBSET Nat
      BY DEF D
    <2>2. QED
      BY <1>1, <1>2, <2>1, Induction
  <1>4. Len(u) \in D /\ Prefix(Len(u)) = u
    BY <1>3
  <1>5. QED
    BY <1>4 DEF D


\* A text may be read in parts.
LEMMA ReadJoined ==
  ASSUME NEW t, NEW s, NEW u, IsString(s), IsString(u)
  PROVE  /\ IsString(s \o u)
         /\ ReadText(t, s \o u) = ReadText(ReadText(t, s), u)
  <1>1. PICK S : s \in Seq(S)
    BY DEF IsString
  <1>2. PICK R : u \in Seq(R)
    BY DEF IsString
  <1>3. s \in Seq(S \cup R) /\ u \in Seq(S \cup R)
    BY <1>1, <1>2
  <1>4. s \o u \in Seq(S \cup R)
    BY <1>3
  <1>5. QED
    BY <1>3, <1>4, ReadBoth DEF IsString
-----------------------------------------------------------------------------
(* What is read of an entry *)

\* The state a rule leads to.
To(state, kind) ==
    IF kind = "}" THEN "end"
    ELSE IF kind = "]" THEN "entry"
    ELSE IF kind \in {"name", "number"}
         THEN IF kind = "name" THEN "colon" ELSE "number"
    ELSE IF kind = ","
         THEN IF state = "entry" THEN "next name" ELSE "next number"
    ELSE IF kind = "{" THEN "object"
    ELSE IF kind = "[" THEN "array" ELSE "value"

LEMMA Destinations == \A g \in Grammar : g[3] = To(g[1], g[2])
  <1>1. ASSUME NEW g \in Grammar
        PROVE  g[3] = To(g[1], g[2])
    <2>1. CASE g = <<"start", "{", "object">>
      BY <2>1 DEF To
    <2>2. CASE g = <<"object", "}", "end">>
      BY <2>2 DEF To
    <2>3. CASE g = <<"object", "name", "colon">>
      BY <2>3 DEF To
    <2>4. CASE g = <<"next name", "name", "colon">>
      BY <2>4 DEF To
    <2>5. CASE g = <<"colon", ":", "value">>
      BY <2>5 DEF To
    <2>6. CASE g = <<"value", "[", "array">>
      BY <2>6 DEF To
    <2>7. CASE g = <<"array", "]", "entry">>
      BY <2>7 DEF To
    <2>8. CASE g = <<"array", "number", "number">>
      BY <2>8 DEF To
    <2>9. CASE g = <<"number", "]", "entry">>
      BY <2>9 DEF To
    <2>10. CASE g = <<"number", ",", "next number">>
      BY <2>10 DEF To
    <2>11. CASE g = <<"next number", "number", "number">>
      BY <2>11 DEF To
    <2>12. CASE g = <<"entry", "}", "end">>
      BY <2>12 DEF To
    <2>13. CASE g = <<"entry", ",", "next name">>
      BY <2>13 DEF To
    <2>14. QED
      BY <2>1, <2>2, <2>3, <2>4, <2>5, <2>6, <2>7, <2>8, <2>9, <2>10, <2>11,
         <2>12, <2>13 DEF Grammar
  <1>2. QED
    BY <1>1

\* The rules have different states or tokens.
LEMMA Deterministic ==
  ASSUME NEW rule \in Grammar
  PROVE  {r[3] : r \in {g \in Grammar : g[1] = rule[1] /\ g[2] = rule[2]}}
           = {rule[3]}
  <1>1. \A g \in Grammar : g[3] = To(g[1], g[2])
    BY Destinations
  <1>2. \A g \in Grammar : g[1] = rule[1] /\ g[2] = rule[2] => g[3] = rule[3]
    BY <1>1
  <1>3. QED
    BY <1>2

\* The reader's states and the tokens of one kind, by names: strings would be
\* in the provers' way.
AtStart == "start"
AtObject == "object"
AtName == "next name"
AtColon == "colon"
AtValue == "value"
AtArray == "array"
AtNumber == "number"
AtNext == "next number"
AtEntry == "entry"
AtEnd == "end"
Begin == Token("{")
End == Token("}")
Colon == Token(":")
Comma == Token(",")
Left == Token("[")
Right == Token("]")

Reader(state, key, object) ==
    [state |-> state, key |-> key, object |-> object]

IsRule(state, token, to) == <<state, token.kind, to>> \in Grammar

\* What a token makes of the name and the object.
NameAfter(key, token) == IF token.kind = "name" THEN token.value ELSE key
ObjectAfter(object, key, token) ==
    CASE token.kind = "[" ->
           [k \in DOMAIN object \cup {key} |->
              IF k = key THEN <<>> ELSE object[k]]
      [] token.kind = "number" ->
           [object EXCEPT ![key] = Append(@, token.value)]
      [] OTHER -> object

\* A token by its rule.
LEMMA ReadByRule ==
  ASSUME NEW state, NEW key, NEW object, NEW token, NEW to,
         IsRule(state, token, to)
  PROVE  ReadToken(Reader(state, key, object), token) =
           Reader(to, NameAfter(key, token), ObjectAfter(object, key, token))
  <1> DEFINE r == Reader(state, key, object)
             rule == <<state, token.kind, to>>
             states == {g[3] : g \in {h \in Grammar : h[1] = r.state
                                                  /\ h[2] = token.kind}}
  <1>1. r.state = state /\ r.key = key /\ r.object = object
    BY DEF Reader
  <1>2. states = {to}
    <2>1. rule \in Grammar /\ rule[1] = r.state /\ rule[2] = token.kind
          /\ rule[3] = to
      BY <1>1 DEF IsRule
    <2> HIDE DEF r, rule
    <2>2. QED
      BY <2>1, Deterministic
  <1>3. states # {} /\ (CHOOSE s \in states : TRUE) = to
    BY <1>2
  <1>4. ReadToken(r, token) =
          [state |-> to,
           key |-> IF token.kind = "name" THEN token.value ELSE r.key,
           object |->
             CASE token.kind = "[" ->
                    [k \in DOMAIN r.object \cup {r.key} |->
                       IF k = r.key THEN <<>> ELSE r.object[k]]
               [] token.kind = "number" ->
                    [r.object EXCEPT ![r.key] = Append(@, token.value)]
               [] OTHER -> r.object]
    <2> HIDE DEF r
    <2>1. states = {g[3] : g \in {h \in Grammar : h[1] = r.state
                                              /\ h[2] = token.kind}}
      OBVIOUS
    <2> HIDE DEF states
    <2>2. QED
      BY <1>3, <2>1 DEF ReadToken
  <1>5. QED
    BY <1>1, <1>4 DEF Reader, NameAfter, ObjectAfter

\* The object with another value for a name.
With(object, key, value) ==
    [k \in DOMAIN object \cup {key} |->
       IF k = key THEN value ELSE object[k]]

\* The tokens that leave the object as it is.
IsPlain(token) ==
    token.kind # "name" /\ token.kind # "[" /\ token.kind # "number"

\* They do,
LEMMA ReadPlain ==
  ASSUME NEW state, NEW key, NEW object, NEW token, NEW to,
         IsRule(state, token, to), IsPlain(token)
  PROVE  ReadToken(Reader(state, key, object), token) =
           Reader(to, key, object)
  <1>1. ReadToken(Reader(state, key, object), token) =
          Reader(to, NameAfter(key, token), ObjectAfter(object, key, token))
    BY ReadByRule
  <1>2. QED
    BY <1>1 DEF NameAfter, ObjectAfter, IsPlain

\* ... a name is kept,
LEMMA ReadName ==
  ASSUME NEW state, NEW key, NEW object,
         NEW name, IsRule(state, Name(name), AtColon)
  PROVE  ReadToken(Reader(state, key, object), Name(name)) =
           Reader(AtColon, name, object)
  <1> DEFINE token == Name(name)
  <1>1. token.kind = "name" /\ token.value = name
    BY DEF Name
  <1> HIDE DEF token
  <1>2. ReadToken(Reader(state, key, object), token) =
          Reader(AtColon, NameAfter(key, token),
                 ObjectAfter(object, key, token))
    BY ReadByRule DEF token
  <1>3. QED
    BY <1>1, <1>2 DEF token, NameAfter, ObjectAfter

\* ... its array begins with nothing,
LEMMA ReadBracket ==
  ASSUME NEW key, NEW object, IsRule(AtValue, Left, AtArray)
  PROVE  ReadToken(Reader(AtValue, key, object), Left) =
           Reader(AtArray, key, With(object, key, <<>>))
  <1>1. Left.kind = "["
    BY DEF Left, Token
  <1>2. ReadToken(Reader(AtValue, key, object), Left) =
          Reader(AtArray, NameAfter(key, Left), ObjectAfter(object, key, Left))
    BY ReadByRule
  <1>3. QED
    BY <1>1, <1>2 DEF With, NameAfter, ObjectAfter

\* ... and gets one number after another.
IsMore(more, values, sample) == more = Append(values, sample)

\* A number comes after the values so far.
LEMMA ReadNumber ==
  ASSUME NEW state, NEW key, NEW object, NEW values,
         NEW sample, IsRule(state, Number(sample), AtNumber),
         NEW more, IsMore(more, values, sample)
  PROVE  ReadToken(Reader(state, key, With(object, key, values)),
                   Number(sample)) =
           Reader(AtNumber, key, With(object, key, more))
  <1> DEFINE token == Number(sample)
             o == With(object, key, values)
  <1>1. token.kind = "number" /\ token.value = sample
    BY DEF Number
  <1> HIDE DEF token, o
  <1>2. ReadToken(Reader(state, key, o), token) =
          Reader(AtNumber, NameAfter(key, token), ObjectAfter(o, key, token))
    BY ReadByRule DEF token
  <1>3. [o EXCEPT ![key] = Append(@, sample)] = With(object, key, more)
    BY DEF o, With, IsMore
  <1>4. QED
    BY <1>1, <1>2, <1>3 DEF token, o, NameAfter, ObjectAfter

\* The rules of an entry.
LEMMA EntryRules ==
  /\ IsRule(AtStart, Begin, AtObject)
  /\ \A name : /\ IsRule(AtObject, Name(name), AtColon)
               /\ IsRule(AtName, Name(name), AtColon)
  /\ IsRule(AtColon, Colon, AtValue)
  /\ IsRule(AtValue, Left, AtArray)
  /\ \A sample : /\ IsRule(AtArray, Number(sample), AtNumber)
                 /\ IsRule(AtNext, Number(sample), AtNumber)
  /\ IsRule(AtNumber, Comma, AtNext)
  /\ IsRule(AtNumber, Right, AtEntry)
  /\ IsRule(AtEntry, Comma, AtName)
  /\ IsRule(AtEntry, End, AtEnd)
  BY DEF IsRule, Grammar, Token, Name, Number, Begin, End, Colon, Comma, Left,
         Right, AtStart, AtObject, AtName, AtColon, AtValue, AtArray,
         AtNumber, AtNext, AtEntry, AtEnd

\* The tokens that change the state only.
LEMMA PlainTokens ==
  /\ IsPlain(Begin) /\ IsPlain(End) /\ IsPlain(Colon) /\ IsPlain(Comma)
  /\ IsPlain(Right)
  BY DEF IsPlain, Token, Begin, End, Colon, Comma, Right

\* A token that the text of a file ends with.
IsEnd(token) == token.kind = "}"

\* A text that has none: the end of a file is missing from it.
IsUnended(s) == \E S : s \in Seq(S) /\ \A e \in S : ~IsEnd(e)

LEMMA OtherTokens ==
  /\ ~IsEnd(Begin) /\ ~IsEnd(Colon) /\ ~IsEnd(Comma) /\ ~IsEnd(Left)
  /\ ~IsEnd(Right)
  /\ \A x : ~IsEnd(Name(x)) /\ ~IsEnd(Number(x))
  /\ IsEnd(End)
  BY DEF IsEnd, Token, Name, Number, Begin, Colon, Comma, Left, Right, End

LEMMA UnendedIn ==
  ASSUME NEW S, NEW s \in Seq(S), \A e \in S : ~IsEnd(e)
  PROVE  IsUnended(s)
  BY DEF IsUnended

LEMMA UnendedTexts ==
  /\ \A s : IsUnended(s) => IsString(s)
  /\ IsUnended(<<Begin>>) /\ IsUnended(<<Comma>>) /\ IsUnended(<<Right>>)
  /\ \A x : IsUnended(<<Name(x), Colon, Left>>)
  <1>1. \A s : IsUnended(s) => IsString(s)
    BY DEF IsUnended, IsString
  <1>2. ASSUME NEW e, ~IsEnd(e) PROVE IsUnended(<<e>>)
    <2> DEFINE s == <<e>>
               S == {e}
    <2>1. s \in Seq(S) /\ \A x \in S : ~IsEnd(x)
      BY <1>2
    <2> HIDE DEF s, S
    <2>2. IsUnended(s)
      BY <2>1, UnendedIn
    <2>3. QED
      BY <2>2 DEF s
  <1>3. ASSUME NEW a, NEW b, NEW c, ~IsEnd(a), ~IsEnd(b), ~IsEnd(c)
        PROVE  IsUnended(<<a, b, c>>)
    <2> DEFINE s == <<a, b, c>>
               S == {a, b, c}
    <2>1. s \in Seq(S) /\ \A x \in S : ~IsEnd(x)
      BY <1>3
    <2> HIDE DEF s, S
    <2>2. IsUnended(s)
      BY <2>1, UnendedIn
    <2>3. QED
      BY <2>2 DEF s
  <1>4. QED
    BY <1>1, <1>2, <1>3, OtherTokens

LEMMA UnendedJoined ==
  ASSUME NEW s, NEW u, IsUnended(s), IsUnended(u)
  PROVE  IsUnended(s \o u)
  <1>1. PICK S : s \in Seq(S) /\ \A e \in S : ~IsEnd(e)
    BY DEF IsUnended
  <1>2. PICK R : u \in Seq(R) /\ \A e \in R : ~IsEnd(e)
    BY DEF IsUnended
  <1>3. s \o u \in Seq(S \cup R)
    <2>1. s \in Seq(S \cup R) /\ u \in Seq(S \cup R)
      BY <1>1, <1>2
    <2>2. QED
      BY <2>1
  <1>4. \A e \in S \cup R : ~IsEnd(e)
    BY <1>1, <1>2
  <1>5. QED
    BY <1>3, <1>4 DEF IsUnended

LEMMA UnendedPart ==
  ASSUME NEW s, IsUnended(s), NEW m \in 0 .. Len(s)
  PROVE  IsUnended(SubSeq(s, 1, m))
  <1>1. PICK S : s \in Seq(S) /\ \A e \in S : ~IsEnd(e)
    BY DEF IsUnended
  <1>2. SubSeq(s, 1, m) \in Seq(S)
    BY <1>1
  <1>3. QED
    BY <1>1, <1>2 DEF IsUnended

\* A reader that is not at the end of a file, and stays so.
IsOpen(r) == "state" \in DOMAIN r /\ r.state # "end"

LEMMA OpenStays ==
  ASSUME NEW r, IsOpen(r), NEW token, ~IsEnd(token)
  PROVE  IsOpen(ReadToken(r, token))
  <1> DEFINE states == {g[3] : g \in {h \in Grammar : h[1] = r.state
                                                  /\ h[2] = token.kind}}
             c == CHOOSE state \in states : TRUE
             k == IF token.kind = "name" THEN token.value ELSE r.key
             o == CASE token.kind = "[" ->
                         [x \in DOMAIN r.object \cup {r.key} |->
                            IF x = r.key THEN <<>> ELSE r.object[x]]
                    [] token.kind = "number" ->
                         [r.object EXCEPT ![r.key] = Append(@, token.value)]
                    [] OTHER -> r.object
  <1>1. \A g \in Grammar : g[3] = "end" => g[2] = "}"
    <2>1. \A a, b : To(a, b) = "end" => b = "}"
      BY DEF To
    <2>2. QED
      BY <2>1, Destinations
  <1>2. \A x \in states : x # "end"
    BY <1>1 DEF IsEnd
  <1>3. ReadToken(r, token) =
          IF states = {} THEN [r EXCEPT !.state = "error"]
          ELSE [state |-> c, key |-> k, object |-> o]
    BY DEF ReadToken
  <1> HIDE DEF states, k, o
  <1>4. CASE states = {}
    <2>1. ReadToken(r, token) = [r EXCEPT !.state = "error"]
      BY <1>3, <1>4
    <2>2. QED
      BY <2>1 DEF IsOpen
  <1>5. CASE states # {}
    <2>1. c \in states
      BY <1>5
    <2> HIDE DEF c
    <2>2. ReadToken(r, token) = [state |-> c, key |-> k, object |-> o]
      BY <1>3, <1>5 DEF c
    <2>3. c # "end"
      BY <1>2, <2>1
    <2>4. QED
      BY <2>2, <2>3 DEF IsOpen
  <1>6. QED
    BY <1>4, <1>5

\* Without its end no text is read as a file.
LEMMA UnendedIsOpen ==
  ASSUME NEW s, IsUnended(s)
  PROVE  IsOpen(ReadText(StartReading, s))
  <1>1. PICK S : s \in Seq(S) /\ \A e \in S : ~IsEnd(e)
    BY DEF IsUnended
  <1>2. PICK f : /\ ReaderIs(StartReading, s, f)
                 /\ ReadText(StartReading, s) = f[Len(s)]
    BY <1>1, ReadUnfolds
  <1> DEFINE D == {m \in Nat : m <= Len(s) => IsOpen(f[m])}
  <1>3. Len(s) \in Nat /\ \A m \in 1 .. Len(s) : ~IsEnd(s[m])
    BY <1>1
  <1>4. 0 \in D
    <2>1. f[0] = StartReading
      BY <1>2, <1>3 DEF ReaderIs
    <2>2. IsOpen(StartReading)
      BY DEF IsOpen, StartReading
    <2>3. QED
      BY <2>1, <2>2
  <1>5. \A m \in D : m + 1 \in D
    <2> TAKE m \in D
    <2>1. ASSUME m + 1 <= Len(s) PROVE IsOpen(f[m + 1])
      <3>1. /\ m + 1 \in 0 .. Len(s) /\ m + 1 # 0 /\ (m + 1) - 1 = m
            /\ m + 1 \in 1 .. Len(s) /\ IsOpen(f[m])
        BY <1>3, <2>1
      <3>2. f[m + 1] = ReadToken(f[m], s[m + 1])
        <4>1. f[m + 1] = ReadToken(f[(m + 1) - 1], s[m + 1])
          BY <1>2, <3>1 DEF ReaderIs
        <4>2. QED
          BY <3>1, <4>1
      <3>3. ~IsEnd(s[m + 1])
        BY <1>3, <3>1
      <3>4. QED
        BY <3>1, <3>2, <3>3, OpenStays
    <2>2. QED
      BY <2>1
  <1> HIDE DEF D
  <1>6. D = Nat
    <2>1. D \in SUBSET Nat
      BY DEF D
    <2>2. QED
      BY <1>4, <1>5, <2>1, Induction
  <1>7. IsOpen(f[Len(s)])
    BY <1>3, <1>6 DEF D
  <1>8. QED
    BY <1>2, <1>7

\* The next number of an array.
LEMMA ReadNext ==
  ASSUME NEW key, NEW object, NEW b, NEW x, NEW c, IsMore(c, b, x),
         NEW r, r = Reader(AtNumber, key, With(object, key, b)),
         NEW g, g = ReadToken(r, Comma),
         NEW h, h = ReadToken(g, Number(x))
  PROVE  h = Reader(AtNumber, key, With(object, key, c))
  <1>1. g = Reader(AtNext, key, With(object, key, b))
    BY EntryRules, PlainTokens, ReadPlain
  <1>2. IsRule(AtNext, Number(x), AtNumber)
    BY EntryRules
  <1>3. QED
    BY <1>1, <1>2, ReadNumber

\* t has L numbers of vec, and a comma before each but the first.
IsVector(t, vec, L) ==
    /\ Len(t) = 2 * L - 1
    /\ \A m \in 0 .. L - 1 : t[2 * m + 1] = Number(vec[m + 1])
    /\ \A m \in 1 .. L - 1 : t[2 * m] = Comma

\* The text of an array.
LEMMA VectorText ==
  ASSUME NEW S, NEW vec \in Seq(S), NEW L \in Nat \ {0}, Len(vec) = L,
         NEW t, t = get_vec_str(vec)
  PROVE  IsString(t) /\ IsUnended(t) /\ IsVector(t, vec, L)
  <1> DEFINE N == 2 * L - 1
             T == {Comma} \cup {Number(vec[k]) : k \in 1 .. L}
  <1>0. \A e \in T : ~IsEnd(e)
    BY OtherTokens
  <1>1. N \in Nat
    OBVIOUS
  <1>2. t = [k \in 1 .. N |-> IF k % 2 = 0 THEN Comma
                             ELSE Number(vec[(k + 1) \div 2])]
    BY DEF get_vec_str, Comma
  <1>3. \A k \in 1 .. N : t[k] \in T
    <2> TAKE k \in 1 .. N
    <2>1. (k + 1) \div 2 \in 1 .. L
      OBVIOUS
    <2>2. Number(vec[(k + 1) \div 2]) \in T /\ Comma \in T
      BY <2>1
    <2> HIDE DEF T
    <2>3. QED
      BY <1>2, <2>2
  <1> HIDE DEF T
  <1>4. t \in Seq(T) /\ Len(t) = N
    <2>1. t \in [1 .. N -> T]
      BY <1>2, <1>3
    <2> HIDE DEF N
    <2>2. QED
      BY <1>1, <2>1
  <1>5. ASSUME NEW m \in 0 .. L - 1
        PROVE  t[2 * m + 1] = Number(vec[m + 1])
    <2>1. /\ 2 * m + 1 \in 1 .. N /\ (2 * m + 1) % 2 # 0
          /\ ((2 * m + 1) + 1) \div 2 = m + 1
      OBVIOUS
    <2> HIDE DEF N
    <2>2. QED
      BY <1>2, <2>1
  <1>6. ASSUME NEW m \in 1 .. L - 1
        PROVE  t[2 * m] = Comma
    <2>1. 2 * m \in 1 .. N /\ (2 * m) % 2 = 0
      OBVIOUS
    <2> HIDE DEF N
    <2>2. QED
      BY <1>2, <2>1
  <1>7. QED
    BY <1>0, <1>4, <1>5, <1>6 DEF IsString, IsUnended, IsVector

\* They are read as the values of the array.
LEMMA ReadVector ==
  ASSUME NEW key, NEW object, NEW S, NEW vec \in Seq(S), vec # <<>>
  PROVE  /\ IsString(get_vec_str(vec)) /\ IsUnended(get_vec_str(vec))
         /\ ReadText(Reader(AtArray, key, With(object, key, <<>>)),
                     get_vec_str(vec)) =
             Reader(AtNumber, key, With(object, key, vec))
  <1> DEFINE L == Len(vec)
             t == get_vec_str(vec)
             r == Reader(AtArray, key, With(object, key, <<>>))
             Prefix(m) == [k \in 1 .. m |-> vec[k]]
             R(m) == Reader(AtNumber, key, With(object, key, Prefix(m)))
  <1>1. L \in Nat \ {0} /\ Prefix(L) = vec /\ Prefix(0) = <<>>
    OBVIOUS
  <1>2. ASSUME NEW m \in 0 .. L - 1
        PROVE  Prefix(m + 1) = Append(Prefix(m), vec[m + 1])
    OBVIOUS
  <1>3. /\ IsString(t) /\ Len(t) = 2 * L - 1 /\ Len(t) \in Nat
        /\ IsUnended(t) /\ IsVector(t, vec, L)
    <2> HIDE DEF L, t
    <2>1. L = Len(vec) /\ t = get_vec_str(vec)
      BY DEF L, t
    <2>2. IsString(t) /\ IsUnended(t) /\ IsVector(t, vec, L)
      BY <1>1, <2>1, VectorText
    <2>3. Len(t) = 2 * L - 1
      BY <2>2 DEF IsVector
    <2>4. Len(t) \in Nat
      BY <2>2, StringLength
    <2>5. QED
      BY <2>2, <2>3, <2>4
  <1> HIDE DEF L, t, r, Prefix
  <1>4. PICK f : ReaderIs(r, t, f) /\ ReadText(r, t) = f[Len(t)]
    BY <1>3, ReadUnfolds
  <1>5. /\ f[0] = r
        /\ \A k \in 1 .. 2 * L - 1 : f[k] = ReadToken(f[k - 1], t[k])
    <2> DEFINE N == 2 * L - 1
    <2>1. N \in Nat /\ Len(t) = N
      BY <1>1, <1>3
    <2> HIDE DEF N
    <2>2. f = [k \in 0 .. N |->
                 IF k = 0 THEN r ELSE ReadToken(f[k - 1], t[k])]
      BY <1>4, <2>1 DEF ReaderIs
    <2>3. f[0] = r /\ \A k \in 1 .. N : f[k] = ReadToken(f[k - 1], t[k])
      BY <2>1, <2>2
    <2>4. QED
      BY <2>3 DEF N
  <1> DEFINE T == {m \in Nat : m + 1 <= L => f[2 * m + 1] = R(m + 1)}
  <1>6. 0 \in T
    <2>1. 0 \in 0 .. L - 1 /\ 1 \in 1 .. 2 * L - 1 /\ 2 * 0 + 1 = 1
          /\ 1 - 1 = 0 /\ 0 + 1 = 1
      BY <1>1
    <2>2. f[1] = ReadToken(r, Number(vec[1]))
      BY <1>3, <1>5, <2>1 DEF IsVector
    <2>3. IsMore(Prefix(1), Prefix(0), vec[1])
      BY <1>1, <1>2, <2>1 DEF IsMore
    <2>4. f[1] = R(1)
      <3>1. IsRule(AtArray, Number(vec[1]), AtNumber)
        BY EntryRules
      <3>2. r = Reader(AtArray, key, With(object, key, Prefix(0)))
        BY <1>1 DEF r
      <3>3. QED
        BY <2>2, <2>3, <3>1, <3>2, ReadNumber
    <2>5. QED
      BY <2>1, <2>4
  <1>7. \A m \in T : m + 1 \in T
    <2> TAKE m \in T
    <2>1. ASSUME (m + 1) + 1 <= L
          PROVE  f[2 * (m + 1) + 1] = R((m + 1) + 1)
      <3>1. /\ m + 1 \in 1 .. L - 1 /\ m + 1 \in 0 .. L - 1
            /\ 2 * m + 2 \in 1 .. 2 * L - 1 /\ 2 * m + 3 \in 1 .. 2 * L - 1
            /\ (2 * m + 2) - 1 = 2 * m + 1 /\ (2 * m + 3) - 1 = 2 * m + 2
            /\ 2 * (m + 1) = 2 * m + 2 /\ 2 * (m + 1) + 1 = 2 * m + 3
            /\ m + 1 <= L
        BY <1>1, <2>1
      <3>2. f[2 * m + 1] = R(m + 1)
        BY <3>1
      <3> DEFINE b == Prefix(m + 1)
                 c == Prefix((m + 1) + 1)
                 x == vec[(m + 1) + 1]
                 g == f[2 * m + 2]
                 h == f[2 * m + 3]
      <3>3. g = ReadToken(R(m + 1), Comma)
        BY <1>3, <1>5, <3>1, <3>2 DEF IsVector
      <3>4. h = ReadToken(g, Number(x))
        BY <1>3, <1>5, <3>1 DEF IsVector
      <3>5. IsMore(c, b, x)
        BY <1>2, <3>1 DEF IsMore
      <3>6. R(m + 1) = Reader(AtNumber, key, With(object, key, b))
        OBVIOUS
      <3>7. R((m + 1) + 1) = Reader(AtNumber, key, With(object, key, c))
        OBVIOUS
      <3> HIDE DEF b, c, x, g, h, R
      <3>8. h = Reader(AtNumber, key, With(object, key, c))
        BY <3>3, <3>4, <3>5, <3>6, ReadNext
      <3>9. QED
        BY <3>1, <3>7, <3>8 DEF h
    <2>2. QED
      BY <2>1
  <1> HIDE DEF T
  <1>8. T = Nat
    <2>1. T \in SUBSET Nat
      BY DEF T
    <2>2. QED
      BY <1>6, <1>7, <2>1, Induction
  <1>9. L - 1 \in T /\ 2 * (L - 1) + 1 = 2 * L - 1 /\ (L - 1) + 1 = L
    BY <1>1, <1>8
  <1>10. f[2 * L - 1] = R(L)
    BY <1>1, <1>9 DEF T
  <1>11. QED
    BY <1>1, <1>3, <1>4, <1>10 DEF t, r

\* Three tokens.
LEMMA ReadThree ==
  ASSUME NEW t, NEW a, NEW b, NEW c
  PROVE  /\ IsString(<<a, b, c>>)
         /\ ReadText(t, <<a, b, c>>) =
              ReadToken(ReadToken(ReadToken(t, a), b), c)
  <1> DEFINE s == <<a, b, c>>
  <1>1. s \in Seq({a, b, c}) /\ Len(s) = 3 /\ s[1] = a /\ s[2] = b /\ s[3] = c
    OBVIOUS
  <1> HIDE DEF s
  <1>2. PICK f : ReaderIs(t, s, f) /\ ReadText(t, s) = f[Len(s)]
    <2>1. Len(s) \in Nat
      BY <1>1
    <2>2. QED
      BY <2>1, ReadUnfolds
  <1>3. f = [k \in 0 .. 3 |-> IF k = 0 THEN t ELSE ReadToken(f[k - 1], s[k])]
    BY <1>1, <1>2 DEF ReaderIs
  <1>4. /\ f[0] = t /\ f[1] = ReadToken(f[0], a)
        /\ f[2] = ReadToken(f[1], b) /\ f[3] = ReadToken(f[2], c)
    BY <1>1, <1>3
  <1>5. QED
    BY <1>1, <1>2, <1>4 DEF IsString, s

\* A text with one more entry.
HasEntry(z, s, key, vec) ==
    z = s \o <<Name(key), Colon, Left>> \o get_vec_str(vec) \o <<Right>>

\* The values of the entry are read.
LEMMA ReadEntry ==
  ASSUME NEW r, NEW s, IsString(s), NEW state, NEW old, NEW object,
         ReadText(r, s) = Reader(state, old, object),
         NEW key, IsRule(state, Name(key), AtColon),
         NEW S, NEW vec \in Seq(S), vec # <<>>,
         NEW z, HasEntry(z, s, key, vec)
  PROVE  /\ IsString(z)
         /\ IsUnended(s) => IsUnended(z)
         /\ ReadText(r, z) = Reader(AtEntry, key, With(object, key, vec))
  <1> DEFINE head == <<Name(key), Colon, Left>>
             v == get_vec_str(vec)
             s1 == s \o head
             s2 == s1 \o v
             r0 == Reader(state, old, object)
  <1>1. IsString(head) /\ ReadText(r0, head) =
          ReadToken(ReadToken(ReadToken(r0, Name(key)), Colon), Left)
    BY ReadThree
  <1>2. ReadToken(r0, Name(key)) = Reader(AtColon, key, object)
    BY ReadName
  <1>3. ReadToken(Reader(AtColon, key, object), Colon) =
          Reader(AtValue, key, object)
    BY EntryRules, PlainTokens, ReadPlain
  <1>4. ReadToken(Reader(AtValue, key, object), Left) =
          Reader(AtArray, key, With(object, key, <<>>))
    BY EntryRules, ReadBracket
  <1>5. /\ IsString(v) /\ IsUnended(v)
        /\ ReadText(Reader(AtArray, key, With(object, key, <<>>)), v) =
             Reader(AtNumber, key, With(object, key, vec))
    BY ReadVector
  <1>6. /\ IsString(<<Right>>)
        /\ ReadText(Reader(AtNumber, key, With(object, key, vec)), <<Right>>) =
             Reader(AtEntry, key, With(object, key, vec))
    <2>1. ReadToken(Reader(AtNumber, key, With(object, key, vec)), Right) =
            Reader(AtEntry, key, With(object, key, vec))
      BY EntryRules, PlainTokens, ReadPlain
    <2>2. QED
      BY <2>1, ReadOne, ShortStrings
  <1> HIDE DEF head, v, s1, s2, r0
  <1>7. IsString(s1) /\ ReadText(r, s1) =
          Reader(AtArray, key, With(object, key, <<>>))
    BY <1>1, <1>2, <1>3, <1>4, ReadJoined DEF s1, r0
  <1>8. IsString(s2) /\ ReadText(r, s2) =
          Reader(AtNumber, key, With(object, key, vec))
    BY <1>5, <1>7, ReadJoined DEF s2
  <1>9. z = s2 \o <<Right>>
    BY DEF s2, s1, v, head, HasEntry
  <1> DEFINE last == <<Right>>
             r2 == Reader(AtNumber, key, With(object, key, vec))
             r3 == Reader(AtEntry, key, With(object, key, vec))
  <1>10. /\ IsString(last) /\ IsString(s2) /\ z = s2 \o last
         /\ ReadText(r, s2) = r2 /\ ReadText(r2, last) = r3
    BY <1>6, <1>8, <1>9
  <1>13. IsUnended(last) /\ (IsUnended(s) => IsUnended(s2))
    <2>1. IsUnended(head) /\ IsUnended(last)
      BY UnendedTexts DEF head
    <2> HIDE DEF last
    <2>2. IsUnended(s) => IsUnended(s1)
      BY <2>1, UnendedJoined DEF s1
    <2>3. IsUnended(s1) => IsUnended(s2)
      BY <1>5, UnendedJoined DEF s2
    <2>4. QED
      BY <2>1, <2>2, <2>3
  <1> HIDE DEF last, r2, r3
  <1>11. IsString(z) /\ ReadText(r, z) = r3
    BY <1>10, ReadJoined
  <1>14. IsUnended(s) => IsUnended(z)
    BY <1>10, <1>13, UnendedJoined
  <1>12. QED
    BY <1>11, <1>14 DEF r3
-----------------------------------------------------------------------------
(* The results, from the file to the curves *)

\* Some benchmarks have results, each at least two samples.
DataInv ==
    /\ DOMAIN data \subseteq Benchmarks /\ DOMAIN data # {}
    /\ data = [key \in DOMAIN data |-> data[key]]
    /\ \A key \in DOMAIN data :
         data[key] \in Seq(Samples) /\ 1 < Len(data[key])

\* What may follow the entries that are written.
AfterEntries ==
    IF todo = DOMAIN data THEN AtObject
    ELSE IF todo = {} THEN AtEntry ELSE AtName

\* The text so far is read as the entries that are written.
WriteInv ==
    stage = "write" =>
        /\ todo \subseteq DOMAIN data
        /\ i = Cardinality(DOMAIN data) - Cardinality(todo)
        /\ IsUnended(str)
        /\ \E key : ReadText(StartReading, str) =
                      Reader(AfterEntries, key,
                             [k \in DOMAIN data \ todo |-> data[k]])

\* The whole text is read as the results, or its end is missing.
FileInv ==
    /\ stage = "read" =>
         \/ \E key : ReadText(StartReading, str) = Reader(AtEnd, key, data)
         \/ IsUnended(str)
    /\ stage = "failed" => IsUnended(str)

\* They have been read, and their curves are drawn.
StageInv ==
    /\ stage \in {"write", "read", "plot", "plotted", "failed"}
    /\ stage \in {"plot", "plotted"} => j = data
    /\ stage # "plotted" => curves = <<>>

PlotInv == DataInv /\ WriteInv /\ FileInv /\ StageInv /\ PointsAreShares
-----------------------------------------------------------------------------
\* No entry is written yet.
LEMMA PlotInvAtInit == PlotInit => PlotInv
  <1> SUFFICES ASSUME PlotInit PROVE PlotInv
    OBVIOUS
  <1>1. PICK keys \in (SUBSET Benchmarks) \ {{}}, n0 \in SampleCounts :
          data \in [keys -> [1 .. n0 -> Samples]]
    BY DEF PlotInit
  <1>2. n0 \in Nat /\ 1 < n0
    BY SampleCountsAssumption
  <1>3. DataInv
    <2>1. DOMAIN data = keys
      BY <1>1
    <2>2. \A key \in keys : data[key] \in [1 .. n0 -> Samples]
      BY <1>1
    <2>3. \A key \in keys : data[key] \in Seq(Samples) /\ Len(data[key]) = n0
      BY <1>2, <2>2
    <2>4. data = [key \in keys |-> data[key]]
      BY <1>1
    <2>5. DOMAIN data \subseteq Benchmarks /\ DOMAIN data # {}
      BY <2>1
    <2>6. \A key \in DOMAIN data :
            data[key] \in Seq(Samples) /\ 1 < Len(data[key])
      BY <1>2, <2>1, <2>3
    <2>7. data = [key \in DOMAIN data |-> data[key]]
      BY <2>1, <2>4
    <2>8. QED
      BY <2>5, <2>6, <2>7 DEF DataInv
  <1>4. WriteInv
    <2>1. /\ todo = DOMAIN data /\ i = 0 /\ str = <<Begin>> /\ IsUnended(str)
      BY UnendedTexts DEF PlotInit, Begin
    <2>2. i = Cardinality(DOMAIN data) - Cardinality(todo)
      <3>1. IsFiniteSet(DOMAIN data)
        BY <1>3, BenchmarksAssumption, FS_Subset DEF DataInv
      <3>2. Cardinality(DOMAIN data) \in Int
        BY <3>1, FS_CardinalityType
      <3>3. QED
        BY <2>1, <3>2
    <2>3. StartReading = Reader(AtStart, "none", <<>>)
      BY DEF StartReading, Reader, AtStart
    <2> DEFINE none == "none"
               o == [k \in {} |-> data[k]]
    <2>4. o = <<>>
      OBVIOUS
    <2>5. StartReading = Reader(AtStart, none, o)
      BY <2>3, <2>4
    <2> HIDE DEF none, o
    <2>6. ReadToken(StartReading, Begin) = Reader(AtObject, none, o)
      BY <2>5, EntryRules, PlainTokens, ReadPlain
    <2>7. ReadText(StartReading, str) = Reader(AtObject, none, o)
      BY <2>1, <2>6, ReadOne
    <2>8. AfterEntries = AtObject
      BY <2>1 DEF AfterEntries
    <2>9. DOMAIN data \ todo = {}
      BY <2>1
    <2>10. \E key : ReadText(StartReading, str) =
                      Reader(AfterEntries, key,
                             [k \in DOMAIN data \ todo |-> data[k]])
      BY <2>7, <2>8, <2>9 DEF o
    <2>11. QED
      BY <2>1, <2>2, <2>10 DEF WriteInv
  <1>5. FileInv /\ StageInv
    BY DEF PlotInit, FileInv, StageInv
  <1>6. PointsAreShares
    <2>1. curves = <<>>
      BY DEF PlotInit
    <2>2. DOMAIN <<>> = {}
      OBVIOUS
    <2>3. QED
      BY <2>1, <2>2 DEF PointsAreShares
  <1>7. QED
    BY <1>3, <1>4, <1>5, <1>6 DEF PlotInv

\* An entry is written.
LEMMA PlotInvWriteEntry ==
  ASSUME PlotInv, WriteEntry
  PROVE  PlotInv'
  <1>1. PICK key \in todo :
          /\ str' = str \o <<Name(key), Token(":"), Token("[")>>
                        \o get_vec_str(data[key])
                        \o <<Token("]")>> \o Separator(i)
          /\ todo' = todo \ {key}
    BY DEF WriteEntry
  <1>2. /\ stage = "write" /\ i' = i + 1
        /\ stage' = stage /\ data' = data /\ j' = j /\ curves' = curves
    BY DEF WriteEntry
  <1> DEFINE D == DOMAIN data
             o == [k \in D \ todo |-> data[k]]
             vec == data[key]
             z == str \o <<Name(key), Token(":"), Token("[")>>
                      \o get_vec_str(vec) \o <<Token("]")>>
             w == With(o, key, vec)
  <1>3. /\ todo \subseteq D /\ IsUnended(str) /\ IsString(str)
        /\ i = Cardinality(D) - Cardinality(todo)
        /\ \E old : ReadText(StartReading, str) = Reader(AfterEntries, old, o)
    BY <1>2, UnendedTexts DEF PlotInv, WriteInv
  <1>4. PICK old : ReadText(StartReading, str) = Reader(AfterEntries, old, o)
    BY <1>3
  <1>5. vec \in Seq(Samples) /\ vec # <<>>
    <2>1. vec \in Seq(Samples) /\ 1 < Len(vec)
      BY <1>3 DEF PlotInv, DataInv
    <2>2. QED
      BY <2>1
  <1>6. /\ IsFiniteSet(D) /\ IsFiniteSet(todo)
        /\ Cardinality(D) \in Nat /\ Cardinality(todo) \in Nat
        /\ Cardinality(todo') = Cardinality(todo) - 1
        /\ Cardinality(todo') = 0 <=> todo' = {}
        /\ todo' # D
    <2>1. IsFiniteSet(D)
      BY BenchmarksAssumption, FS_Subset DEF PlotInv, DataInv
    <2>2. IsFiniteSet(todo)
      BY <1>3, <2>1, FS_Subset
    <2>3. /\ IsFiniteSet(todo')
          /\ Cardinality(todo') = Cardinality(todo) - 1
      BY <1>1, <2>2, FS_RemoveElement
    <2>4. QED
      BY <1>1, <1>3, <2>1, <2>2, <2>3, FS_CardinalityType, FS_EmptySet
  <1>7. IsRule(AfterEntries, Name(key), AtColon)
    BY EntryRules DEF AfterEntries
  <1>8. HasEntry(z, str, key, vec)
    BY DEF HasEntry, Colon, Left, Right
  <1>9. str' = z \o Separator(i)
    BY <1>1
  <1>10. w = [k \in D \ todo' |-> data[k]]
    <2>1. DOMAIN o \cup {key} = D \ todo'
      BY <1>1, <1>3
    <2>2. w = [k \in D \ todo' |-> IF k = key THEN vec ELSE o[k]]
      BY <2>1 DEF With
    <2>3. \A k \in D \ todo' : (IF k = key THEN vec ELSE o[k]) = data[k]
      BY <1>1
    <2> HIDE DEF o, w, vec
    <2>4. QED
      BY <2>2, <2>3
  <1> HIDE DEF D, o, vec, z, w
  <1>11. /\ IsString(z) /\ IsUnended(z)
         /\ ReadText(StartReading, z) = Reader(AtEntry, key, w)
    BY <1>3, <1>4, <1>5, <1>7, <1>8, ReadEntry DEF w
  <1>12. /\ IsUnended(str')
         /\ ReadText(StartReading, str') = Reader(AfterEntries', key, w)
    <2>1. CASE todo' = {}
      <3>1. i = Cardinality(D) - 1
        BY <1>3, <1>6, <2>1
      <3>2. Separator(i) = <<>>
        BY <3>1 DEF Separator, D
      <3>3. str' = z
        <4>1. PICK S : z \in Seq(S)
          BY <1>11 DEF IsString
        <4>2. QED
          BY <1>9, <3>2, <4>1
      <3>4. AfterEntries' = AtEntry
        BY <1>2, <1>6, <2>1 DEF AfterEntries, D
      <3>5. QED
        BY <1>11, <3>3, <3>4
    <2>2. CASE todo' # {}
      <3>1. i # Cardinality(D) - 1
        BY <1>3, <1>6, <2>2
      <3>2. Separator(i) = <<Comma>>
        BY <3>1 DEF Separator, D, Comma
      <3>3. ReadToken(Reader(AtEntry, key, w), Comma) = Reader(AtName, key, w)
        BY EntryRules, PlainTokens, ReadPlain
      <3>4. ReadText(Reader(AtEntry, key, w), <<Comma>>) =
              Reader(AtName, key, w)
        BY <3>3, ReadOne
      <3>5. IsString(<<Comma>>) /\ IsUnended(<<Comma>>)
        BY UnendedTexts
      <3>6. str' = z \o <<Comma>>
        BY <1>9, <3>2
      <3>7. AfterEntries' = AtName
        BY <1>2, <1>6, <2>2 DEF AfterEntries, D
      <3> DEFINE last == <<Comma>>
      <3> HIDE DEF last
      <3>8. /\ IsUnended(z \o last)
            /\ ReadText(StartReading, z \o last) =
                 ReadText(Reader(AtEntry, key, w), last)
        BY <1>11, <3>5, ReadJoined, UnendedJoined DEF last
      <3>9. QED
        BY <3>4, <3>6, <3>7, <3>8 DEF last
    <2>3. QED
      BY <2>1, <2>2
  <1>13. WriteInv'
    <2>1. todo' \subseteq D
      BY <1>1, <1>3
    <2>2. i' = Cardinality(D) - Cardinality(todo')
      BY <1>2, <1>3, <1>6
    <2>3. D' = D
      BY <1>2 DEF D
    <2>4. ReadText(StartReading, str') =
            Reader(AfterEntries', key, [k \in D \ todo' |-> data[k]])
      BY <1>10, <1>12
    <2>5. QED
      BY <1>2, <1>12, <2>1, <2>2, <2>4 DEF WriteInv, D
  <1>14. DataInv' /\ FileInv' /\ StageInv' /\ PointsAreShares'
    BY <1>2 DEF PlotInv, DataInv, FileInv, StageInv, PointsAreShares, AtMostX
  <1>15. QED
    BY <1>13, <1>14 DEF PlotInv

\* The text is ended.
LEMMA PlotInvFinishFile ==
  ASSUME PlotInv, FinishFile
  PROVE  PlotInv'
  <1>1. /\ stage = "write" /\ todo = {} /\ str' = Append(str, Token("}"))
        /\ stage' = "read" /\ data' = data /\ j' = j /\ curves' = curves
    BY DEF FinishFile
  <1>2. /\ IsString(str)
        /\ \E key : ReadText(StartReading, str) =
                      Reader(AfterEntries, key,
                             [k \in DOMAIN data \ todo |-> data[k]])
    BY <1>1, UnendedTexts DEF PlotInv, WriteInv
  <1>3. PICK key : ReadText(StartReading, str) =
                     Reader(AfterEntries, key,
                            [k \in DOMAIN data \ todo |-> data[k]])
    BY <1>2
  <1>4. /\ AfterEntries = AtEntry
        /\ [k \in DOMAIN data \ todo |-> data[k]] = data
    BY <1>1 DEF PlotInv, DataInv, AfterEntries
  <1>5. ReadText(StartReading, str) = Reader(AtEntry, key, data)
    BY <1>3, <1>4
  <1>6. str' = str \o <<End>>
    <2>1. PICK S : str \in Seq(S)
      BY <1>2 DEF IsString
    <2>2. str \in Seq(S \cup {End}) /\ End \in S \cup {End}
      BY <2>1
    <2>3. str' = Append(str, End)
      BY <1>1 DEF End
    <2>4. QED
      BY <2>2, <2>3
  <1>7. ReadText(Reader(AtEntry, key, data), <<End>>) = Reader(AtEnd, key, data)
    <2>1. ReadToken(Reader(AtEntry, key, data), End) = Reader(AtEnd, key, data)
      BY EntryRules, PlainTokens, ReadPlain
    <2>2. QED
      BY <2>1, ReadOne
  <1>8. ReadText(StartReading, str') = Reader(AtEnd, key, data)
    <2> DEFINE last == <<End>>
    <2>1. IsString(last)
      BY ShortStrings
    <2>2. str' = str \o last
      BY <1>6
    <2>3. ReadText(Reader(AtEntry, key, data), last) = Reader(AtEnd, key, data)
      BY <1>7
    <2> HIDE DEF last
    <2>4. QED
      BY <1>2, <1>5, <2>1, <2>2, <2>3, ReadJoined
  <1>9. FileInv' /\ WriteInv'
    BY <1>1, <1>8 DEF FileInv, WriteInv
  <1>10. DataInv' /\ PointsAreShares'
    <2>1. data' = data /\ curves' = curves
      BY <1>1
    <2>2. QED
      BY <2>1 DEF PlotInv, DataInv, PointsAreShares, AtMostX
  <1>11. StageInv'
    BY <1>1 DEF PlotInv, StageInv
  <1>12. QED
    BY <1>9, <1>10, <1>11 DEF PlotInv

\* Only the beginning of it is written.
LEMMA PlotInvTruncateFile ==
  ASSUME PlotInv, TruncateFile
  PROVE  PlotInv'
  <1>1. /\ stage = "write" /\ stage' = "read"
        /\ data' = data /\ j' = j /\ curves' = curves
    BY DEF TruncateFile
  <1>2. PICK length \in 0 .. Len(str) : str' = SubSeq(str, 1, length)
    BY DEF TruncateFile
  <1>3. IsUnended(str')
    BY <1>1, <1>2, UnendedPart DEF PlotInv, WriteInv
  <1>4. FileInv' /\ WriteInv'
    BY <1>1, <1>3 DEF FileInv, WriteInv
  <1>5. DataInv' /\ PointsAreShares'
    <2>1. data' = data /\ curves' = curves
      BY <1>1
    <2>2. QED
      BY <2>1 DEF PlotInv, DataInv, PointsAreShares, AtMostX
  <1>6. StageInv'
    BY <1>1 DEF PlotInv, StageInv
  <1>7. QED
    BY <1>4, <1>5, <1>6 DEF PlotInv

\* The text is read, and the results are back, or it is refused.
LEMMA PlotInvReadFile ==
  ASSUME PlotInv, ReadFile
  PROVE  PlotInv'
  <1>1. stage = "read"
    BY DEF ReadFile
  <1> DEFINE r == ReadText(StartReading, str)
  <1>2. \/ r.state = "end" /\ r.object = data
        \/ r.state # "end" /\ IsUnended(str)
    <2>1. CASE \E key : r = Reader(AtEnd, key, data)
      BY <2>1 DEF Reader, AtEnd
    <2>2. CASE IsUnended(str)
      <3>1. IsOpen(r)
        BY <2>2, UnendedIsOpen
      <3> HIDE DEF r
      <3>2. QED
        BY <2>2, <3>1 DEF IsOpen
    <2>3. QED
      BY <1>1, <2>1, <2>2 DEF PlotInv, FileInv
  <1>3. /\ \/ r.state = "end" /\ stage' = "plot" /\ j' = r.object
           \/ r.state # "end" /\ stage' = "failed" /\ j' = j
        /\ str' = str /\ data' = data /\ curves' = curves
    BY DEF ReadFile
  <1> HIDE DEF r
  <1>4. /\ \/ stage' = "plot" /\ j' = data
           \/ stage' = "failed" /\ IsUnended(str')
        /\ data' = data /\ curves' = curves
    BY <1>2, <1>3
  <1>5. FileInv' /\ WriteInv'
    BY <1>4 DEF FileInv, WriteInv
  <1>6. DataInv' /\ PointsAreShares'
    BY <1>4 DEF PlotInv, DataInv, PointsAreShares, AtMostX
  <1>7. StageInv'
    BY <1>1, <1>4 DEF PlotInv, StageInv
  <1>8. QED
    BY <1>5, <1>6, <1>7 DEF PlotInv

\* Of the samples without the first as many are at most x.
LEMMA SharesOfTail ==
  ASSUME DataInv, NEW key \in DOMAIN data, NEW s, s = Tail(data[key])
  PROVE  /\ s \in Seq(Int) /\ s # <<>>
         /\ \A x : AtMostX(key, x) = UpTo(s, x)
         /\ \A k \in 2 .. Len(data[key]) : data[key][k] \in Range(s)
  <1> DEFINE vec == data[key]
             L == Len(vec)
  <1>1. vec \in Seq(Samples) /\ L \in Nat /\ 1 < L
    BY DEF DataInv
  <1>2. vec \in Seq(Int)
    <2> HIDE DEF vec
    <2>1. vec \in [1 .. L -> Samples]
      BY <1>1
    <2>2. vec \in [1 .. L -> Int]
      BY <2>1, ValuesAssumption
    <2> HIDE DEF L
    <2>3. QED
      BY <1>1, <2>2
  <1> HIDE DEF vec
  <1>3. /\ s \in Seq(Int) /\ Len(s) = L - 1 /\ DOMAIN s = 1 .. L - 1
        /\ \A k \in 1 .. L - 1 : s[k] = vec[k + 1]
    BY <1>1, <1>2 DEF vec
  <1> HIDE DEF L
  <1>4. s # <<>>
    <2>1. Len(s) # 0 /\ Len(<<>>) = 0
      BY <1>1, <1>3
    <2>2. QED
      BY <2>1
  <1>5. ASSUME NEW x
        PROVE  AtMostX(key, x) = UpTo(s, x)
    <2> DEFINE A == {k \in 2 .. L : vec[k] <= x}
               B == {k \in 1 .. L - 1 : s[k] <= x}
               f == [k \in A |-> k - 1]
    <2>1. A \in SUBSET (2 .. L) /\ IsFiniteSet(2 .. L)
      BY <1>1, FS_Interval
    <2>2. IsFiniteSet(A)
      BY <2>1, FS_Subset
    <2>3. \A k \in A : k - 1 \in B
      <3> TAKE k \in A
      <3>1. k \in 2 .. L /\ vec[k] <= x
        OBVIOUS
      <3>2. k - 1 \in 1 .. L - 1 /\ (k - 1) + 1 = k
        BY <1>1, <3>1
      <3>3. s[k - 1] = vec[k]
        BY <1>3, <3>2
      <3>4. QED
        BY <3>1, <3>2, <3>3
    <2>4. \A k \in B : k + 1 \in A
      BY <1>1, <1>3
    <2>5. A \subseteq Int /\ B \subseteq Int
      BY <1>1
    <2> HIDE DEF A, B
    <2>6. f \in Bijection(A, B)
      <3>1. f \in [A -> B]
        BY <2>3
      <3>2. \A a, b \in A : f[a] = f[b] => a = b
        BY <2>5
      <3>3. \A b \in B : \E a \in A : f[a] = b
        <4> TAKE b \in B
        <4>1. b + 1 \in A /\ (b + 1) - 1 = b
          BY <2>4, <2>5
        <4>2. QED
          BY <4>1
      <3> HIDE DEF f
      <3>4. QED
        BY <3>1, <3>2, <3>3 DEF Bijection, Injection, Surjection, IsInjective
    <2>7. ExistsBijection(A, B)
      BY <2>6 DEF ExistsBijection
    <2>8. Cardinality(A) = Cardinality(B)
      BY <2>2, <2>7, FS_Bijection
    <2>9. AtMostX(key, x) = Cardinality(A)
      BY DEF AtMostX, A, L, vec
    <2>10. UpTo(s, x) = Cardinality(B)
      BY <1>3 DEF UpTo, B
    <2>11. QED
      BY <2>8, <2>9, <2>10
  <1>6. ASSUME NEW k \in 2 .. L
        PROVE  vec[k] \in Range(s)
    <2>1. k - 1 \in 1 .. L - 1 /\ (k - 1) + 1 = k
      BY <1>1
    <2>2. s[k - 1] = vec[k]
      BY <1>3, <2>1
    <2>3. QED
      BY <1>3, <2>1, <2>2 DEF Range
  <1>7. QED
    BY <1>3, <1>4, <1>5, <1>6 DEF L, vec

\* The axis ends at one of the samples.
LEMMA AxisEnds ==
  ASSUME NEW f, IsFamily(f), DOMAIN f # {}
  PROVE  PercentileHigher(f, AxisPercent) \in Int
  <1> DEFINE c == Cardinality(DOMAIN f)
             k == (AxisPercent * (c - 1) + 99) \div 100 + 1
  <1>1. c \in Nat /\ c # 0
    BY FS_CardinalityType, FS_EmptySet DEF IsFamily
  <1> HIDE DEF c
  <1>2. k \in 1 .. c
    <2> DEFINE p == AxisPercent * (c - 1)
    <2>1. p \in Nat /\ p <= 100 * (c - 1)
      BY <1>1, PercentAssumption
    <2> HIDE DEF p
    <2>2. QED
      BY <1>1, <2>1 DEF p
  <1>3. PercentileHigher(f, AxisPercent) = Ranked(f, k)
    BY DEF PercentileHigher, c
  <1> HIDE DEF k
  <1>4. IsRanked(f, k, Ranked(f, k))
    BY <1>2, RankedExists DEF c
  <1>5. QED
    BY <1>3, <1>4 DEF IsRanked, IsFamily, Range

\* The curves are drawn.
LEMMA PlotInvStackedHist ==
  ASSUME PlotInv, StackedHist
  PROVE  PlotInv'
  <1>1. /\ stage = "plot" /\ stage' = "plotted"
        /\ data' = data /\ j' = j
    BY DEF StackedHist
  <1>2. j = data
    BY <1>1 DEF PlotInv, StageInv
  <1> DEFINE Indices(names) == UNION {{in_fn} \X DOMAIN sorted_us(in_fn) :
                                       in_fn \in names}
             All(names) == [p \in Indices(names) |-> sorted_us(p[1])[p[2]]]
             Axis(names) == PercentileHigher(All(names), AxisPercent)
  <1>3. PICK filenames \in (SUBSET DOMAIN data) \ {{}} :
          curves' = [in_fn \in filenames |->
                       get_cdf(sorted_us(in_fn), Axis(filenames))]
    BY <1>2 DEF StackedHist
  <1> DEFINE I == Indices(filenames)
             all == All(filenames)
             m == Axis(filenames)
  <1>4. ASSUME NEW key \in DOMAIN data
        PROVE  /\ sorted_us(key) = Sorted(Tail(data[key]))
               /\ Tail(data[key]) \in Seq(Int) /\ Tail(data[key]) # <<>>
               /\ \A x : AtMostX(key, x) = UpTo(Tail(data[key]), x)
               /\ \A k \in 2 .. Len(data[key]) :
                    data[key][k] \in Range(Tail(data[key]))
    <2> DEFINE s == Tail(data[key])
    <2>1. sorted_us(key) = Sorted(s)
      BY <1>2 DEF sorted_us
    <2> HIDE DEF s
    <2>2. /\ s \in Seq(Int) /\ s # <<>>
          /\ \A x : AtMostX(key, x) = UpTo(s, x)
          /\ \A k \in 2 .. Len(data[key]) : data[key][k] \in Range(s)
      BY SharesOfTail DEF s, PlotInv
    <2>3. QED
      BY <2>1, <2>2 DEF s
  <1>5. ASSUME NEW key \in filenames
        PROVE  /\ IsFiniteSet(DOMAIN sorted_us(key))
               /\ DOMAIN sorted_us(key) # {}
               /\ \A k \in DOMAIN sorted_us(key) : sorted_us(key)[k] \in Int
    <2> DEFINE s == Tail(data[key])
    <2>1. s \in Seq(Int) /\ s # <<>> /\ sorted_us(key) = Sorted(s)
      BY <1>3, <1>4
    <2> HIDE DEF s
    <2>2. 0 \in Int /\ Len(s) \in Nat /\ Len(s) # 0
      BY <2>1
    <2>3. /\ DOMAIN Sorted(s) = 1 .. Len(s)
          /\ \A k \in 1 .. Len(s) : Sorted(s)[k] \in Int
      BY <2>1, <2>2, SortedInOrder
    <2>4. IsFiniteSet(1 .. Len(s)) /\ 1 \in 1 .. Len(s)
      BY <2>2, FS_Interval
    <2>5. QED
      BY <2>1, <2>3, <2>4
  <1>6. IsFiniteSet(I) /\ I # {}
    <2> DEFINE Pairs(key) == {key} \X DOMAIN sorted_us(key)
               P == {Pairs(key) : key \in filenames}
    <2>1. IsFiniteSet(filenames)
      <3>1. filenames \in SUBSET Benchmarks
        BY <1>3 DEF PlotInv, DataInv
      <3>2. QED
        BY <3>1, BenchmarksAssumption, FS_Subset
    <2>2. \A key \in filenames : IsFiniteSet(Pairs(key))
      BY <1>5, FS_Singleton, FS_Product
    <2>3. IsFiniteSet(P)
      <3> DEFINE g == [key \in filenames |-> Pairs(key)]
      <3>1. g \in Surjection(filenames, P)
        BY DEF Surjection
      <3> HIDE DEF g, P
      <3>2. QED
        BY <2>1, <3>1, FS_Surjection
    <2>4. \A T \in P : IsFiniteSet(T)
      BY <2>2
    <2>5. I = UNION P
      OBVIOUS
    <2>6. IsFiniteSet(I)
      <3> HIDE DEF P, I
      <3>1. QED
        BY <2>3, <2>4, <2>5, FS_UNION
    <2>7. I # {}
      <3>1. PICK key : key \in filenames
        BY <1>3
      <3>2. PICK k : k \in DOMAIN sorted_us(key)
        BY <1>5, <3>1
      <3>3. <<key, k>> \in I
        BY <3>1, <3>2
      <3>4. QED
        BY <3>3
    <2>8. QED
      BY <2>6, <2>7
  <1>7. \A p \in I : all[p] \in Int
    <2> TAKE p \in I
    <2>1. PICK key \in filenames : p \in {key} \X DOMAIN sorted_us(key)
      OBVIOUS
    <2>2. p[1] = key /\ p[2] \in DOMAIN sorted_us(key)
      BY <2>1
    <2>3. all[p] = sorted_us(key)[p[2]]
      BY <2>2
    <2>4. QED
      BY <1>5, <2>2, <2>3
  <1>8. IsFamily(all) /\ DOMAIN all # {}
    <2>1. DOMAIN all = I
      OBVIOUS
    <2> HIDE DEF all, I
    <2>2. QED
      BY <1>6, <1>7, <2>1 DEF IsFamily
  <1>9. m \in Int
    <2>1. m = PercentileHigher(all, AxisPercent)
      OBVIOUS
    <2> HIDE DEF m, all
    <2>2. QED
      BY <1>8, <2>1, AxisEnds
  <1>10. curves' = [in_fn \in filenames |-> get_cdf(sorted_us(in_fn), m)]
    BY <1>3
  <1> HIDE DEF m, all, I, Indices, All, Axis
  <1>11. ASSUME NEW in_fn \in filenames,
                NEW points, points = Range(Tail(curves'[in_fn]))
         PROVE  /\ \A point \in points : point.y = AtMostX(in_fn, point.x)
                /\ \A k \in 2 .. Len(data[in_fn]) :
                     \E point \in points : point.x = data[in_fn][k]
    <2> DEFINE s == Tail(data[in_fn])
    <2>1. /\ sorted_us(in_fn) = Sorted(s)
          /\ s \in Seq(Int) /\ s # <<>>
          /\ \A x : AtMostX(in_fn, x) = UpTo(s, x)
          /\ \A k \in 2 .. Len(data[in_fn]) : data[in_fn][k] \in Range(s)
      BY <1>3, <1>4
    <2> HIDE DEF s
    <2>2. points = Range(Tail(get_cdf(Sorted(s), m)))
      BY <1>10, <1>11, <2>1
    <2>3. /\ \A p \in points : p.y = UpTo(s, p.x)
          /\ \A x \in Range(s) : \E p \in points : p.x = x
      BY <1>9, <2>1, <2>2, CurveIsWhole
    <2>4. QED
      BY <2>1, <2>3
  <1>12. PointsAreShares'
    <2>1. DOMAIN curves' = filenames
      BY <1>10
    <2>2. \A in_fn, x : AtMostX(in_fn, x)' = AtMostX(in_fn, x)
      BY <1>1 DEF AtMostX
    <2>3. QED
      BY <1>1, <1>11, <2>1, <2>2 DEF PointsAreShares
  <1>13. DataInv' /\ WriteInv' /\ FileInv'
    BY <1>1 DEF PlotInv, DataInv, WriteInv, FileInv
  <1>14. StageInv'
    BY <1>1, <1>2 DEF StageInv
  <1>15. QED
    BY <1>12, <1>13, <1>14 DEF PlotInv

\* No step breaks it.
LEMMA PlotInvNext == PlotInv /\ [PlotNext]_plotVars => PlotInv'
  <1> SUFFICES ASSUME PlotInv, [PlotNext]_plotVars
               PROVE  PlotInv'
    OBVIOUS
  <1>1. CASE UNCHANGED plotVars
    <2>1. /\ stage' = stage /\ data' = data /\ todo' = todo /\ i' = i
          /\ str' = str /\ j' = j /\ curves' = curves
      BY <1>1 DEF plotVars
    <2>2. DataInv' /\ PointsAreShares'
      BY <2>1 DEF PlotInv, DataInv, PointsAreShares, AtMostX
    <2>3. StageInv'
      BY <2>1 DEF PlotInv, StageInv
    <2>4. FileInv'
      BY <2>1 DEF PlotInv, FileInv
    <2>5. WriteInv'
      BY <2>1 DEF PlotInv, WriteInv, AfterEntries
    <2>6. QED
      BY <2>2, <2>3, <2>4, <2>5 DEF PlotInv
  <1>2. CASE WriteEntry
    BY <1>2, PlotInvWriteEntry
  <1>3. CASE FinishFile
    BY <1>3, PlotInvFinishFile
  <1>4. CASE ReadFile
    BY <1>4, PlotInvReadFile
  <1>8. CASE TruncateFile
    BY <1>8, PlotInvTruncateFile
  <1>5. CASE StackedHist
    BY <1>5, PlotInvStackedHist
  <1>6. CASE PlotTerminating
    BY <1>1, <1>6 DEF PlotTerminating
  <1>7. QED
    BY <1>1, <1>2, <1>3, <1>4, <1>5, <1>6, <1>8 DEF PlotNext

\* The text json_write() has written so far can always be read as the entries
\* it has written, and the curves show the samples.
THEOREM PlotInvariance == PlotSpec => []PlotInv
  BY PlotInvAtInit, PlotInvNext, PTL DEF PlotSpec

\* json.load() reads what json_write() has written, in whatever order it is,
\* and refuses a file that has lost its end, but no other.
THEOREM ResultsReadBack == PlotSpec => []FileReadsBack
  <1>1. PlotInv => FileReadsBack
    <2> SUFFICES ASSUME PlotInv PROVE FileReadsBack
      OBVIOUS
    <2>1. stage \in {"plot", "plotted"} => j = data
      BY DEF PlotInv, StageInv
    <2>2. ASSUME stage = "failed", NEW k \in DOMAIN str
          PROVE  str[k] # Token("}")
      <3>1. PICK S : str \in Seq(S) /\ \A e \in S : ~IsEnd(e)
        BY <2>2 DEF PlotInv, FileInv, IsUnended
      <3>2. str[k] \in S
        BY <2>2, <3>1
      <3>3. IsEnd(Token("}"))
        BY OtherTokens DEF End
      <3>4. QED
        BY <3>1, <3>2, <3>3
    <2>3. QED
      BY <2>1, <2>2 DEF FileReadsBack
  <1>2. QED
    BY <1>1, PlotInvariance, PTL

\* The points get_cdf() makes are the shares of the samples, and all of them.
THEOREM CurvesAreShares == PlotSpec => []PointsAreShares
  <1>1. PlotInv => PointsAreShares
    BY DEF PlotInv
  <1>2. QED
    BY <1>1, PlotInvariance, PTL

\* get_50th_percentile() splits any samples in two halves.
THEOREM MedianInTheMiddle == PlotSpec => []MedianSplits
  <1>1. ASSUME PlotInv
        PROVE  MedianSplits
    <2> SUFFICES ASSUME NEW key \in DOMAIN data,
                        NEW vec, vec = data[key],
                        NEW median, median = get_50th_percentile(vec)
                 PROVE  /\ \E k \in DOMAIN vec : vec[k] = median
                        /\ 2 * Cardinality({k \in DOMAIN vec : vec[k] < median})
                             <= Len(vec)
                        /\ 2 * Cardinality({k \in DOMAIN vec : vec[k] > median})
                             < Len(vec)
      BY DEF MedianSplits
    <2>1. vec \in Seq(Samples) /\ 1 < Len(vec)
      BY <1>1 DEF PlotInv, DataInv
    <2>2. vec \in Seq(Int) /\ vec # <<>>
      <3> DEFINE L == Len(vec)
      <3>1. vec \in [1 .. L -> Samples] /\ L \in Nat /\ 1 < L
        BY <2>1
      <3>2. vec \in [1 .. L -> Int]
        <4> HIDE DEF L
        <4>1. QED
          BY <3>1, ValuesAssumption
      <3>3. Len(vec) # 0 /\ Len(<<>>) = 0
        BY <3>1
      <3>4. vec # <<>>
        BY <3>3
      <3> HIDE DEF L
      <3>5. QED
        BY <3>1, <3>2, <3>4
    <2>3. QED
      BY <2>2, MedianIsRanked DEF Range
  <1>2. QED
    BY <1>1, PlotInvariance, PTL
=============================================================================
