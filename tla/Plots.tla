-------------------------------- MODULE Plots --------------------------------
(***************************************************************************)
(* The way of the results to the plots: json_write() turns them into text, *)
(* one entry after another in the order of an unordered_map, plot.py reads *)
(* the text and draws a curve for each benchmark.                          *)
(*                                                                         *)
(* A text is a sequence of tokens; spaces and line ends are left out.      *)
(***************************************************************************)
EXTENDS Statistics

CONSTANTS Benchmarks,   \* descriptions that may be in the results
          SampleCounts, \* samples per benchmark
          Samples,      \* values of a sample
          AxisPercent   \* percentile the axis ends at, 99 in the code

ASSUME BenchmarksAssumption == IsFiniteSet(Benchmarks)
ASSUME SampleCountsAssumption == SampleCounts \subseteq Nat \ {0, 1}
ASSUME ValuesAssumption == Samples \subseteq Int
ASSUME PercentAssumption == AxisPercent \in 0 .. 100

VARIABLES stage,    \* next step
          data,     \* the results, serialize_type
          todo,     \* entries of data not yet written
          i,        \* local of json_write(): entries written
          str,      \* local of json_write(), then the file
          j,        \* what plot.py has read
          curves    \* what it has drawn

plotVars == <<stage, data, todo, i, str, j, curves>>

Token(kind) == [kind |-> kind]
Name(key) == [kind |-> "name", value |-> key]
Number(sample) == [kind |-> "number", value |-> sample]

NotRead == [error |-> "not read"]

PlotInit ==
    /\ stage = "write"
    /\ \E keys \in (SUBSET Benchmarks) \ {{}}, n \in SampleCounts :
           data \in [keys -> [1 .. n -> Samples]]
    /\ todo = DOMAIN data
    /\ i = 0
    /\ str = <<Token("{")>>
    /\ j = NotRead
    /\ curves = <<>>

\* Mutant: the comma comes after each number.
get_vec_str_trailing(vec) ==
    [k \in 1 .. 2 * Len(vec) |->
       IF k % 2 = 0 THEN Token(",") ELSE Number(vec[(k + 1) \div 2])]

\* get_vec_str(): a comma before each number but the first
get_vec_str(vec) ==
    [k \in 1 .. 2 * Len(vec) - 1 |->
       IF k % 2 = 0 THEN Token(",") ELSE Number(vec[(k + 1) \div 2])]

\* Mutant: the last entry is taken for one with a successor.
SeparatorAlways(entry) == <<Token(",")>>

\* A comma after each entry but the last.
Separator(entry) ==
    IF entry # Cardinality(DOMAIN data) - 1 THEN <<Token(",")>> ELSE <<>>

\* One iteration of json_write(), for any of the entries that are left.
WriteEntry ==
    /\ stage = "write"
    /\ \E key \in todo :
           /\ str' = str \o <<Name(key), Token(":"), Token("[")>>
                         \o get_vec_str(data[key])
                         \o <<Token("]")>> \o Separator(i)
           /\ todo' = todo \ {key}
    /\ i' = i + 1
    /\ UNCHANGED <<stage, data, j, curves>>

\* The end of json_write(), for a file that can be opened: it has the text
FinishFile ==
    /\ stage = "write"
    /\ todo = {}
    /\ stage' = "read"
    /\ str' = Append(str, Token("}"))
    /\ UNCHANGED <<data, todo, i, j, curves>>

\* ... or the beginning of it, since nobody looks whether it was written.
TruncateFile ==
    /\ stage = "write"
    /\ todo = {}
    /\ stage' = "read"
    /\ \E length \in 0 .. Len(str) : str' = SubSeq(str, 1, length)
    /\ UNCHANGED <<data, todo, i, j, curves>>
-----------------------------------------------------------------------------
(* json.load() *)

\* The grammar of JSON for an object of arrays of numbers: in which state of
\* the reader which token may come, and the state it leads to.
Grammar == {
    <<"start", "{", "object">>,
    <<"object", "}", "end">>,
    <<"object", "name", "colon">>,
    <<"next name", "name", "colon">>,
    <<"colon", ":", "value">>,
    <<"value", "[", "array">>,
    <<"array", "]", "entry">>,
    <<"array", "number", "number">>,
    <<"number", "]", "entry">>,
    <<"number", ",", "next number">>,
    <<"next number", "number", "number">>,
    <<"entry", "}", "end">>,
    <<"entry", ",", "next name">>}

\* A reader r is [state, key, object].
ReadToken(r, token) ==
    LET states == {rule[3] : rule \in {g \in Grammar : g[1] = r.state
                                               /\ g[2] = token.kind}}
    IN IF states = {} THEN [r EXCEPT !.state = "error"]
       ELSE [state |-> CHOOSE state \in states : TRUE,
             key |-> IF token.kind = "name" THEN token.value ELSE r.key,
             object |->
               CASE token.kind = "[" ->
                      [k \in DOMAIN r.object \cup {r.key} |->
                         IF k = r.key THEN <<>> ELSE r.object[k]]
                 [] token.kind = "number" ->
                      [r.object EXCEPT ![r.key] = Append(@, token.value)]
                 [] OTHER -> r.object]

\* The reader before a file, and after more of its text.
StartReading == [state |-> "start", key |-> "none", object |-> <<>>]

ReadText(r, text) ==
    LET reader[k \in 0 .. Len(text)] ==
            IF k = 0 THEN r ELSE ReadToken(reader[k - 1], text[k])
    IN reader[Len(text)]

\* plot.py ends with an error when the text is not JSON.
ReadFile ==
    LET r == ReadText(StartReading, str)
    IN /\ stage = "read"
       /\ \/ r.state = "end" /\ stage' = "plot" /\ j' = r.object
          \/ r.state # "end" /\ stage' = "failed" /\ UNCHANGED j
       /\ UNCHANGED <<data, todo, i, str, curves>>
-----------------------------------------------------------------------------
\* Mutant: the first sample is not tossed.
sorted_us_all(in_fn) == Sorted(j[in_fn])

\* sorted_us_datas, without the first sample
sorted_us(in_fn) == Sorted(Tail(j[in_fn]))

\* stacked_hist(): the curves of some benchmarks, whose axis ends at a
\* percentile of all their samples together.
StackedHist ==
    /\ stage = "plot"
    /\ stage' = "plotted"
    /\ \E filenames \in (SUBSET DOMAIN j) \ {{}} :
         LET indices == UNION {{in_fn} \X DOMAIN sorted_us(in_fn) :
                                 in_fn \in filenames}
             all == [p \in indices |-> sorted_us(p[1])[p[2]]]
             max_x_range == PercentileHigher(all, AxisPercent)
         IN curves' = [in_fn \in filenames |->
                         get_cdf(sorted_us(in_fn), max_x_range)]
    /\ UNCHANGED <<data, todo, i, str, j>>

PlotTerminating ==
    /\ stage \in {"plotted", "failed"}
    /\ UNCHANGED plotVars

PlotNext ==
    \/ WriteEntry \/ FinishFile \/ TruncateFile
    \/ ReadFile \/ StackedHist \/ PlotTerminating

PlotSpec == PlotInit /\ [][PlotNext]_plotVars
-----------------------------------------------------------------------------
(* Properties *)

\* What plot.py reads are the results, in whatever order they were written: it
\* never takes the beginning of a file for results, and refuses no file but
\* one that has lost its end.
FileReadsBack ==
    /\ stage \in {"plot", "plotted"} => j = data
    /\ stage = "failed" => \A k \in DOMAIN str : str[k] # Token("}")

\* How many samples, without the one that is tossed, are at most x.
AtMostX(in_fn, x) ==
    Cardinality({k \in 2 .. Len(data[in_fn]) : data[in_fn][k] <= x})

\* "Probability of values <= x": each point of a curve but the origin has the
\* share of the samples that are at most x, the samples tossed are left out
\* in both, and every sample is a point.
PointsAreShares ==
    \A in_fn \in DOMAIN curves :
        LET points == Range(Tail(curves[in_fn]))
        IN /\ \A point \in points : point.y = AtMostX(in_fn, point.x)
           /\ \A k \in 2 .. Len(data[in_fn]) :
                \E point \in points : point.x = data[in_fn][k]

\* A cumulative distribution function never goes back.
CurvesRise ==
    \A in_fn \in DOMAIN curves :
        \A k \in 1 .. Len(curves[in_fn]) - 1 :
            /\ curves[in_fn][k].x <= curves[in_fn][k + 1].x
            /\ curves[in_fn][k].y <= curves[in_fn][k + 1].y

\* The median of any samples: no more than half are below it, and fewer than
\* half are above.
MedianSplits ==
    \A key \in DOMAIN data :
        LET vec == data[key]
            median == get_50th_percentile(vec)
        IN /\ \E k \in DOMAIN vec : vec[k] = median
           /\ 2 * Cardinality({k \in DOMAIN vec : vec[k] < median}) <= Len(vec)
           /\ 2 * Cardinality({k \in DOMAIN vec : vec[k] > median}) < Len(vec)
=============================================================================
