----------------------------- MODULE Statistics -----------------------------
(***************************************************************************)
(* What is computed from the samples: the median of a cell of the thread   *)
(* map, and the curves of the plots.                                       *)
(*                                                                         *)
(* A share of all samples is the number of samples in it, so that 100 % is *)
(* their number; the division of the times by 1000 is left out.            *)
(***************************************************************************)
EXTENDS Integers, FiniteSets, Functions, Sequences, SequencesExt,
        FiniteSetsExt

\* How many values of f are less than x, and at most x.
Below(f, x) == Cardinality({k \in DOMAIN f : f[k] < x})
UpTo(f, x) == Cardinality({k \in DOMAIN f : f[k] <= x})

\* The value of f that is the k-th when they are put in order.
Ranked(f, k) == CHOOSE x \in Range(f) : Below(f, x) < k /\ k <= UpTo(f, x)

\* std::ranges::sort() and np.sort()
Sorted(s) == [k \in DOMAIN s |-> Ranked(s, k)]

\* Mutant: the value below the middle.
get_50th_percentile_below(vec) == Sorted(vec)[Len(vec) \div 2]

\* get_50th_percentile(): indices count from 0 in the code
get_50th_percentile(vec) == Sorted(vec)[Len(vec) \div 2 + 1]

\* np.percentile(f, percent, interpolation="higher")
PercentileHigher(f, percent) ==
    LET last == Cardinality(DOMAIN f) - 1
    IN Ranked(f, (percent * last + 99) \div 100 + 1)

\* np.unique(): the values without repetition
Unique(sorted) ==
    LET values == [x \in Range(sorted) |-> x]
    IN [k \in 1 .. Cardinality(DOMAIN values) |-> Ranked(values, k)]

\* Mutant: the first index of a value, not the last.
CdfOfFirst(sorted) ==
    LET Occurrences(x) == {k \in DOMAIN sorted : sorted[k] = x}
        new_x == Unique(sorted)
    IN [k \in DOMAIN new_x |->
          [x |-> new_x[k], y |-> Min(Occurrences(new_x[k]))]]

\* The values without repetition, each with the position of its
\* last occurrence: the first one's and the number of the others.
CdfOfUnique(sorted) ==
    LET Occurrences(x) == {k \in DOMAIN sorted : sorted[k] = x}
        new_x == Unique(sorted)
    IN [k \in DOMAIN new_x |->
          [x |-> new_x[k],
           y |-> Min(Occurrences(new_x[k]))
                 + Cardinality(Occurrences(new_x[k])) - 1]]

\* get_cdf(): the curve begins at the origin, and is continued to the end of
\* the axis; np.insert() puts that point before the last one.
get_cdf(sorted, max_x_range) ==
    LET curve == <<[x |-> 0, y |-> 0]>> \o CdfOfUnique(sorted)
    IN IF max_x_range > Last(curve).x
       THEN InsertAt(curve, Len(curve), [x |-> max_x_range, y |-> Len(sorted)])
       ELSE curve
=============================================================================
