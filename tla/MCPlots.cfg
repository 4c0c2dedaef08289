CONSTANTS
    Benchmarks = {"contention_mutex", "contention_atomic_add"}
    SampleCounts = {2, 3, 4}
    Samples = {0, 1, 3}
    AxisPercent = 75
SPECIFICATION PlotSpec
INVARIANTS
    FileReadsBack
    PointsAreShares
    MedianSplits
