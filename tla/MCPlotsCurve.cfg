CONSTANTS
    Benchmarks = {"contention_mutex", "contention_atomic_add"}
    SampleCounts = {2}
    Samples = {1, 3}
    AxisPercent = 99
SPECIFICATION PlotSpec
INVARIANT CurvesRise
