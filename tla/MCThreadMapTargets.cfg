CONSTANTS
    CoreCounts = {4}
    Latencies = {1}
SPECIFICATION Spec
INVARIANT OffMeasuredCores
