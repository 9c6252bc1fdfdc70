CONSTANTS
    Sessions = {0, 1}
    Iterations = 2
    DocCounts = {0, 1}
    AliasCounts = {1}
    ClockReadings <- MonotonicFineClock
    LatencySamples <- MCLatencySamples
SPECIFICATION Spec
CHECK_DEADLOCK FALSE
INVARIANT FailureDoesNotAbortOthers
