CONSTANTS
    Sessions = {0, 1, 2}
    Iterations = 2
    DocCounts = {0, 1}
    AliasCounts = {0, 1}
    ClockReadings <- MonotonicFineClock
    LatencySamples <- MCLatencySamples
SPECIFICATION Spec
CHECK_DEADLOCK FALSE
INVARIANTS
    TypeOK
    ReportCountsEveryCall
    PercentilesWithinRange
PROPERTIES
    ProcessExits
