---------------------------- MODULE LatencyStats ----------------------------
(***************************************************************************)
(* The latency statistics run_concurrent_test reports (perf-claude/        *)
(* load-tests/concurrent_load_test.py, lines 166-179) over all_latencies,  *)
(* the positive latencies of every session.  Every statistic reported is  *)
(* independent of the order of the list (statistics.median and            *)
(* statistics.quantiles sort it first), so a sample is the list in sorted  *)
(* order.  Latencies are small positive integers; a statistic is returned  *)
(* multiplied by Scale, the common denominator of the median (/ 2) and of *)
(* the 20- and 100-quantiles, so every value is exact.                     *)
(***************************************************************************)
EXTENDS Integers, Sequences

CONSTANT LatencySamples   \* sorted non-empty lists of positive latencies

Scale == 100

\* statistics.quantiles(data, n=n), method "exclusive" (the default): the
\* i-th cut point, times n.  j is clamped to 1 .. len - 1 and delta may then
\* leave 0 .. n, which is how the method extrapolates on short lists.
CutPoint(data, n, i) ==
    LET ld == Len(data)
        m == ld + 1
        j0 == (i * m) \div n
        j == IF j0 < 1 THEN 1 ELSE IF j0 > ld - 1 THEN ld - 1 ELSE j0
        delta == i * m - j * n
    IN  data[j] * (n - delta) + data[j + 1] * delta

\* Lines 173-174: min and max of the list.
LatencyMin(data) == data[1] * Scale
LatencyMax(data) == data[Len(data)] * Scale

\* Line 176, statistics.median: the middle value, or the mean of the two middle ones.
LatencyMedian(data) ==
    LET ld == Len(data)
    IN  IF ld % 2 = 1 THEN data[(ld + 1) \div 2] * Scale
        ELSE (data[ld \div 2] + data[ld \div 2 + 1]) * (Scale \div 2)

\* Line 178: quantiles(n=20)[18] if len(all_latencies) > 20 else max.
LatencyP95(data) ==
    IF Len(data) > 20 THEN CutPoint(data, 20, 19) * (Scale \div 20)
    ELSE LatencyMax(data)

\* Mutant: the two guards swapped (p99 computed once there are 21 values).
LatencyP99GuardOfP95(data) ==
    IF Len(data) > 20 THEN CutPoint(data, 100, 99) * (Scale \div 100)
    ELSE LatencyMax(data)

\* Line 179: quantiles(n=100)[98] if len(all_latencies) > 100 else max.
LatencyP99(data) ==
    IF Len(data) > 100 THEN CutPoint(data, 100, 99) * (Scale \div 100)
    ELSE LatencyMax(data)

\* The order the report's names promise, on every sample: a constant,
\* evaluated once.
ReportOrdered ==
    \A data \in LatencySamples :
        /\ LatencyMin(data) <= LatencyMedian(data)
        /\ LatencyMedian(data) <= LatencyP95(data)
        /\ LatencyP95(data) <= LatencyP99(data)
        /\ LatencyP99(data) <= LatencyMax(data)
=============================================================================
