----------------------------- MODULE MCLoadTest -----------------------------
(***************************************************************************)
(* Clock readings for the load test: a clock whose difference after a      *)
(* database call is always positive, and time.time() as it is (a reading   *)
(* may equal the previous one, or be earlier after the clock was set),     *)
(* and the latency lists the statistics are checked on.                    *)
(***************************************************************************)
EXTENDS LoadTest

MonotonicFineClock == {1}
WallClock == {-1, 0, 1}

\* Sorted latency lists over three values, at the lengths where the
\* statistics change form: one value (no stdev), two, and both sides of
\* the p95 (20) and p99 (100) guards.
MCLatencySamples ==
    {[k \in 1..len |-> IF k <= a THEN 1 ELSE IF k <= a + b THEN 2 ELSE 3] :
        <<len, a, b>> \in {<<l, x, y>> \in {1, 2, 20, 21, 100, 101} \X (0..101) \X (0..101) :
                              x + y <= l}}
=============================================================================
