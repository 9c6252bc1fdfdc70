------------------------------ MODULE LoadTest ------------------------------
(***************************************************************************)
(* LoadTester.run_concurrent_test and update_references_current            *)
(* (perf-claude/load-tests/concurrent_load_test.py).                       *)
(*                                                                         *)
(* Every session is an asyncio task; tasks interleave at their awaits.     *)
(* The documents and aliases are the lists load_test_data fetched (only    *)
(* their being empty matters here).  A latency is recorded by its sign:    *)
(* the code only ever compares it with 0.  time.time() is a wall clock:    *)
(* the difference of two readings may be positive, zero (the resolution    *)
(* of the clock) or negative (the clock was set back); ClockReadings is    *)
(* the set of signs the platform can produce.                              *)
(*                                                                         *)
(* main() around it: init_pool, load_test_data, run_concurrent_test,       *)
(* save_results when there are statistics, and cleanup in the finally      *)
(* block; any exception is printed and ends the process with status 1.     *)
(* pool.close() waits until every acquired connection is released, and     *)
(* asyncio.run cancels the tasks still pending when main returns.          *)
(***************************************************************************)
EXTENDS Integers, Sequences, FiniteSets, Functions, LatencyStats

CONSTANTS
    Sessions,        \* range(num_sessions)
    Iterations,      \* iterations_per_session
    DocCounts,       \* possible len(self.document_ids)
    AliasCounts,     \* possible len(self.alias_ids)
    ClockReadings    \* signs of time.time() - start after a call

VARIABLES
    docs, aliases,   \* sizes of the loaded id lists
    pc,              \* session -> "start", "ready", "calling", "done", "raised"
    iter,            \* session -> loop variable i
    latencies,       \* session -> recorded latency signs, -1 for an error
    okCalls,         \* session -> InsertReferences calls that succeeded
    errCalls,        \* session -> InsertReferences calls that raised
    main,            \* run_concurrent_test: "gather", "reported", "no_success",
                     \* "aborted" (gather re-raised) or "raised" (after gather)
    stats,           \* the successful/failed counts main reports
    proc,            \* main(): "init", "load", "run", "save", "cleanup", "exited"
    pool,            \* "none", "open" or "closed"
    exitCode,        \* 0, or 1 after an exception
    saved            \* save_results inserted the statistics

sessionVars == <<pc, iter, latencies, okCalls, errCalls>>
mainVars == <<proc, pool, exitCode, saved>>
vars == <<docs, aliases, sessionVars, main, stats, mainVars>>

Init ==
    /\ docs = 0 /\ aliases = 0
    /\ pc = [s \in Sessions |-> "idle"]
    /\ iter = [s \in Sessions |-> 0]
    /\ latencies = [s \in Sessions |-> <<>>]
    /\ okCalls = [s \in Sessions |-> 0]
    /\ errCalls = [s \in Sessions |-> 0]
    /\ main = "gather"
    /\ stats = [successful |-> 0, failed |-> 0]
    /\ proc = "init" /\ pool = "none" /\ exitCode = 0 /\ saved = FALSE

(* ---- update_references_current(s, iterations) ---- *)

\* Mutant: a session that raises keeps its connection (acquire without
\* async with).
HoldsConnectionLeaky(s) == pc[s] \in {"ready", "calling", "raised"}

\* Line 79: the connection is held from acquire() to the end of the
\* async with block, whether the block returns or raises.
HoldsConnection(s) == pc[s] \in {"ready", "calling"}

\* Lines 79-84: pool.acquire() and SET application_name succeed.
Open(s) ==
    /\ pc[s] = "start" /\ pool = "open" /\ proc = "run"
    /\ pc' = [pc EXCEPT ![s] = "ready"]
    /\ UNCHANGED <<docs, aliases, iter, latencies, okCalls, errCalls, main, stats, mainVars>>

\* The same two awaits raise (connection refused, timeout, a closing
\* pool): outside the try.
OpenFails(s) ==
    /\ pc[s] = "start"
    /\ pc' = [pc EXCEPT ![s] = "raised"]
    /\ UNCHANGED <<docs, aliases, iter, latencies, okCalls, errCalls, main, stats, mainVars>>

\* Mutant: the loop runs over range(iterations + 1).
LoopContinuesInclusive(s) == iter[s] <= Iterations

\* Line 86: for i in range(iterations).
LoopContinues(s) == iter[s] < Iterations

\* Line 88: rng.choice of an empty document list raises IndexError.
ChooseFromNoDocuments(s) ==
    /\ pc[s] = "ready" /\ LoopContinues(s) /\ docs = 0
    /\ pc' = [pc EXCEPT ![s] = "raised"]
    /\ UNCHANGED <<docs, aliases, iter, latencies, okCalls, errCalls, main, stats, mainVars>>

\* Mutant: the skip path does not advance the loop.
SkipEmptySelectionNoAdvance(s) ==
    /\ pc[s] = "ready" /\ LoopContinues(s) /\ docs > 0 /\ aliases = 0
    /\ UNCHANGED <<docs, aliases, pc, iter, latencies, okCalls, errCalls, main, stats, mainVars>>

\* Lines 91-96: no alias sampled; sleep and continue, nothing recorded.
SkipEmptySelection(s) ==
    /\ pc[s] = "ready" /\ LoopContinues(s) /\ docs > 0 /\ aliases = 0
    /\ iter' = [iter EXCEPT ![s] = @ + 1]
    /\ UNCHANGED <<docs, aliases, pc, latencies, okCalls, errCalls, main, stats, mainVars>>

\* Lines 98-113: start = time.time(); await InsertReferences.
StartCall(s) ==
    /\ pc[s] = "ready" /\ LoopContinues(s) /\ docs > 0 /\ aliases > 0
    /\ pc' = [pc EXCEPT ![s] = "calling"]
    /\ UNCHANGED <<docs, aliases, iter, latencies, okCalls, errCalls, main, stats, mainVars>>

\* Lines 115-126: the latency is appended, then the session sleeps.
CallSucceeds(s) ==
    /\ pc[s] = "calling"
    /\ \E m \in ClockReadings :
          latencies' = [latencies EXCEPT ![s] = Append(@, m)]
    /\ okCalls' = [okCalls EXCEPT ![s] = @ + 1]
    /\ iter' = [iter EXCEPT ![s] = @ + 1]
    /\ pc' = [pc EXCEPT ![s] = "ready"]
    /\ UNCHANGED <<docs, aliases, errCalls, main, stats, mainVars>>

\* Mutant: the error is recorded as 0.
CallFailsRecordsZero(s) ==
    /\ pc[s] = "calling"
    /\ latencies' = [latencies EXCEPT ![s] = Append(@, 0)]
    /\ errCalls' = [errCalls EXCEPT ![s] = @ + 1]
    /\ iter' = [iter EXCEPT ![s] = @ + 1]
    /\ pc' = [pc EXCEPT ![s] = "ready"]
    /\ UNCHANGED <<docs, aliases, okCalls, main, stats, mainVars>>

\* Lines 121-126: the call raised (or hit command_timeout); -1 is recorded.
CallFails(s) ==
    /\ pc[s] = "calling"
    /\ latencies' = [latencies EXCEPT ![s] = Append(@, -1)]
    /\ errCalls' = [errCalls EXCEPT ![s] = @ + 1]
    /\ iter' = [iter EXCEPT ![s] = @ + 1]
    /\ pc' = [pc EXCEPT ![s] = "ready"]
    /\ UNCHANGED <<docs, aliases, okCalls, main, stats, mainVars>>

\* Lines 128-134: the loop is over; the task returns its result dict.
SessionReturns(s) ==
    /\ pc[s] = "ready" /\ ~LoopContinues(s)
    /\ pc' = [pc EXCEPT ![s] = "done"]
    /\ UNCHANGED <<docs, aliases, iter, latencies, okCalls, errCalls, main, stats, mainVars>>

(* ---- run_concurrent_test and main ---- *)

\* Lines 132-133: the latencies above and below zero.
Successful(s) == Cardinality({j \in DOMAIN latencies[s] : latencies[s][j] > 0})
Failed(s) == Cardinality({j \in DOMAIN latencies[s] : latencies[s][j] < 0})

\* Lines 150-185: gather returns every result; the counts are summed, and
\* statistics exist only if some latency is positive.  Then
\* total_successful / total_time (line 172), total_time a difference of two
\* readings of the same clock, raises ZeroDivisionError at 0.
GatherResults ==
    /\ proc = "run" /\ main = "gather"
    /\ \A s \in Sessions : pc[s] = "done"
    /\ stats' = [successful |-> SumFunction([s \in Sessions |-> Successful(s)]),
                 failed     |-> SumFunction([s \in Sessions |-> Failed(s)])]
    /\ \E total \in ClockReadings :
          CASE stats'.successful = 0 ->
                  main' = "no_success" /\ proc' = "cleanup" /\ exitCode' = 0
            [] total = 0 ->
                  main' = "raised" /\ proc' = "cleanup" /\ exitCode' = 1
            [] OTHER ->
                  main' = "reported" /\ proc' = "save" /\ exitCode' = 0
    /\ UNCHANGED <<docs, aliases, sessionVars, pool, saved>>

\* Lines 150 and 262-264: gather (without return_exceptions) re-raises the
\* first exception of a task, and does not cancel the others; main prints
\* it and goes to the finally block with status 1.
GatherRaises ==
    /\ proc = "run" /\ main = "gather"
    /\ \E s \in Sessions : pc[s] = "raised"
    /\ main' = "aborted" /\ proc' = "cleanup" /\ exitCode' = 1
    /\ UNCHANGED <<docs, aliases, sessionVars, stats, pool, saved>>

(* ---- main() ---- *)

\* Lines 233 and 34-47: create_pool opens min_size connections.
InitPool ==
    /\ proc = "init"
    /\ proc' = "load" /\ pool' = "open"
    /\ UNCHANGED <<docs, aliases, sessionVars, main, stats, exitCode, saved>>

\* The database refuses: the exception reaches the except block before the
\* pool exists (cleanup then has nothing to close).
InitPoolFails ==
    /\ proc = "init"
    /\ proc' = "cleanup" /\ exitCode' = 1
    /\ UNCHANGED <<docs, aliases, sessionVars, main, stats, pool, saved>>

\* Lines 234 and 49-74: both id lists fetched and shuffled, then the tasks
\* of run_concurrent_test are created (lines 143-147).
LoadTestData ==
    /\ proc = "load"
    /\ docs' \in DocCounts /\ aliases' \in AliasCounts
    /\ pc' = [s \in Sessions |-> "start"]
    /\ proc' = "run"
    /\ UNCHANGED <<iter, latencies, okCalls, errCalls, main, stats, pool,
                   exitCode, saved>>

LoadTestDataFails ==
    /\ proc = "load"
    /\ proc' = "cleanup" /\ exitCode' = 1
    /\ UNCHANGED <<docs, aliases, sessionVars, main, stats, pool, saved>>

\* Lines 239, 259 and 187-212: the INSERT into dms.perf_test_results.
SaveResults ==
    /\ proc = "save"
    /\ saved' = TRUE /\ proc' = "cleanup"
    /\ UNCHANGED <<docs, aliases, sessionVars, main, stats, pool, exitCode>>

SaveResultsFails ==
    /\ proc = "save"
    /\ proc' = "cleanup" /\ exitCode' = 1
    /\ UNCHANGED <<docs, aliases, sessionVars, main, stats, pool, saved>>

\* Lines 214-217 and 265-266: pool.close() returns once no connection is
\* acquired; then main returns and asyncio.run cancels pending tasks.
Cleanup ==
    /\ proc = "cleanup"
    /\ \A s \in Sessions : ~HoldsConnection(s)
    /\ pool' = IF pool = "open" THEN "closed" ELSE pool
    /\ proc' = "exited"
    /\ UNCHANGED <<docs, aliases, sessionVars, main, stats, exitCode, saved>>

SessionStep(s) ==
    /\ proc # "exited"
    /\ \/ Open(s) \/ OpenFails(s) \/ ChooseFromNoDocuments(s)
       \/ SkipEmptySelection(s) \/ StartCall(s) \/ CallSucceeds(s)
       \/ CallFails(s) \/ SessionReturns(s)

MainStep ==
    \/ InitPool \/ InitPoolFails \/ LoadTestData \/ LoadTestDataFails
    \/ GatherResults \/ GatherRaises \/ SaveResults \/ SaveResultsFails
    \/ Cleanup

Next ==
    \/ \E s \in Sessions : SessionStep(s)
    \/ MainStep

\* The event loop resumes every ready task, and every call returns or
\* raises within command_timeout (60 s).
Spec == Init /\ [][Next]_vars
        /\ \A s \in Sessions : WF_vars(SessionStep(s))
        /\ WF_vars(MainStep)
-----------------------------------------------------------------------------
TypeOK ==
    /\ pc \in [Sessions -> {"idle", "start", "ready", "calling", "done", "raised"}]
    /\ iter \in [Sessions -> 0..Iterations]
    /\ latencies \in [Sessions -> Seq(ClockReadings \cup {-1})]
    /\ main \in {"gather", "reported", "no_success", "aborted", "raised"}
    /\ proc \in {"init", "load", "run", "save", "cleanup", "exited"}
    /\ pool \in {"none", "open", "closed"}

\* The totals main reports (lines 159-168) count every InsertReferences
\* call that returned as successful and every one that raised as failed,
\* and "No successful operations completed!" is printed exactly when no
\* call succeeded.
ReportCountsEveryCall ==
    main \in {"reported", "no_success"} =>
        /\ stats.successful = SumFunction(okCalls)
        /\ stats.failed = SumFunction(errCalls)
        /\ (main = "no_success") = (SumFunction(okCalls) = 0)

\* The process always exits, also when a session or gather raised: the
\* finally block's pool.close() waits for the sessions still holding a
\* connection, and they all finish their loops.
ProcessExits == <>(proc = "exited")

\* Whenever main prints and saves a report (lines 166-179), its latency
\* statistics are ordered as their names promise, for every list of
\* latencies the sessions could have produced: min <= median <= p95 <= p99
\* <= max.  The exclusive quantile method extrapolates past the largest
\* latency on short lists; the len > 20 and len > 100 guards are what keep
\* p95 and p99 within the observed range.
PercentilesWithinRange ==
    main = "reported" => ReportOrdered

\* Spec 5: "a single failed operation is recorded, not retried, and does
\* not abort other sessions": the test never ends with the results of the
\* sessions discarded.
FailureDoesNotAbortOthers == main # "aborted"
=============================================================================
