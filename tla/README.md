# TLA+ models of the Data Management Service data generators and load test

This directory models the Python code of the repository:

- the two synthetic-data generators used for the DMS performance experiments;
- the concurrent load test.

Each model is checked with TLC. All paths below are relative to the repository root.

## 1. Inventory

| Part | Source | State | Operations | Hard behaviour |
|---|---|---|---|---|
| Schema Example Builder | `src/perf-dms-document-alias-only/data/generate_document_alias_data.py` 45-234 (`OpenApiExampleBuilder.build`, `_generate`, `_resolve_ref`, placeholders) | the recursion (call stack); the shared `visit_counts` dict; the per-document `random.Random` | `build(name)`; one `_generate` call per node, handling `$ref`, `allOf`, `oneOf`, `anyOf`, type inference, object, array, leaf and boolean | cycles bounded by `max_ref_visits` and `max_depth`; the one shared dict is mutated and restored around every `$ref`; booleans depend on the order of the draws |
| Value Synthesizer | same file, 236-382 | none | `_hash_string`, `_apply_length_constraints`, `_sample_string`, `_sample_integer`, `_sample_number` | clamping and range arithmetic at the bounds |
| Document/alias script | same file, 385-598 | the two CSV writers; the resource cycle | per document: build a payload, write a document row, write an alias row | an exception in build ends the run part-way |
| Edge Generator | `src/perf-dms-reference-table-direct-load/data/generate_deterministic_data.py` 172-214 (`generate_references`) | `references_written`; the output stream | one row per `(document, seq)`, the early returns, the global cap | ceiling budgets; the cap reached mid-document; the wrap-around bump off the document's own alias |
| Reference-table script | same file, 81-169, 261-319 | the three files; the doc/alias lists | `generate_documents`, `generate_aliases`, `generate_references` | line 92 calls `uuid7.uuid7()` on the function imported at line 34 and raises `AttributeError` (line 94 would then name an unbound `doc_index`), so no document is ever produced; only the records and `generate_references` are modelled |
| Identifier/partition deriver | both generators (`deterministic_uuid`, `partition_key`, `uuid7`) | none | a uuid's last byte modulo `--partitions` | the document, alias and reference rows carry two partition keys from two different uuids; modelled in `AliasOnlyMain` and `EdgeGenerator`, a uuid abstracted to its last byte |
| Concurrent load test | `src/perf-claude/load-tests/concurrent_load_test.py` | the pool; per-session latency lists; `asyncio.gather`; main's phase and exit status | `init_pool`, `load_test_data`, sessions of `InsertReferences` calls, statistics, `save_results`, `cleanup` | concurrent sessions; errors inside versus outside the `try`; a latency of exactly 0 is counted as neither success nor failure; `pool.close()` waits for sessions that outlive a failed gather |
| Multi-enrollment script | `src/src/dms/tests/python/test_multi_enrollment.py` | remote server only | sequential REST calls | not modelled (sequential I/O against a server outside this repository) |

How the parts interact:

- The document/alias script calls `build()` once per document, using a fresh `random.Random` seeded from the document index.
- The reference-table script feeds the `DocumentInfo` and `AliasInfo` lists from `generate_documents` into `generate_references`.
- The load test runs against the tables these scripts fill.

## 2. Modules

| Module | Models | State and actions |
|---|---|---|
| `SchemaSemantics` | the schema nodes and values that `_generate` handles, and their pure meaning | `Kind` is the type inference of lines 159-164. `ChildCalls` lists the recursive calls of each branch in code order. `Assemble` builds the value from the children's results: the allOf merge (`AllOfResult`), the object fields (`ObjectResult`) and arrays. `Gen` is `_generate` as a RECURSIVE operator. It passes `visits` by value and threads the rng draw count through the calls. Leaf values are abstracted to `(kind, path)`, because `_hash_string` and `_sample_*` are pure functions of the path and field for a fixed seed. |
| `SchemaBuilder` | `build` and `_generate` as the program runs them | The variables are `stack` (one frame per active call), `visit_counts` (the one shared dict, where 0 means a popped key), `rng` (draws made) and `status`. Each guard of `_generate` is its own action, in the order the code tests them: `EnterDepthLimit`, `EnterNull`, `EnterRefExhausted`, `EnterRaise` (a `KeyError` from `_resolve_ref` after the count was raised, or an `IndexError` from `oneOf[0]`), `EnterComposite`, `EnterBoolean` and `EnterLeaf`. `Descend` makes the next recursive call. `Finish` assembles the value, and for a `$ref` it performs the restore of lines 118-121. `Return` pops the frame. `Complete` ends `build()`. |
| `AbstractBuilder` | what `build()` promises | `build()` returns `Gen` of the root in one step, and it always returns. |
| `EdgeGenerator` | `generate_references`, `partition_key`, and the `DocumentInfo` and `AliasInfo` records of `generate_documents` | Each step is one loop iteration: `WriteReference` (one row, `ReferenceRow`), `ReturnAtCap`, `NextDocument`, or the early and final returns. A row has all four columns: document id and partition, alias row (for its `ReferentialId`) and referential partition. A uuid is its last byte: `DocUuidByte` for `uuid7()` (random, fixed per model) and `AliasUuidByte` for the alias uuid. Because the script as written raises `AttributeError` at line 92, the model takes the alias uuids as given and follows only how their partitions travel into `reference.csv`. |
| `ValueSynth` | `_sample_string`, `_apply_length_constraints`, `_sample_integer`, `_sample_number` | One step samples one leaf. A string is `[kept, pad]`: the first `kept` characters of the formatted value, then `pad` filler characters. Each format contributes only the length it produces. The integer bounds follow the code line by line, including Python's `isinstance(False, int)`. A float is an integer count of ten-thousandths (schema numbers in tenths, the fraction in thousandths), so every value `_sample_number` computes is exact. `math.nextafter` is a bound plus or minus one ulp (`Bound(v, e)`), which only the `max_value < min_value` comparison can see. `round(value, 3 or 5)` is `RoundFloat`: the nearest multiple, and either one at a decimal tie, where the float's binary value decides. `math.floor(value / step)` is `FloorQuotient`: exact for whole numbers, and possibly one lower when a fractional step divides the value exactly (`0.3 / 0.1`). |
| `LoadTest` | `update_references_current` sessions, `run_concurrent_test`, `main` with its `try`/`except`/`finally` | One process per session. The actions are `Open` / `OpenFails`, `ChooseFromNoDocuments` (`IndexError`), `SkipEmptySelection`, `StartCall`, `CallSucceeds` / `CallFails` and `SessionReturns`. `main` is one more process, with `proc` its phase: `InitPool` / `InitPoolFails`, `LoadTestData` / `LoadTestDataFails` (which also creates the session tasks), `GatherResults` (including the `ZeroDivisionError` of a zero `total_time`) and `GatherRaises`, `SaveResults` / `SaveResultsFails`, and `Cleanup`, which `pool.close()` holds back while any session `HoldsConnection`. A latency is kept as its sign, and `ClockReadings` is the set of signs `time.time()` differences can have. |
| `LatencyStats` | the latency statistics of `run_concurrent_test` (lines 166-179) | Pure operators over a sorted list of latencies, exact in hundredths: `LatencyMin`, `LatencyMax`, `LatencyMedian` (`statistics.median`), `CutPoint` (`statistics.quantiles`, exclusive method, with its index clamp) and `LatencyP95` / `LatencyP99` with their `len > 20` / `len > 100` guards. `LoadTest` extends it. `CutPoint` agrees with Python's `statistics.quantiles` on random lists. |
| `AliasOnlyMain` | `main`, `ensure_positive`, `parse_resource_cycle`, `partition_key`, `deterministic_uuid` and the checks of `OpenApiExampleBuilder.__init__` in the alias-only generator | The steps are `ValidationFails` (bad counts, a missing or unparsable `--openapi` file, no `components.schemas`, a bad cycle), `OpenOutput`, then per document `BuildRaises`, `WriteDocument` (document row, then alias row) or `AliasWriteFails`, then `Finish`. Whether `build` raises comes from `SchemaSemantics`. A uuid is its last byte, the only byte `partition_key` reads: any of `UuidBytes` for `uuid7()`, and the fixed `AliasDigestByte[doc_index]` for the md5-based alias uuid. |

The MC modules (`MCSchemaBuilder`, `MCEdgeGenerator`, `MCValueSynth`, `MCLoadTest`, `MCAliasOnlyMain`) give the constants for TLC.

## 3. Runs

| Run | Checks | Shows |
|---|---|---|
| `schema_builder` (pass) | `TypeOK`, `VisitCountsMatchStack`, `BuilderRefinesAbstract` | The shared dict always counts exactly the `$ref` expansions on the current call stack, so a subtree never sees a budget used up by a finished sibling. Under the refinement mapping "running counts as not yet started", the step machine produces the value of the pure recursive semantics, including the order of the rng draws and every raise. Every build ends. |
| `allof_of_empty_objects` (violation) | `AllOfOfObjectsIsObject` | An allOf of empty objects yields `None` (line 139). |
| `edge_generator` (pass) | `TypeOK`, `EdgeBudgetConformance`, `StreamIsCanonicalPrefix`, `NoSelfReferenceWithTwoAliases`, `ReachesTarget` | Every per-document budget and the global cap hold. At every step, the output is a prefix of "all budgets in document order, cut at `num_references`". On return it equals that. With two or more aliases, no self-references occur. When the loop ends, `reference.csv` holds exactly `num_references` rows (spec §8): the ceiling budgets always add up to at least the target. |
| `spec_concrete_scenario` (violation) | `SpecScenarioEdgeCounts` | The spec's 3-document example does not match the code's weights: the code gives 9/1/0 rows, not 8/1/1. |
| `value_synth` (pass) | `TypeOK`, `StringWithinLengthConstraints`, `IntegerInSpecRange`, `NumberInSpecRange` | Every format that reaches the length clamping meets `[minLength, maxLength]` by cutting or padding, never both. Integers stay in the spec §4.1 range and on a multiple of `multipleOf`, except where that multiple is floored at the minimum. Numbers stay in the schema's range through the interpolation, rounding ties either way and the float clamps; under `multipleOf` they are multiples that the float floor may put at most one step below the lower bound, never above the upper one. |
| `exclusive_bound_false` (violation) | `IntegerInSpecRange` | `exclusiveMinimum: false` / `exclusiveMaximum: false` act as the numeric bound 0. |
| `load_test` (pass) | `TypeOK`, `ReportCountsEveryCall`, `PercentilesWithinRange`, `ProcessExits` | With a clock that advances during every call, each call is counted exactly once, across all interleavings of three sessions and every error path. The process always exits: after any exception, `pool.close()` waits for the sessions that still hold a connection, and each of them finishes its loop and releases it on every path. Every report orders its statistics min ≤ median ≤ p95 ≤ p99 ≤ max: without the guards, the exclusive method extrapolates (21 latencies of 1 and one of 3 give a p99 of 4.56). |
| `close_numeric_bounds` (violation) | `NumberInSpecRange` | With `exclusiveMinimum: 2` and `exclusiveMaximum: 2.1`, the code moves each bound 0.1 inward, the bounds cross, and the value is 2.1, the excluded maximum (line 359). |
| `load_test_wall_clock` (violation) | `ReportCountsEveryCall` | A call measured at 0 ms is counted nowhere, and one measured after the clock steps back is counted as failed. |
| `load_test_abort` (violation) | `FailureDoesNotAbortOthers` | An exception outside the per-call `try` aborts the whole test. |
| `alias_only_main` (pass) | `TypeOK`, `AliasesPairDocuments` | Alias row k names document k and carries that document's partition key (its uuid7's, not the alias uuid's); every key is below `--partitions`; document k holds the k-th resource of the cycle. When a write fails, the alias file lags by at most one row. |
| `config_error_after_output` (violation) | `ConfigErrorsBeforeOutput` | A `resource:schema` entry naming a missing schema fails only after the output files were written. |

Every property of a passing run has a mutant: a plausible bug in the mapped code that TLC then finds. `PROJECT.json` lists them; in short:

- `schema_builder`: the dict is never restored; the key is always popped; the budget test is off by one;
- `edge_generator`: the cap test is strict; the row loop uses `range(target + 1)`; there is no bump; alias rows are counted from one; the per-document budget rounded down instead of up, so the rows fall short of the target;
- `value_synth`: padding one character short; padding counted from the length before truncation; the integer multiple not floored at the minimum; a numeric `exclusiveMinimum` moved 0.1 below the bound instead of above;
- `load_test`: the loop runs `range(iterations + 1)`; an error recorded as latency 0; a session that raises keeps its connection (acquire without `async with`), so `pool.close()` never returns; the p95 and p99 guards swapped;
- `alias_only_main`: the loop runs one document too far; a 0-based `DocumentId`.

### Bounds

**MCSchemaBuilder.** It uses the code's own `max_depth = 7` and `max_ref_visits = 2`. The schemas are chosen so that every case happens:

- `Section`↔`Course` is a mutual cycle. It is expanded twice before the placeholder is emitted.
- `Loop` is a self-cycle visited twice from sibling fields. Without the restore, the second sibling would see the budget used up.
- `Triple` references `Leaf` from three siblings.
- `Deep` nests past depth 7.
- There is an allOf with overlapping keys, and a oneOf and an anyOf.
- There are inferred object and array types, `additionalProperties: true` and `additionalProperties` as a schema, `minItems` 0 and 3 (clamped to 1..2), and a null subschema.
- There are booleans at several depths.
- `Bad`, `Odd` and `Missing` make `build()` raise.

**MCEdgeGenerator.** The bounds are `--documents ∈ {0,1,2,3,6,21}`, `--references ∈ {-1,0,3,10,30}` `--avg-refs-per-doc ∈ {0,1,3}` and `--partitions ∈ {3, 16}`, with uuid bytes for which a document's partition and its alias's partition differ for most documents and agree for some. They reach:

- every early return, including a zero total weight;
- all three weight classes (21 documents include index 21, which is weighted 10×);
- a cap reached mid-document;
- budgets larger than the number of aliases, so candidates wrap around;
- the single-alias case.

**MCValueSynth.** It covers every string format, with key names of 2 and 12 characters (hash strings of 23 and 33 characters). The length bounds `{absent, 0, 5, 30, 40}` fall below, between and above the produced lengths. Integer bounds are `{absent, -3, 0, 5, 9}`. Exclusive bounds are absent, `true` or the numbers 2 and 6 (`false` only in the violation run). `multipleOf` is `{absent, 0, 2, 3}`. Two documents and two path lengths give different offsets.

`MCNumClose`, used only by `close_numeric_bounds`, is a number with `exclusiveMinimum` 2 and `exclusiveMaximum` 2.1.

Numbers use bounds `{absent, -3, 0, 2.5}` (minimum) and `{absent, 2, 5}` (maximum), exclusive bounds absent, `true` or the whole numbers 2 and 5, `multipleOf` `{absent, 0, 0.5, 2}` and formats plain and `double`. Documents 1, 58 and 235 at path lengths 1 and 3 give fractions 0.022, 0.032, 0.991, 0.001, 0 and 0.01: fraction 0 puts an `exclusiveMinimum: true` value back on the bound after rounding, and 0.991 with a span of 2.5 makes a rounding tie. A fractional `multipleOf` reaches the inexact floor division.

**MCLoadTest.** Three sessions of two iterations each. Each of the document and alias lists is either empty or not. Every step of `main` may fail. This reaches every path of a session, every way the sessions can end (all done, some raised), and a gather that re-raises while the other two sessions are still in their loops, which `pool.close()` must wait for. The violation runs use two sessions. `MCLatencySamples` holds every sorted list over the latencies 1, 2 and 3 of lengths 1, 2, 20, 21, 100 and 101: both sides of each guard, and the clamped quantile index. Three values are enough for a cut point to fall between two different neighbours.

**MCAliasOnlyMain.** `--documents` is 0 or 3. `--aliases` is absent, 2 or 3. `--partitions` is 0, 3 or 16, and a uuid7 ends in byte 5 or 250, so the document and alias partition keys differ. The `--openapi` file is usable, missing, not JSON, without `components` or without `schemas`. The cycles use:
- the default resource names;
- a schema with an unresolved `$ref`;
- an explicit schema that exists and one that does not;
- an unknown resource;
- the empty list.

With 3 documents and a 2-entry cycle, the cycle wraps.

### Fairness

The generators are single-threaded and never block. The load test runs on one asyncio event loop, which resumes every ready task. Every database call returns or raises within `command_timeout` (60 s). This justifies weak fairness per session and for `main`. `pool.close()` (asyncpg) returns once every acquired connection is released, so `Cleanup` is enabled only when no session holds one. Weak fairness of `Next` says only that the interpreter keeps executing. The configurations use `CHECK_DEADLOCK FALSE` because the programs terminate: a final state (`done` or `failed`) has no successor.

In `AbstractBuilder`, "build eventually returns" is written as `<>(status # "idle")`. `Build` is enabled in every idle state, so this is equivalent to weak fairness of `Build`. It also keeps TLC from evaluating `ENABLED` of the recursive `Gen`.

## 4. Findings

1. **Close exclusive bounds.** With numeric exclusive bounds less than 0.2 apart, `_sample_number` moves each 0.1 inward, the bounds cross, and it returns the excluded maximum (`generate_document_alias_data.py:359`); bounds 2 and 2.1 give 2.1 for every document.
2. **allOf of empty objects.** It returns `None` instead of `{}` (`generate_document_alias_data.py:139`).
3. **Self-reference with one document.** A single document references its own alias (`generate_deterministic_data.py:200`), although spec §8 says there are no self-references. No run checks this case; it is recorded as a hazard. `NoSelfReferenceWithTwoAliases` holds for two or more documents.
4. **Spec §8 concrete scenario.** The scenario does not match the code's weights.
5. **Date strings ignore length constraints.** `date` and `date-time` strings skip `minLength`/`maxLength` (`generate_document_alias_data.py:280`). This is recorded as a hazard. The `value_synth` run checks the clamping only for the formats that reach it.
6. **`exclusiveMinimum`/`exclusiveMaximum: false` is read as the number 0** (`generate_document_alias_data.py:319`).
7. **The load test miscounts successful calls.** It classes results by the sign of a wall-clock difference (`concurrent_load_test.py:115`, `:132`).
8. **The load test aborts on an error outside the per-call `try`.** Such an error discards every session's results (`concurrent_load_test.py:150`), although spec §5 says a failed operation does not abort the others.
9. **An unknown explicit schema fails only after output is written** (`generate_document_alias_data.py:560`), although spec §7(a) says it fails before.
10. **Duplicate reference rows.** `generate_references` writes duplicate `(document, alias)` rows; see `<<1, 1>>` twice in the scenario trace. The spec does not forbid them, so this is recorded as a hazard only.

## 5. Plan and what is not modelled

Done:
- the schema builder and its refinement;
- the value synthesizer for strings, integers and numbers;
- the edge generator;
- both generator scripts' `main`, with the partition keys and the `--openapi` checks of the alias-only one;
- the load test's `main`: pool, data loading, sessions, gather, save and cleanup.

Hazards recorded without a run, for want of a run of their own: the single-document self-reference, date strings that skip the length clamp, and the zero `total_time` division of the load test. The identity column hazard (documents must receive ids 1..N in file order for `DocumentId` and `ParentDocumentId` to be right) lies in the database loader, outside this repository.

Left for later sittings:
1. A property on duplicate `(document, alias)` reference rows, if the target schema turns out to forbid them.

Not modelled:
- the bit layout of md5 and `uuid7` (a uuid is its last byte, the only one `partition_key` reads);
- the latency mean and standard deviation, which no guard or property depends on;
- the reference-table script's `__main__`, the loop of `generate_documents` and `generate_aliases`: line 92 raises `AttributeError` on the first document, so nothing after it runs (lines 93-94 and the alias loop are never reached); the `DocumentInfo`/`AliasInfo` records they would build are modelled in `EdgeGenerator`;
- argparse;
- CSV and JSON formatting;
- the multi-enrollment REST script, whose only state is on a server that is not in this repository.
