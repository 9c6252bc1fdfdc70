---------------------------- MODULE EdgeGenerator ----------------------------
(***************************************************************************)
(* generate_references of perf-dms-reference-table-direct-load/data/       *)
(* generate_deterministic_data.py, over the DocumentInfo/AliasInfo lists   *)
(* that generate_documents builds (weight, seed and alias_row_number of    *)
(* lines 91-121).  Each step of the model is one iteration of the inner    *)
(* loop: one reference row streamed to the writer, or the move to the next *)
(* document, or a return.  A row is <<document_id, document partition,   *)
(* alias row, referential partition>>, the alias row standing for the     *)
(* ReferentialId of that AliasInfo.  A uuid is its last byte, the only    *)
(* byte partition_key reads: DocUuidByte for uuid7() (random in the code, *)
(* fixed per model) and AliasUuidByte for the md5-based alias uuid.  As   *)
(* written, generate_documents raises on its first document (uuid7 is    *)
(* imported as a function at line 34, so uuid7.uuid7() at line 92 raises   *)
(* AttributeError, and line 94 names an unbound doc_index); the model     *)
(* takes the lists the function would build as given.                     *)
(***************************************************************************)
EXTENDS Integers, Sequences, SequencesExt, FiniteSets

CONSTANTS
    DocCounts,     \* values of --documents (one alias per document)
    RefCounts,     \* values of --references (num_references)
    AvgRefs,       \* values of --avg-refs-per-doc
    PartitionCounts, \* values of --partitions
    DocUuidByte,   \* [index -> last byte of that document's uuid7]
    AliasUuidByte  \* [alias row -> last byte of its alias uuid]

\* partition_key divides by --partitions: 0 raises at line 93.
ASSUME PartitionCounts \subseteq Nat \ {0}

VARIABLES
    numDocs, numRefs, avg, partitions,   \* the arguments of this run
    phase,         \* "idle", "running" or "done" (returned)
    doc,           \* 1-based position of the current DocumentInfo
    seq,           \* the inner loop variable of range(target_refs)
    written,       \* references_written
    edges          \* the rows written to reference.csv, in order

vars == <<numDocs, numRefs, avg, partitions, phase, doc, seq, written, edges>>

(* ---- generate_documents, lines 91-112 ---- *)
Weight(index) ==
    IF (index - 1) % 20 = 0 THEN avg * 10
    ELSE IF (index - 1) % 5 = 0 THEN avg * 3
    ELSE avg
Seed(index) == (index - 1) * 8191
AliasRow(index) == index - 1

\* Lines 43-45: the last byte of the uuid modulo the partition count.
PartitionKey(b, numPartitions) == b % numPartitions

\* Lines 92-93: the document's partition, from its uuid7.
DocPartition(index) == PartitionKey(DocUuidByte[index], partitions)

\* Lines 94-95: the alias's partition, from its own (md5-based) uuid.
AliasPartition(row) == PartitionKey(AliasUuidByte[row], partitions)

\* Lines 105-121: the records appended for document index; the AliasInfo
\* at alias row index - 1 copies the document's partition.
DocumentInfo(index) ==
    [document_id |-> index, partition_key |-> DocPartition(index),
     alias_row_number |-> AliasRow(index), weight |-> Weight(index),
     seed |-> Seed(index)]
AliasInfo(row) ==
    [document_id |-> row + 1, document_partition |-> DocPartition(row + 1),
     referential_partition |-> AliasPartition(row)]

TotalWeight == FoldLeft(LAMBDA s, i : s + Weight(i), 0, [i \in 1..numDocs |-> i])

\* Mutant: the budget rounded down (int(a / b) instead of math.ceil).
CeilDivFloor(a, b) == a \div b

\* math.ceil(a / b) for integers; the float quotient is exact at these sizes.
CeilDiv(a, b) == IF b > 0 THEN -((-a) \div b) ELSE -(a \div (-b))

TargetRefs(index) == CeilDiv(numRefs * Weight(index), TotalWeight)

\* Mutants: no bump off the own alias; alias rows counted from one.
CandidateNoBump(index, s) == (Seed(index) + s) % numDocs
CandidateOneBased(index, s) ==
    LET c == (Seed(index) + s) % numDocs
    IN  IF c = AliasRow(index) THEN ((c + 1) % numDocs) + 1 ELSE c + 1

\* (doc.seed + seq) % total_aliases, bumped once off the document's own alias.
Candidate(index, s) ==
    LET c == (Seed(index) + s) % numDocs
    IN  IF c = AliasRow(index) THEN (c + 1) % numDocs ELSE c

\* Lines 202-211: alias = aliases[candidate]; the row is the document's
\* id and partition, then the alias's id and partition.
ReferenceRow(index, s) ==
    LET info == DocumentInfo(index)
        row == Candidate(index, s)
    IN  <<info.document_id, info.partition_key,
          row, AliasInfo(row).referential_partition>>

Init ==
    /\ numDocs \in DocCounts /\ numRefs \in RefCounts /\ avg \in AvgRefs
    /\ partitions \in PartitionCounts
    /\ phase = "idle" /\ doc = 1 /\ seq = 0 /\ written = 0 /\ edges = <<>>

\* Lines 179-185: no aliases, no documents, no budget or zero weight.
ReturnEarly ==
    /\ phase = "idle"
    /\ numDocs = 0 \/ numRefs <= 0 \/ TotalWeight = 0
    /\ phase' = "done"
    /\ UNCHANGED <<numDocs, numRefs, avg, partitions, doc, seq, written, edges>>

Start ==
    /\ phase = "idle"
    /\ numDocs > 0 /\ numRefs > 0 /\ TotalWeight # 0
    /\ phase' = "running"
    /\ UNCHANGED <<numDocs, numRefs, avg, partitions, doc, seq, written, edges>>

\* Mutant: the cap test of line 195 written as written > num_references.
CapReachedStrict == written > numRefs

\* Line 195: references_written >= num_references.
CapReached == written >= numRefs

\* Mutant: the row loop runs over range(target_refs + 1).
WriteReferenceRangeInclusive ==
    /\ phase = "running" /\ doc <= numDocs
    /\ seq <= TargetRefs(doc)
    /\ ~CapReached
    /\ edges' = Append(edges, ReferenceRow(doc, seq))
    /\ written' = written + 1
    /\ seq' = seq + 1
    /\ UNCHANGED <<numDocs, numRefs, avg, partitions, phase, doc>>

\* Lines 194-212: one row for the seq-th candidate of the document.
WriteReference ==
    /\ phase = "running" /\ doc <= numDocs
    /\ seq < TargetRefs(doc)
    /\ ~CapReached
    /\ edges' = Append(edges, ReferenceRow(doc, seq))
    /\ written' = written + 1
    /\ seq' = seq + 1
    /\ UNCHANGED <<numDocs, numRefs, avg, partitions, phase, doc>>

\* Lines 195-196: the global cap is checked before every row.
ReturnAtCap ==
    /\ phase = "running" /\ doc <= numDocs
    /\ seq < TargetRefs(doc)
    /\ CapReached
    /\ phase' = "done"
    /\ UNCHANGED <<numDocs, numRefs, avg, partitions, doc, seq, written, edges>>

\* The document's range(target_refs) is exhausted (or empty: the continue).
NextDocument ==
    /\ phase = "running" /\ doc <= numDocs
    /\ seq >= TargetRefs(doc)
    /\ doc' = doc + 1
    /\ seq' = 0
    /\ UNCHANGED <<numDocs, numRefs, avg, partitions, phase, written, edges>>

ReturnAfterLastDocument ==
    /\ phase = "running" /\ doc > numDocs
    /\ phase' = "done"
    /\ UNCHANGED <<numDocs, numRefs, avg, partitions, doc, seq, written, edges>>

Next == ReturnEarly \/ Start \/ WriteReference \/ ReturnAtCap
        \/ NextDocument \/ ReturnAfterLastDocument

\* A single sequential loop.
Spec == Init /\ [][Next]_vars /\ WF_vars(Next)

-----------------------------------------------------------------------------
TypeOK ==
    /\ phase \in {"idle", "running", "done"}
    /\ doc \in 1..(numDocs + 1) /\ seq \in Nat /\ written \in Nat
    /\ edges \in Seq((1..numDocs) \X (0..(partitions - 1))
                     \X (0..(numDocs - 1)) \X (0..(partitions - 1)))

EdgesOf(d) == Cardinality({i \in DOMAIN edges : edges[i][1] = d})

\* Budget conformance (spec 8): no document gets more rows than
\* ceil(target * weight / total_weight), and the file never holds more
\* than num_references rows.
EdgeBudgetConformance ==
    /\ \A d \in 1..numDocs : EdgesOf(d) = 0 \/ EdgesOf(d) <= TargetRefs(d)
    /\ Len(edges) <= numRefs \/ edges = <<>>

\* The reference definition: every document's full budget, in document
\* order, cut at num_references.
AllBudgetedEdges ==
    FlattenSeq([d \in 1..numDocs |->
                   [s \in 1..TargetRefs(d) |-> ReferenceRow(d, s - 1)]])

Expected ==
    IF numDocs = 0 \/ numRefs <= 0 \/ TotalWeight = 0 THEN <<>>
    ELSE SubSeq(AllBudgetedEdges, 1, IF numRefs < Len(AllBudgetedEdges)
                                     THEN numRefs ELSE Len(AllBudgetedEdges))

\* The streamed file is always a prefix of the reference output, and once
\* the function returns it is all of it: truncation at the cap falls on
\* the last documents in generation order, and the cap is reached whenever
\* the budgets allow it.
StreamIsCanonicalPrefix ==
    /\ IsPrefix(edges, Expected)
    /\ phase = "done" => edges = Expected

\* No self-reference (spec 8): a document never references its own alias,
\* when there are at least two aliases to choose from.
NoSelfReferenceWithTwoAliases ==
    numDocs >= 2 => \A i \in DOMAIN edges : edges[i][3] # AliasRow(edges[i][1])

\* The target is reached (spec 8): once generate_references returns from
\* its loop, reference.csv holds exactly num_references rows.  Only because
\* every budget is a ceiling do the budgets sum to at least the target;
\* budgets rounded down fall short whenever a weight does not divide evenly.
ReachesTarget ==
    (phase = "done" /\ numDocs > 0 /\ numRefs > 0 /\ TotalWeight > 0)
        => Len(edges) = numRefs

\* Spec 8, concrete scenario: 3 documents, average weight 200 and a target
\* of 10 give documents 1, 2 and 3 exactly 8, 1 and 1 rows.
SpecScenarioEdgeCounts ==
    (phase = "done" /\ numDocs = 3 /\ avg = 200 /\ numRefs = 10)
        => <<EdgesOf(1), EdgesOf(2), EdgesOf(3)>> = <<8, 1, 1>>
=============================================================================
