---------------------------- MODULE AliasOnlyMain ----------------------------
(***************************************************************************)
(* main() of perf-dms-document-alias-only/data/generate_document_alias_    *)
(* data.py: the argument checks, parse_resource_cycle, then one document   *)
(* row and one alias row per document, each document's payload built by   *)
(* OpenApiExampleBuilder.build (whether it returns or raises is            *)
(* BuildOutcome of SchemaSemantics).  A document row is the resource name  *)
(* it was generated for and its partition key; an alias row holds its      *)
(* ReferentialPartitionKey, DocumentId and DocumentPartitionKey.  A uuid   *)
(* is its last byte, the only part partition_key reads: a random byte for  *)
(* uuid7(), a fixed byte per doc_index for the md5 of deterministic_uuid.  *)
(* The payload text is left out.                                           *)
(***************************************************************************)
EXTENDS SchemaSemantics

CONSTANTS
    DocCounts,        \* values of --documents
    AliasArgs,        \* values of --aliases (None: not given)
    PartitionArgs,    \* values of --partitions
    RawCycles,        \* --resource-cycle, split: sequences of [name, schema]
    OpenApiFiles,     \* what --openapi names: "ok", "missing", "not_json",
                      \* "no_components" or "no_schemas"
    UuidBytes,        \* possible last bytes of a uuid7()
    AliasDigestByte,  \* doc_index -> last byte of md5("alias:<doc_index>")
    None              \* an absent argument, or an entry without ":"

VARIABLES
    documents, aliasArg, partitions, raw, openapi,  \* the arguments of this run
    phase,          \* "validating", "writing", "done" or "failed"
    error,          \* "none", "config", "schema" or "io": what ended a run
    filesCreated,   \* document.csv and alias.csv were opened (and headed)
    docIndex,       \* doc_index of the per-document loop
    docRows,        \* document.csv rows: [resource, partition]
    aliasRows       \* alias.csv rows: [refPartition, docId, docPartition]

vars == <<documents, aliasArg, partitions, raw, openapi, phase, error, filesCreated,
          docIndex, docRows, aliasRows>>

\* Line 25: SCHEMA_BY_RESOURCE.
SCHEMA_BY_RESOURCE ==
    ("sections" :> "edFi_section") @@
    ("assessments" :> "edFi_assessment") @@
    ("studentAcademicRecords" :> "edFi_studentAcademicRecord")

\* Lines 394-412: an empty list or an unknown resource without ":" raises.
CycleValid(r) ==
    /\ r # <<>>
    /\ \A k \in DOMAIN r :
          r[k].schema # None \/ r[k].name \in DOMAIN SCHEMA_BY_RESOURCE

ParseResourceCycle(r) ==
    [k \in DOMAIN r |->
        [resource |-> r[k].name,
         schema   |-> IF r[k].schema # None THEN r[k].schema
                      ELSE SCHEMA_BY_RESOURCE[r[k].name]]]

\* Lines 414-416: ensure_positive.
EnsurePositive(value) == value > 0

\* Lines 491-496.
ArgumentsValid ==
    /\ EnsurePositive(documents) /\ EnsurePositive(partitions)
    /\ (IF aliasArg # None THEN aliasArg ELSE documents) = documents

\* Mutant: the loop runs over range(1, documents + 2).
MoreDocumentsInclusive == docIndex <= documents + 1

\* Lines 498-502: the file exists and json.load parses it.
OpenApiLoads == openapi \notin {"missing", "not_json"}

\* Lines 47-54: OpenApiExampleBuilder.__init__ finds a non-empty
\* components.schemas mapping.
BuilderAccepts == openapi \notin {"no_components", "no_schemas"}

\* Line 551: for doc_index in range(1, args.documents + 1).
MoreDocuments == docIndex <= documents

\* Line 552: resource_cycle[(doc_index - 1) % len(resource_cycle)].
ResourceFor(i) ==
    LET cycle == ParseResourceCycle(raw)
    IN  cycle[((i - 1) % Len(cycle)) + 1]

\* Lines 389-390: uuid.UUID(s).bytes[-1] % modulus, for a uuid ending in b.
PartitionKey(b, modulus) == b % modulus

\* Lines 385-387 and 557: the md5 digest of "alias:<i>" laid out as a uuid;
\* its last byte is the digest's.
AliasUuidByte(i) == AliasDigestByte[i]

\* Lines 62-76: whether build(name) returns, for every schema name.
BuildReturns == [n \in Names |-> BuildOutcome(n).ok]

Init ==
    /\ documents \in DocCounts /\ aliasArg \in AliasArgs
    /\ partitions \in PartitionArgs /\ raw \in RawCycles /\ openapi \in OpenApiFiles
    /\ phase = "validating" /\ error = "none" /\ filesCreated = FALSE
    /\ docIndex = 1 /\ docRows = <<>> /\ aliasRows = <<>>

\* Lines 489-507: a ValueError, FileNotFoundError or JSONDecodeError before
\* any file is opened.
ValidationFails ==
    /\ phase = "validating"
    /\ ~ArgumentsValid \/ ~OpenApiLoads \/ ~BuilderAccepts \/ ~CycleValid(raw)
    /\ phase' = "failed" /\ error' = "config"
    /\ UNCHANGED <<documents, aliasArg, partitions, raw, openapi, filesCreated,
                   docIndex, docRows, aliasRows>>

\* Lines 509-549: both files opened, the header rows written.
OpenOutput ==
    /\ phase = "validating"
    /\ ArgumentsValid /\ OpenApiLoads /\ BuilderAccepts /\ CycleValid(raw)
    /\ phase' = "writing" /\ filesCreated' = TRUE
    /\ UNCHANGED <<documents, aliasArg, partitions, raw, openapi, error, docIndex,
                   docRows, aliasRows>>

\* Line 560: build() raises: KeyError for a schema name missing from
\* components.schemas (a configuration error), or an unresolved $ref or
\* empty oneOf/anyOf inside it (a schema-shape error).
BuildRaises ==
    /\ phase = "writing" /\ MoreDocuments
    /\ ~BuildReturns[ResourceFor(docIndex).schema]
    /\ phase' = "failed"
    /\ error' = IF ResourceFor(docIndex).schema \in DOMAIN Schemas
                THEN "schema" ELSE "config"
    /\ UNCHANGED <<documents, aliasArg, partitions, raw, openapi, filesCreated,
                   docIndex, docRows, aliasRows>>

\* Mutant: the alias row takes a 0-based document id.
WriteDocumentZeroBasedId ==
    /\ phase = "writing" /\ MoreDocuments
    /\ BuildReturns[ResourceFor(docIndex).schema]
    /\ \E b \in UuidBytes :
          LET part == PartitionKey(b, partitions)
          IN  /\ docRows' = Append(docRows, [resource |-> ResourceFor(docIndex).resource,
                                             partition |-> part])
              /\ aliasRows' = Append(aliasRows,
                     [refPartition |-> PartitionKey(AliasUuidByte(docIndex), partitions),
                      docId |-> docIndex - 1, docPartition |-> part])
    /\ docIndex' = docIndex + 1
    /\ UNCHANGED <<documents, aliasArg, partitions, raw, openapi, phase, error,
                   filesCreated>>

\* Lines 551-596: uuid7() and its partition, the alias uuid and its
\* partition, the document row, then its alias row with DocumentId =
\* doc_index and the document's partition.
WriteDocument ==
    /\ phase = "writing" /\ MoreDocuments
    /\ BuildReturns[ResourceFor(docIndex).schema]
    /\ \E b \in UuidBytes :
          LET part == PartitionKey(b, partitions)
          IN  /\ docRows' = Append(docRows, [resource |-> ResourceFor(docIndex).resource,
                                             partition |-> part])
              /\ aliasRows' = Append(aliasRows,
                     [refPartition |-> PartitionKey(AliasUuidByte(docIndex), partitions),
                      docId |-> docIndex, docPartition |-> part])
    /\ docIndex' = docIndex + 1
    /\ UNCHANGED <<documents, aliasArg, partitions, raw, openapi, phase, error,
                   filesCreated>>

\* Lines 576-596: the document row is written and the alias writerow
\* raises (OSError: the disk is full); the exception ends the run.
AliasWriteFails ==
    /\ phase = "writing" /\ MoreDocuments
    /\ BuildReturns[ResourceFor(docIndex).schema]
    /\ \E b \in UuidBytes :
          docRows' = Append(docRows, [resource |-> ResourceFor(docIndex).resource,
                                      partition |-> PartitionKey(b, partitions)])
    /\ phase' = "failed" /\ error' = "io"
    /\ UNCHANGED <<documents, aliasArg, partitions, raw, openapi, filesCreated,
                   docIndex, aliasRows>>

\* Line 598: the loop is over.
Finish ==
    /\ phase = "writing" /\ ~MoreDocuments
    /\ phase' = "done"
    /\ UNCHANGED <<documents, aliasArg, partitions, raw, openapi, error, filesCreated,
                   docIndex, docRows, aliasRows>>

Next ==
    \/ ValidationFails \/ OpenOutput \/ BuildRaises \/ WriteDocument
    \/ AliasWriteFails \/ Finish

\* A single thread with no blocking call but the file writes.
Spec == Init /\ [][Next]_vars /\ WF_vars(Next)

-----------------------------------------------------------------------------
TypeOK ==
    /\ phase \in {"validating", "writing", "done", "failed"}
    /\ error \in {"none", "config", "schema", "io"}
    /\ docIndex \in 1..(documents + 1)
    /\ aliasRows \in Seq([refPartition : Nat, docId : Nat, docPartition : Nat])

\* The 1:1 mapping of spec 3: the k-th alias row names document k and
\* carries that document's partition key (the key of its own uuid7, not
\* the alias uuid's), its referential partition is that of the alias uuid
\* of document k, every key is below --partitions (spec 6, partition
\* consistency), and document k holds the k-th resource of the cycle; the
\* alias file never runs ahead of the document file, lags it by at most the
\* row being written, and a completed run holds exactly --documents rows
\* in each.
AliasesPairDocuments ==
    /\ \A k \in DOMAIN aliasRows :
          /\ aliasRows[k].docId = k
          /\ aliasRows[k].docPartition = docRows[k].partition
          /\ aliasRows[k].refPartition = PartitionKey(AliasUuidByte(k), partitions)
    /\ \A k \in DOMAIN docRows :
          /\ docRows[k].resource = ResourceFor(k).resource
          /\ docRows[k].partition \in 0..(partitions - 1)
    /\ Len(docRows) - Len(aliasRows) \in {0, 1}
    /\ phase = "done" =>
          Len(docRows) = documents /\ Len(aliasRows) = documents

\* Spec 7 (a): configuration errors (unknown resource or schema name,
\* non-positive counts, mismatched counts) fail before any output is
\* written.
ConfigErrorsBeforeOutput ==
    (phase = "failed" /\ error = "config") => ~filesCreated
=============================================================================
