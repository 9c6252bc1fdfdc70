CONSTANTS
    DocCounts <- MCDocCounts
    RefCounts <- MCRefCounts
    AvgRefs <- MCAvgRefs
    PartitionCounts <- MCPartitionCounts
    DocUuidByte <- MCDocUuidByte
    AliasUuidByte <- MCAliasUuidByte
SPECIFICATION Spec
CHECK_DEADLOCK FALSE
INVARIANTS
    TypeOK
    EdgeBudgetConformance
    StreamIsCanonicalPrefix
    NoSelfReferenceWithTwoAliases
    ReachesTarget
