\* The concrete scenario of spec section 8.
CONSTANTS
    DocCounts = {3}
    RefCounts = {10}
    AvgRefs = {200}
    PartitionCounts = {16}
    DocUuidByte <- MCDocUuidByte
    AliasUuidByte <- MCAliasUuidByte
SPECIFICATION Spec
CHECK_DEADLOCK FALSE
INVARIANT SpecScenarioEdgeCounts
