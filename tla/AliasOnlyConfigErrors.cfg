CONSTANTS
    None = None
    Schemas <- MCSchemas
    Names <- MCNames
    MaxDepth = 7
    MaxRefVisits = 2
    DocCounts = {0, 3}
    AliasArgs <- MCAliasArgs
    PartitionArgs = {0, 3, 16}
    UuidBytes <- MCUuidBytes
    OpenApiFiles <- MCOpenApiFiles
    AliasDigestByte <- MCAliasDigestByte
    RawCycles <- MCRawCycles
SPECIFICATION Spec
CHECK_DEADLOCK FALSE
INVARIANT ConfigErrorsBeforeOutput
