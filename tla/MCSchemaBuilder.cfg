CONSTANTS
    Schemas <- MCSchemas
    Names <- MCNames
    Roots <- MCRoots
    MaxDepth = 7
    MaxRefVisits = 2
SPECIFICATION Spec
CHECK_DEADLOCK FALSE
INVARIANTS
    TypeOK
    VisitCountsMatchStack
PROPERTIES
    BuilderRefinesAbstract
