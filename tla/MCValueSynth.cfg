CONSTANTS
    None = None
    StrRequests <- MCStrClamped
    IntRequests <- MCIntSpec
    NumRequests <- MCNum
SPECIFICATION Spec
CHECK_DEADLOCK FALSE
INVARIANTS
    TypeOK
    StringWithinLengthConstraints
    IntegerInSpecRange
    NumberInSpecRange
