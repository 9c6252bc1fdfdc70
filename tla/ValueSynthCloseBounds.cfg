\* Numeric exclusive bounds less than 0.2 apart.
CONSTANTS
    None = None
    StrRequests <- MCStrClamped
    IntRequests <- MCIntSpec
    NumRequests <- MCNumClose
SPECIFICATION Spec
CHECK_DEADLOCK FALSE
INVARIANT NumberInSpecRange
