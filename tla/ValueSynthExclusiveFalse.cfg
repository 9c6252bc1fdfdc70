CONSTANTS
    None = None
    StrRequests <- MCStrClamped
    IntRequests <- MCIntFalse
    NumRequests <- MCNumNone
SPECIFICATION Spec
CHECK_DEADLOCK FALSE
INVARIANT IntegerInSpecRange
