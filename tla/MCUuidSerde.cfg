CONSTANTS
    b0 = b0  b1 = b1
    N = 4
    Bytes <- MCBytes
    NotU8 = NotU8
    None = None
SPECIFICATION Spec
INVARIANT RoundTrip ReadMatchesReference
CHECK_DEADLOCK FALSE
