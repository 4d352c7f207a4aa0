\* Four errors: every acyclic source() shape over them, cause lists of
\* length 0 to 4, heads plain or boxed, e4 a MessageError, every sequence
\* of next and next_back calls.
CONSTANTS
    e1 = e1
    e2 = e2
    e3 = e3
    e4 = e4
    Errors <- MCErrors
    Messages <- MCMessages
    None = None
    NotCalled = NotCalled

SYMMETRY Symmetry

SPECIFICATION Spec

INVARIANT TypeOK
INVARIANT YieldsEachCauseOnce
INVARIANT NoneOnlyWhenExhausted
INVARIANT LenIsRemaining
