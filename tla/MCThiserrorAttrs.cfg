\* Every list of up to three attributes over the abstract alphabet (16
\* attributes: 4369 lists). get returns after one pass: the final states
\* have no successor.
CONSTANT MaxAttrs = 3

SPECIFICATION Spec

CHECK_DEADLOCK FALSE

INVARIANT GetMatchesReference
