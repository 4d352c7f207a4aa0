\* Every top-level list of up to three tokens, a token being one of six atoms
\* or a group of up to two atoms (49 tokens: 120,100 lists). The function
\* returns once: the final states have no successor.
CONSTANTS
    MaxTokens = 3
    MaxNested = 2

SPECIFICATION Spec

CHECK_DEADLOCK FALSE

INVARIANT RewritesFieldAccess
