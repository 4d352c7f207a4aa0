--------------------------- MODULE MCErrorChain ---------------------------
EXTENDS ErrorChain, TLC

CONSTANTS e1, e2, e3, e4

MCErrors == {e1, e2, e3, e4}
MCMessages == {e4}

\* The errors other than the message wrapper are interchangeable: source()
\* is part of the state
Symmetry == Permutations({e1, e2, e3})

=============================================================================
