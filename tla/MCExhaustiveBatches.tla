------------------------ MODULE MCExhaustiveBatches ------------------------
EXTENDS ExhaustiveBatches, TLC

CONSTANTS w1, w2, w3

MCWorkers == {w1, w2, w3}

\* The threads run the same loop
Symmetry == Permutations(MCWorkers)

=============================================================================
