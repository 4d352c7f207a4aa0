\* Three workers, 4-bit patterns (16 values), 6-bit counters, batches of 3:
\* five full batches and a last batch of one value, as 2^32 is 4294 batches
\* of 1_000_000 and a short last one. Weak fairness per thread (FairSpec);
\* no symmetry reduction, as WorkersReturn is a temporal property.
CONSTANTS
    w1 = w1
    w2 = w2
    w3 = w3
    Workers <- MCWorkers
    Width = 4
    CounterWidth = 6
    BatchSize = 3
    CountCap = 2

SPECIFICATION FairSpec

INVARIANT TypeOK
INVARIANT EachValueOnce
PROPERTY WorkersReturn
