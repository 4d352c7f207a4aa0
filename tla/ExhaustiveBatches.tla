------------------------- MODULE ExhaustiveBatches -------------------------
(***************************************************************************)
(* The worker threads of test_exhaustive, src/ryu/tests/exhaustive.rs.     *)
(* Every worker loops: claim a batch number with fetch_add on the shared   *)
(* counter, return if it is past the last batch, else format every f32 bit *)
(* pattern of the batch and add the batch's size to the shared finished    *)
(* counter. Widths are scaled down: a bit pattern has Width bits (u32 in   *)
(* the code), the counters CounterWidth bits (usize); BatchSize does not   *)
(* divide 2^Width, as 1_000_000 does not divide 2^32, so the last batch is *)
(* short. Formatting and its assertions are the library's concern: a      *)
(* batch step records which bit patterns it visited.                       *)
(***************************************************************************)
EXTENDS Naturals, FiniteSets

CONSTANTS
    Workers,       \* the threads, one per CPU (num_cpus::get())
    Width,         \* bits of a bit pattern (32)
    CounterWidth,  \* bits of usize (64)
    BatchSize,     \* BATCH_SIZE (1_000_000)
    CountCap       \* visits per bit pattern beyond which the count is not kept

ASSUME /\ Width \in Nat \ {0} /\ CounterWidth > Width
       /\ BatchSize \in 1..(2^Width - 1) /\ CountCap \in Nat \ {0}

MaxU == 2^Width - 1                  \* u32::max_value()
LastBatch == MaxU \div BatchSize     \* u32::max_value() / BATCH_SIZE
Values == 0..MaxU

VARIABLES
    counter,   \* the shared AtomicUsize of batch numbers
    finished,  \* the shared AtomicUsize of formatted values
    pc,        \* where each worker is: "claim", "batch" or "done"
    batch,     \* the batch a worker claimed
    visits     \* how often each bit pattern was formatted (capped at CountCap)

vars == <<counter, finished, pc, batch, visits>>

TypeOK ==
    /\ counter \in 0..(2^CounterWidth - 1)
    /\ finished \in 0..(2^CounterWidth - 1)
    /\ pc \in [Workers -> {"claim", "batch", "done"}]
    /\ batch \in [Workers -> 0..LastBatch]
    /\ visits \in [Values -> 0..CountCap]

Init ==
    /\ counter = 0 /\ finished = 0
    /\ pc = [w \in Workers |-> "claim"]
    /\ batch = [w \in Workers |-> 0]
    /\ visits = [u \in Values |-> 0]

\* Mutant: the loop ends only on the batch right after the last one
ClaimExact(w) ==
    /\ pc[w] = "claim"
    /\ counter' = (counter + 1) % 2^CounterWidth
    /\ LET b == counter % 2^Width IN
         IF b = LastBatch + 1 THEN pc' = [pc EXCEPT ![w] = "done"] /\ UNCHANGED batch
         ELSE pc' = [pc EXCEPT ![w] = "batch"] /\ batch' = [batch EXCEPT ![w] = b]
    /\ UNCHANGED <<finished, visits>>

\* Mutant: past the last batch the loop goes round again without a new
\* fetch_add (the exit test re-reads the counter instead of returning)
ClaimSpins(w) ==
    /\ pc[w] = "claim"
    /\ LET b == counter % 2^Width IN
         IF b > LastBatch THEN UNCHANGED <<counter, pc, batch>>
         ELSE /\ counter' = (counter + 1) % 2^CounterWidth
              /\ pc' = [pc EXCEPT ![w] = "batch"] /\ batch' = [batch EXCEPT ![w] = b]
    /\ UNCHANGED <<finished, visits>>

\* counter.fetch_add(1, Relaxed) as u32, then return if past the last batch
Claim(w) ==
    /\ pc[w] = "claim"
    /\ counter' = (counter + 1) % 2^CounterWidth
    /\ LET b == counter % 2^Width IN
         IF b > LastBatch THEN pc' = [pc EXCEPT ![w] = "done"] /\ UNCHANGED batch
         ELSE pc' = [pc EXCEPT ![w] = "batch"] /\ batch' = [batch EXCEPT ![w] = b]
    /\ UNCHANGED <<finished, visits>>

\* Mutant: the short last batch is not special-cased (u32 arithmetic wraps)
BatchMaxUnclamped(b) == (b * BatchSize + BatchSize - 1) % 2^Width

\* The last bit pattern of batch b: u32::MAX for the last batch
BatchMax(b) ==
    IF b = LastBatch THEN MaxU ELSE (b * BatchSize + BatchSize - 1) % 2^Width

\* The bit patterns of min..=max, as u32 arithmetic gives them
BatchValues(b) ==
    LET min == (b * BatchSize) % 2^Width
        max == BatchMax(b)
    IN {u \in Values : min <= u /\ u <= max}

\* Format every bit pattern of the batch (non-finite ones are skipped but
\* counted), then finished.fetch_add(max - min + 1, Relaxed)
RunBatch(w) ==
    /\ pc[w] = "batch"
    /\ LET min == (batch[w] * BatchSize) % 2^Width
           increment == (BatchMax(batch[w]) - min + 1) % 2^Width
       IN finished' = (finished + increment) % 2^CounterWidth
    /\ visits' = [u \in Values |->
                    IF u \in BatchValues(batch[w])
                    THEN IF visits[u] < CountCap THEN visits[u] + 1 ELSE CountCap
                    ELSE visits[u]]
    /\ pc' = [pc EXCEPT ![w] = "claim"]
    /\ UNCHANGED <<counter, batch>>

\* The test thread has joined every worker
Joined == \A w \in Workers : pc[w] = "done"

Next ==
    \/ \E w \in Workers : Claim(w) \/ RunBatch(w)
    \/ Joined /\ UNCHANGED vars

Spec == Init /\ [][Next]_vars

\* The OS schedules every runnable thread eventually
FairSpec == Spec /\ \A w \in Workers : WF_vars(Claim(w) \/ RunBatch(w))

-----------------------------------------------------------------------------

\* However the workers interleave on the two atomics, no bit pattern is
\* formatted twice, and once every worker has returned every bit pattern has
\* been formatted and finished counts exactly 2^32 of them.
EachValueOnce ==
    /\ \A u \in Values : visits[u] <= 1
    /\ Joined => /\ \A u \in Values : visits[u] = 1
                 /\ finished = MaxU + 1

\* Every worker returns, so the test's joins all complete.
WorkersReturn == <>Joined

=============================================================================
