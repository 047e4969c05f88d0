\* Two builders that take over from each other, three chunks in two batches, one
\* source deletion and two faults.
CONSTANTS
    b1 = b1
    b2 = b2
    Builder = {b1, b2}
    None = None
    NChunks = 3
    BatchSize = 2
    MaxDeletes = 1
    MaxFaults = 2
\* After completion nothing may be left to do.
CHECK_DEADLOCK FALSE
SPECIFICATION FairSpec
INVARIANTS
    CompletedExact
    CheckpointDurable
PROPERTY BuildCompletesUndisturbed
