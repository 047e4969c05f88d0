\* One builder, two chunks in batches of one, one source deletion, one fault.
CONSTANTS
    b1 = b1
    Builder = {b1}
    None = None
    NChunks = 2
    BatchSize = 1
    MaxDeletes = 1
    MaxFaults = 1
CHECK_DEADLOCK FALSE
SPECIFICATION FairSpec
PROPERTY BuildCompletes
