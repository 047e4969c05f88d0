SPECIFICATION OutboxFairSpec
CONSTANTS
    Event = {e1}
    Publisher = {p1, p2, p3}
    NoEvent = NoEvent
    MaxRetries = 2
    BatchSize = 1
    MaxCopies = 2
INVARIANT SentWasStored
PROPERTY RowSettles
CHECK_DEADLOCK FALSE
