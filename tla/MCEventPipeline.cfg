SPECIFICATION Spec
CONSTANTS
    Event = {e1}
    Publisher = {p1, p2}
    Handler = {h1}
    NoEvent = NoEvent
    NoMsg = NoMsg
    MaxRetries = 2
    BatchSize = 1
    MaxDeliver = 2
    MaxCopies = 2
INVARIANT NoEventLost
PROPERTY ImplementsDelivery
CHECK_DEADLOCK FALSE
