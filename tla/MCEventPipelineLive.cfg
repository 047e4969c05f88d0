SPECIFICATION FairSpec
CONSTANTS
    Event = {e1}
    Publisher = {p1}
    Handler = {h1}
    NoEvent = NoEvent
    NoMsg = NoMsg
    MaxRetries = 2
    BatchSize = 1
    MaxDeliver = 2
    MaxCopies = 1
PROPERTIES
    EventReachesOutcome
    CopiesSettle
CHECK_DEADLOCK FALSE
