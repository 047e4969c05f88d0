SPECIFICATION FairSpec
CONSTANTS
    User = {u1}
    Worker = {w1}
    Repair = {"scheduled"}
    None = None
    MaxChanges = 2
    MaxViews = 1
INVARIANTS
    ViewExact
    ExactUnlessOvertaken
PROPERTY CountersConverge
CHECK_DEADLOCK FALSE
