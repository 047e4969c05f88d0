SPECIFICATION Spec
CONSTANTS
    a1 = a1
    a2 = a2
    c1 = c1
    None = None
    Attempt = {a1, a2}
    Form <- MCForm
    User <- MCUser
    RunId = {1, 2}
    Claim = {c1}
    PageLimit = 1
    MaxIngest = 2
    Bounds <- MCBounds
SYMMETRY Symmetry
CHECK_DEADLOCK FALSE
INVARIANTS ReplayIsTheRun SupportedUnlessRaced PagesComplete
PROPERTY LineageFrozen
