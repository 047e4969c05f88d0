CONSTANTS
    Note = {n}
    Cluster = {}
    Fact = {f}
    r1 = r1
    r2 = r2
    Run = {r1, r2}
    p1 = p1
    p2 = p2
    Process = {p1, p2}
    NoRun = NoRun
    MaxVersion = 2
    MaxDatasets = 2
    NoDoc = NoDoc
    MaxStarts = 3
    MaxChanges = 1
CHECK_DEADLOCK FALSE
SYMMETRY Symmetry
SPECIFICATION Spec
INVARIANTS
    CompletedExact
    ReconciledUnlessTouched
    HistoryServedUnlessRaced
    OneReadyUnlessOverlapped
PROPERTY HistoryImmutable
