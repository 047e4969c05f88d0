SPECIFICATION MCSpec
CONSTANTS
    d1 = d1
    d2 = d2
    b1 = b1
    b2 = b2
    q1 = q1
    None = None
    Doc = {d1, d2}
    PublicDoc = {d1}
    Builder = {b1, b2}
    Request = {q1}
    Limit = 2
    MaxMoves = 2
    c1 = c1
    c2 = c2
    Case = {c1, c2}
    Expected <- MCExpected
    Label <- MCLabel
    p1 = p1
    p2 = p2
    p3 = p3
    Person = {p1, p2, p3, p4}
    MaxUpsets = 2
    Server = {v1, v2}
    MaxPuts = 3
    MaxFailures = 1
    Sessions = 2
    MaxSteps = 5
    BatchSize = 5
    Project = {1}
    MaxAttempts = 2
    Freezer = {"f1", "f2"}
    BenchmarkId = {1, 2}
    Authored <- MCAuthored
    CaseCount = 3
    DevelopmentCases = 1
CHECK_DEADLOCK FALSE
INVARIANTS
    ServedWasReadable
    StatsComplete
    AnswerSound
    ApprovedEarned
    WorkspaceConsistent
    LabelsSurvive
    DraftPoolFills
    SimulationHonest
    BenchmarkTraceable
PROPERTIES
    SubmittedImmutable
