SPECIFICATION MCSpec
CONSTANTS
    Request = {r1}
    Worker = {w1}
    Reconciler = {c1}
    None = None
    CallsFail = TRUE
    MaxWrites = 3
    Comment <- MCComment
    OldComment <- MCOldComment
    PageLimit = {1, 2}
    FullLimit = 2
    Process = {p1}
    Client = {u1, u2}
    MaxChanges = 2
    Nothing = Nothing
INVARIANTS
    RightUnlessRaced
    PagesFit
PROPERTIES
    RankingConverges
    CacheConverges
CHECK_DEADLOCK FALSE
