\* Three requests at a time over four sessions: a login, its rotation, the
\* rotation of that one, and a second login or a further rotation.
CONSTANTS
    r1 = r1
    r2 = r2
    r3 = r3
    Request = {r1, r2, r3}
    None = None
    MaxSessions = 4
\* All sessions may be purged, and then nothing is left to do.
CHECK_DEADLOCK FALSE
SYMMETRY Symmetry
SPECIFICATION Spec
INVARIANTS
    OneLivePerLogin
    WinnerRevoked
    RevocationEndsChains
