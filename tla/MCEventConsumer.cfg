SPECIFICATION ConsumerSpec
CONSTANTS
    Event = {e1}
    Handler = {h1, h2}
    NoMsg = NoMsg
    MaxDeliver = 2
    MaxCopies = 3
SYMMETRY Symmetry
INVARIANTS
    EffectExactlyOnce
    SettledIsAccounted
CHECK_DEADLOCK FALSE
