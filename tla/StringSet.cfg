SPECIFICATION MCSpec
CONSTANTS
    Client = {c1, c2, c3}
    Key = {k1, k2}
    Stripe = {left, right}
    Ranges <- MCRanges
    Nil = Nil
INVARIANTS
    CountIsSize
    NoMapRace
PROPERTIES
    ImplementsSetObject
    CallsReturn
CHECK_DEADLOCK FALSE
