SPECIFICATION GobSpec
CONSTANTS
    Peer = {p1, p2}
    Call = {c1}
    MaxStarts = 2
    MaxOps = 3
    Field = {Term}
    Depth = 3
INVARIANTS
    NetInv
    NoAckLost
    EnabledIsConnected
    MixedReplyIsReported
PROPERTIES
    OldStoresApart
    CallsReturn
CHECK_DEADLOCK FALSE
