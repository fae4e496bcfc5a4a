SPECIFICATION Spec
CONSTANTS
    Server = {s1, s2, s3}
    Command = {c1}
    Nil = Nil
    MaxTerm = 2
    MaxLogLen = 1
    MaxRounds = 2
    MaxRestarts = 1
    MaxVoteCalls = 4
    MaxAppendCalls = 2
SYMMETRY Symmetry
VIEW View
INVARIANTS
    TypeOK
    AppliedIsDurable
    StateMachineSafety
    ElectionSafety
    PersistedIsCurrent
PROPERTIES
    DeliveryIsFinal
    Monotonic
