SPECIFICATION Spec
CONSTANTS
    Server = {s1, s2, s3}
    Command = {c1}
    Nil = Nil
    MaxTerm = 2
    MaxLogLen = 2
    MaxRounds = 1
    MaxRestarts = 0
    MaxVoteCalls = 4
    MaxAppendCalls = 2
SYMMETRY Symmetry
VIEW View
INVARIANTS
    LogMatching
    MatchIndexTruthful
    NextIndexInRange
PROPERTIES
    ImplementsReplicatedLog
