SPECIFICATION Spec
CONSTANTS
    Server = {s1, s2, s3}
    Command = {c1}
    Nil = Nil
    MaxTerm = 3
    MaxLogLen = 1
    MaxRounds = 1
    MaxRestarts = 0
    MaxVoteCalls = 6
    MaxAppendCalls = 1
SYMMETRY Symmetry
VIEW View
CONSTRAINT OneCampaignPerTerm
ACTION_CONSTRAINT NoLateRequests
INVARIANTS
    ConflictDecrements
