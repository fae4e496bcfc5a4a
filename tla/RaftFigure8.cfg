SPECIFICATION Spec
CONSTANTS
    Server = {s1, s2, s3}
    Command = {c1}
    Nil = Nil
    MaxTerm = 4
    MaxLogLen = 1
    MaxRounds = 1
    MaxRestarts = 0
    MaxVoteCalls = 8
    MaxAppendCalls = 2
SYMMETRY Symmetry
VIEW View
CONSTRAINT OneCampaignPerTerm
ACTION_CONSTRAINTS NoLateRequests FollowersCampaign
INVARIANTS
    LeaderCompleteness
