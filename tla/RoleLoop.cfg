SPECIFICATION Spec
CONSTANT MaxEvents = 3
INVARIANTS TypeOK FollowerWaitIsSafe CandidateHasTimer
PROPERTIES FollowerCampaigns ElectionEnds
CHECK_DEADLOCK FALSE
