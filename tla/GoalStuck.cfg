CONSTANTS
    Agents = {"a1"}
    MaxConcurrent = 1
    MaxRounds = 1
    MaxIterations = 1
    MaxDrains = 1
    DrainLimit = 1
    FollowUpCap = 1
    MaxRequests = 2
    NoTurn = NoTurn
SPECIFICATION GoalFairSpec
CHECK_DEADLOCK FALSE
PROPERTIES SlicesFollow
