CONSTANTS
    MaxTurns = 2
    MaxSteps = 2
    MaxRows = 5
    MaxCycles = 1
    Calls = 2
    None = None
    Objects <- MCObjects
    NoObject = NoObject
    NoTask = NoTask
    TalkKinds = {"bus", "direct"}
    FileCap = 3
    MaxTalks = 3
    MaxNews = 1
    MaxDeaths = 1
SPECIFICATION SessionsSpec
CHECK_DEADLOCK FALSE
INVARIANTS SessionsTypeOK RestoredOnce RestoredIsLegal UserTurnsClosed
    NothingForgotten ArchivedOnce OneSession
PROPERTIES CheckpointLands DiskKeeps
