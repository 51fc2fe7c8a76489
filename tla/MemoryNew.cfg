CONSTANTS
    Objects <- MCObjects
    NoObject = NoObject
    NoTask = NoTask
    TalkKinds = {"bus"}
    FileCap = 8
    MaxTalks = 3
    MaxNews = 1
    MaxDeaths = 0
SPECIFICATION MemorySpec
CHECK_DEADLOCK FALSE
INVARIANTS NothingForgottenAnyhow
