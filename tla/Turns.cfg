CONSTANTS
    Agents = {first, second}
    MaxConcurrent = 1
    MaxRounds = 1
    MaxIterations = 1
    MaxDrains = 1
    DrainLimit = 1
    FollowUpCap = 1
    MaxRequests = 3
    NoTurn = NoTurn
    Fallbacks = 2
    Retries = 1
    MaxAsks = 3
    MaxParts = 2
    MaxBlanks = 2
    MaxTexts = 1
    Streams = {"stream1", "stream2"}
    Sources = {"source"}
    Texts = {"text"}
    NoText = NoText
    MaxSends = 2
    MaxOutbound = 4
    Execs = {1, 2}
    Owners = {"session"}
    Callers = {first, second}
    MaxExecs = 1
    NoCaller = NoCaller
    NoOwner = NoOwner
    Servers = {first, second}
    Versions = {1, 2}
    MaxOpens = 3
SPECIFICATION TurnsSpec
SYMMETRY Alike
CONSTRAINT ExecBound
CHECK_DEADLOCK FALSE
INVARIANTS TurnsTypeOK
    SlicesAreBudgeted GoalKeepsGoing RunShownEnds
    SegmentsHoldOneAttempt AnswerShownOnce StreamsClosed OutboundInOrder
    ProcessesAreKept ClosedForGood ConnectionsAreOwned ToolsAreCurrent
PROPERTIES StoppedIsQuiet
