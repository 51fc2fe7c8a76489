CONSTANTS
    Sessions = {"s1", "s2"}
    Temporary = {}
    Messages = {"user1", "user2", "auto1", "direct", "other"}
    SessionOf <- MCSessionOf
    KindOf <- MCKindOf
    None = None
    GateSlots = 1
    QueueCap = 1
    InjectLimit = 3
    LoopYields = FALSE
SPECIFICATION FairSpec
CHECK_DEADLOCK FALSE
PROPERTIES ImplementsSerialTurns EveryMessageSettles SubmittersAreAnswered
