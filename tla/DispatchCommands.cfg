CONSTANTS
    Sessions = {"s1", "s2"}
    Temporary = {"s2"}
    Messages = {"user1", "user2", "auto1", "new", "stop", "direct", 
        "other", "other2", "new2", "stop2", "discard"}
    SessionOf <- MCSessionOf
    KindOf <- MCKindOf
    None = None
    GateSlots = 1
    QueueCap = 2
    InjectLimit = 1
    LoopYields = TRUE
SPECIFICATION OneSessionSpec
CHECK_DEADLOCK FALSE
INVARIANTS TurnsAreSerial FollowUpsHeldOnce DeferredHasCarrier
PROPERTIES RanTurnsReport StopLeavesNoTurn TemporaryStaysGone
