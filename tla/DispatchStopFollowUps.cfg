CONSTANTS
    Sessions = {"s1", "s2"}
    Temporary = {}
    Messages = {"user1", "user2", "stop"}
    SessionOf <- MCSessionOf
    KindOf <- MCKindOf
    None = None
    GateSlots = 1
    QueueCap = 1
    InjectLimit = 3
    LoopYields = TRUE
SPECIFICATION Spec
CHECK_DEADLOCK FALSE
PROPERTIES StopDropsFollowUps
