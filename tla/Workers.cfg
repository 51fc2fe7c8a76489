CONSTANTS
    Triggers = {"t1", "t2"}
    Deliveries = {1, 2, 3}
    TriggerOf <- MCTriggerOf
    Reachable = {"t1"}
    MaxAttempts = 2
    BatchSize = 2
    MaxKills = 2
    OneShots = {"once"}
    Periodic = {"often"}
    NoJob = NoJob
    At <- MCAt
    Every = 1
    MaxSleep = 2
    LastCall = 2
    MaxCalls = 3
    MaxFailures = 1
    MaxCronKills = 1
SPECIFICATION WorkersSpec
CHECK_DEADLOCK FALSE
INVARIANTS WorkersTypeOK AcceptedNotLost
    AcknowledgedIsDurable
PROPERTIES ImplementsQueue EveryDeliveryLeaves
    NoReplay DueJobsRun
