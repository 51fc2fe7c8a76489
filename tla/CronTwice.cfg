CONSTANTS
    OneShots = {"once"}
    Periodic = {"often"}
    NoJob = NoJob
    At <- MCAt
    Every = 1
    MaxSleep = 2
    LastCall = 2
    MaxCalls = 3
    MaxFailures = 1
    MaxCronKills = 1
SPECIFICATION CronSpec
CHECK_DEADLOCK FALSE

PROPERTIES OneTimeIsOnce
