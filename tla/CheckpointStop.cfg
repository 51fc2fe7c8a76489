CONSTANTS
    MaxTurns = 2
    MaxSteps = 2
    MaxRows = 6
    MaxCycles = 1
    Calls = 2
    None = None
SPECIFICATION Spec
CHECK_DEADLOCK FALSE
PROPERTIES StopKeepsContext
