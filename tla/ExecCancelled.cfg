CONSTANTS
    Execs = {1}
    Owners = {"session"}
    Callers = {"call1", "call2"}
    MaxExecs = 1
    NoCaller = NoCaller
    NoOwner = NoOwner
SPECIFICATION ExecSpec
CHECK_DEADLOCK FALSE
INVARIANTS CallsReturn
