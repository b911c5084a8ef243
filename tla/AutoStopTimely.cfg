\* One instance, every operation, and a request that interleaves with the sweep.
SPECIFICATION Spec
CONSTANTS
    Insts = {a}
    Procs = {p}
    Ops = {"create", "start", "stop", "reset", "update", "rebuild", "rename"}
    Default = 4
    Timeouts = {0, 1}
    Interval = 2
    StopTime = 1
    MaxTime = 8
    Faults = {"StartInstance"}
    InTurn = FALSE
    None = None
INVARIANTS StoppedInTime
\* Time ends at MaxTime.
CHECK_DEADLOCK FALSE
