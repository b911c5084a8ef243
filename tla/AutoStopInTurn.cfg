\* Requests that overlap neither each other nor a sweep.
SPECIFICATION Spec
CONSTANTS
    Insts = {a}
    Procs = {p}
    Ops = {"create", "start", "stop", "reset", "update"}
    Default = 2
    Timeouts = {0, 1, 3}
    Interval = 2
    StopTime = 1
    MaxTime = 7
    Faults = {"StartInstance", "StopInstance"}
    InTurn = TRUE
    None = None
INVARIANTS RunningIsListed
PROPERTIES CountedFromStart
\* Time ends at MaxTime.
CHECK_DEADLOCK FALSE
