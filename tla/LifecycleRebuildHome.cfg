\* A Rebuild after a creation that died between container and volumes.
SPECIFICATION Spec
CONSTANTS
    Servers = {s1}
    Names = {n1}
    Ids = {i1, i2}
    VolIds = {v1, v2, v3}
    Devs = {d1}
    Procs = {p1}
    MaxInstances = 2
    Ops = {"CreateAsync", "Rebuild"}
    Faults = {"StartInstance"}
    MaxCrashes = 0
    MaxMoves = 0
    None = None
PROPERTY RebuildProvidesHome
\* The platform rests when nobody asks for anything, and the ids run out.
CHECK_DEADLOCK FALSE
