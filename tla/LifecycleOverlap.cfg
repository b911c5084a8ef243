\* Two requests at once on two names, with the synchronous Create of Duplicate and
\* the Rename of one instance.
SPECIFICATION Spec
CONSTANTS
    Servers = {s1}
    Names = {n1, n2}
    Ids = {i1, i2}
    VolIds = {v1, v2}
    Devs = {d1}
    Procs = {p1, p2}
    MaxInstances = 2
    Ops = {"CreateAsync", "Create", "Rebuild", "Delete", "Rename"}
    Faults = {"AttachVolume", "StartInstance", "DeleteInstance"}
    MaxCrashes = 0
    MaxMoves = 1
    None = None
INVARIANTS JoinIntegrity MemoryHolds NoSharedVolume
SYMMETRY Symmetry
\* The platform rests when nobody asks for anything, and the ids run out.
CHECK_DEADLOCK FALSE
