\* One request after another: all operations but Create; two dirs, two crashes;
\* the containers and volumes that can be stopped and deleted are.
SPECIFICATION Spec
CONSTANTS
    Servers = {s1}
    Names = {n1, n2}
    Ids = {i1, i2}
    VolIds = {v1, v2, v3, v4}
    Devs = {d1, d2}
    Procs = {p1}
    MaxInstances = 2
    Ops = {"CreateAsync", "Start", "Stop", "Sleep", "Rebuild", "Delete"}
    Faults = {"CreateInstance", "StartInstance", "GetInstance", "CreateVolume", "AttachVolume", "DetachVolume"}
    MaxCrashes = 2
    MaxMoves = 0
    None = None
INVARIANTS VolumesRecorded ContainersHaveRows
SYMMETRY Symmetry
\* The platform rests when nobody asks for anything, and the ids run out.
CHECK_DEADLOCK FALSE
