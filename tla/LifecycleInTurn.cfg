\* One request after another: all operations, TransferToUser for those that rename
\* a container; a container that has been stopped can be deleted.  No symmetry: it
\* is unsound for liveness.
SPECIFICATION FairSpec
CONSTANTS
    Servers = {s1}
    Names = {n1, n2}
    Ids = {i1, i2}
    VolIds = {v1, v2}
    Devs = {d1}
    Procs = {p1}
    MaxInstances = 2
    Ops = {"CreateAsync", "Create", "Start", "Stop", "Sleep", "Rebuild", "Delete", "TransferToUser"}
    Faults = {"CreateInstance", "StartInstance", "GetInstance", "CreateVolume", "AttachVolume", "DetachVolume", "StopInstance", "DeleteVolume", "RenameInstance"}
    MaxCrashes = 0
    MaxMoves = 2
    None = None
INVARIANTS StatusTruth JoinedVolumesExist
PROPERTIES JoinedVolumesSurvive CreationSettles KeepsBook
\* The platform rests when nobody asks for anything, and the ids run out.
CHECK_DEADLOCK FALSE
