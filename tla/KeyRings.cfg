\* An administrator, an owner of an instance and a third user; two requests at once.
SPECIFICATION Spec
CONSTANTS
    Users = {admin, u1, u2}
    Admins = {admin}
    Owners = {u1}
    Assignees = {u1, u2}
    Holders = {admin, u1, u2}
    PubKeys = {k1}
    UserKeys = {g1, g2}
    Managed = {m1}
    Procs = {p1, p2}
    MaxRequests = 5
    Ops = {"CreateSSHKey", "DeleteSSHKey", "GenerateUserKey", "DeleteUserKey", "Generate", "Delete", "SetUsers", "DeleteUser", "ReapplySetup", "Rebuild", "AddAuthorizedKey"}
    Faults = {"WriteFile"}
    None = None
INVARIANTS TypeOK AvailabilityIsIntended DiskMatchesRows AccessIsGranted
SYMMETRY Symmetry
