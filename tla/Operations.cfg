\* Two instances of two users, both administrators, and one to come; two
\* requests at once.
SPECIFICATION Spec
CONSTANTS
    i1 = i1
    i2 = i2
    i3 = i3
    u1 = u1
    u2 = u2
    k1 = k1
    k2 = k2
    Insts = {i1, i2, i3}
    Users = {u1, u2}
    Keys = {k1, k2}
    MaxName = 2
    Limits = {4}
    Template = 2
    Unset = 0
    Given <- MCGiven
    Admins = {u1, u2}
    GivenKeys <- MCGivenKeys
    Jobs = {1, 2}
    MaxRequests = 3
    None = None
INVARIANTS TypeOK  ConfigFollowsRow KeysFollowOwner HostNamesDiffer 
SYMMETRY MCSymmetry
