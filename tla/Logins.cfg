\* The administrator and two more accounts, two API keys, two setups at once.
SPECIFICATION Spec
CONSTANTS
    MaxUser = 3
    root = root
    ana = ana
    Emails = {root, ana}
    Root = root
    s1 = s1
    Subs = {s1}
    EmailOf <- MCEmailOf
    MaxKey = 3
    MaxSetup = 2
    Jobs = {1, 2}
    MaxRequests = 10
    Empty = Empty
    None = None
INVARIANTS TypeOK NoOrphans KeysActForHolders SetupSurvives
PROPERTIES SetupKeysStay
