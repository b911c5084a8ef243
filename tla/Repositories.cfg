\* Two repositories of one name on different hosts, a third, two jobs at once.
SPECIFICATION FairSpec
CONSTANTS
    app = app
    fork = fork
    lib = lib
    n1 = n1
    n2 = n2
    h1 = h1
    h2 = h2
    Urls = {app, fork, lib}
    Names = {n1, n2}
    NameOf <- MCNameOf
    Hosts = {h1, h2}
    HostOf <- MCHostOf
    MaxId = 3
    Managed = {m1}
    Jobs = {1, 2}
    MaxRequests = 4
    None = None
INVARIANTS TypeOK ReadyIsCloned NothingLeftBehind
PROPERTIES CloneEnds
