SPECIFICATION Spec
CONSTANTS
    a = a
    u = u
    n = n
    s = s
    t1 = t1
    t2 = t2
    Users = {a, u}
    Nodes = {n}
    Servers = {s}
    Seeds = {a}
    Tabs = {t1, t2}
    AdminPages = {"users", "nodes"}
    Api = Api
    AccessTTL = 1
    RefreshTTL = 2
    MaxClock = 2
    MaxPending = 1
    MaxIssued = 3
    None = None
SYMMETRY Symmetry
INVARIANTS IInv PageHoldsToken
PROPERTIES SftpSound
CHECK_DEADLOCK FALSE
