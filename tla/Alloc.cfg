SPECIFICATION Spec
CONSTANTS
    r1 = r1
    r2 = r2
    s1 = s1
    s2 = s2
    a1 = a1
    a2 = a2
    a3 = a3
    far = far
    here = here
    there = there
    Servers = {s1, s2}
    Allocs = {a1, a2, a3, far}
    Requests = {r1, r2}
    NoServer = NoServer
    NoAlloc = NoAlloc
    NodeOf <- Nodes
    Limit = 1
    MayFail = TRUE
SYMMETRY Symmetry
INVARIANTS SameNode LimitOvershoot Kept IInv
CHECK_DEADLOCK FALSE
