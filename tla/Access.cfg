SPECIFICATION Spec
CONSTANTS
    admin = admin
    owner = owner
    v1 = v1
    v2 = v2
    s1 = s1
    s2 = s2
    b1 = b1
    r1 = r1
    r2 = r2
    Users = {admin, owner}
    Admins = {admin}
    Servers = {v1, v2}
    OwnerOf <- OneEach
    Subs = {s1, s2}
    Backups = {b1}
    Bodies <- SomeBodies
    Ops <- SomeOps
    Requests = {r1, r2}
    MaxBegun = 3
    None = None
SYMMETRY Symmetry
INVARIANTS IInv GhostsHoldNothing LockParity
PROPERTIES ByRight LockedStays
CHECK_DEADLOCK FALSE
