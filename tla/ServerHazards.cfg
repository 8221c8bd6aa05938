SPECIFICATION Spec
CONSTANTS
    r1 = r1
    r2 = r2
    r3 = r3
    s1 = s1
    s2 = s2
    Servers = {s1}
    Requests = {r1, r2, r3}
    NoServer = NoServer
    Ops <- AllOps
    Hazards <- AllHazards
SYMMETRY RequestSymmetry
INVARIANTS StatusTold IInv
PROPERTIES RowLifeSpec AtomicSpec
CHECK_DEADLOCK FALSE
