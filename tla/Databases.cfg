SPECIFICATION Spec
CONSTANTS
    r1 = r1
    r2 = r2
    v1 = v1
    v2 = v2
    d1 = d1
    d2 = d2
    h1 = h1
    h2 = h2
    m1 = m1
    n1 = n1
    n2 = n2
    u1 = u1
    u2 = u2
    p1 = p1
    p2 = p2
    Servers = {v1}
    Hosts = {h1}
    MysqlOf <- OneMysql
    Mysqls = {m1}
    Names = {n1, n2}
    Users = {u1, u2}
    Passwords = {p1, p2}
    Dbs = {d1, d2}
    Requests = {r1, r2}
    None = None
    MayFail = TRUE
SYMMETRY Symmetry
INVARIANTS Login SchemaKept IInv
CHECK_DEADLOCK FALSE
