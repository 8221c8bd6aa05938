SPECIFICATION FairSpec
CONSTANTS
    v1 = v1
    s1 = s1
    s2 = s2
    t1 = t1
    t2 = t2
    c1 = c1
    c2 = c2
    Servers = {v1}
    Schedules = {s1, s2}
    Tasks = {t1, t2}
    Creators = {c1, c2}
    NoSchedule = NoSchedule
    ServerOf <- OneServer
    OnlyOnline = {s1}
    Persistent = {t2}
    Endless = {}
    Failures = {"dberror", "crash"}
INVARIANTS FlagTold FiresDue DistinctAlone IInv
PROPERTIES DueRuns
CHECK_DEADLOCK FALSE
