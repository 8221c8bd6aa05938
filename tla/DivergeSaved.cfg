SPECIFICATION PageSpec
CONSTANTS
    k1 = k1
    k2 = k2
    Keys = {k1, k2}
    Root = k1
    Kinds = {"files"}
    PerPage = 1
    MaxRows = 2
    MaxSent <- First
PROPERTIES SavedIsSaved
CHECK_DEADLOCK FALSE
