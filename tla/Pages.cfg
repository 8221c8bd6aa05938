SPECIFICATION PageSpec
CONSTANTS
    k1 = k1
    k2 = k2
    Keys = {k1, k2}
    Root = k1
    Kinds = {"tab", "files", "tasks", "activity"}
    PerPage = 1
    MaxRows = 2
    MaxSent <- FirstAndSecond
INVARIANTS QuietIsFresh ListOfItsKey WalkMissesNone
CHECK_DEADLOCK FALSE
