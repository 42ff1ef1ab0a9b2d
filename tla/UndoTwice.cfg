SPECIFICATION Spec
CONSTANTS
    p1 = p1
    p2 = p2
    a = a
    b = b
    Phone <- OnePhone
    Key <- TwoKeys
    Watched = {}
    MaxUndoTaps = 1
    MaxCommits = 4
    MaxLate = 1
INVARIANT
    UndoTapTakesOneDart
CHECK_DEADLOCK FALSE
