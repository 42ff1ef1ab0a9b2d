SPECIFICATION WatchedSpec
ACTION_CONSTRAINT TwoAtOnce
CONSTANTS
    p1 = p1
    p2 = p2
    a = a
    b = b
    Phone <- TwoPhones
    Key <- TwoKeys
    Watched <- SecondPhone
    MaxUndoTaps = 1
    MaxCommits = 4
    MaxLate = 1
INVARIANT
    OneDartPerTap
PROPERTIES
    PaintsForward
    KeypadComesBack
    ScreensConverge
CHECK_DEADLOCK FALSE
