SPECIFICATION Spec
ACTION_CONSTRAINT FewRows
CONSTANTS
    f1 = f1
    f2 = f2
    Spelling <- TypedNames
    Fold <- Folded
    AccentCount = 2
    PageSize = 1
    Clock <- TwoReadings
    Lineups <- PracticeOrPair
    MaxRows = 4
    Phone <- OnePhone
INVARIANTS
    ActiveNamesDiffer
    SharedColoursAreExplained
    NothingIsSkipped
