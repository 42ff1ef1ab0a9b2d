SPECIFICATION Spec
ACTION_CONSTRAINT AtTheSameMoment
CONSTANTS
    f1 = f1
    f2 = f2
    Spelling <- TypedNames
    Fold <- Folded
    AccentCount = 2
    PageSize = 1
    Clock <- TwoReadings
    Lineups <- NoLineups
    MaxRows = 2
    Phone <- TwoPhones
INVARIANTS
    SharedColoursWerePicked
