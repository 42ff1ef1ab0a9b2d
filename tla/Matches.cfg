SPECIFICATION RowsSpec
ACTION_CONSTRAINT WithinTotal
CONSTANTS
    Targets = {}
    TopScore = 4
    NTeams = 3
    BestOf = 3
    StartRule = "loser_starts"
    FixedTeam = 1
    Dart <- WinBustOrWait
    MaxDarts = 6
    MaxTotal = 7
    FirstDarts = 2
    LegVerdict <- EngineVerdict
    Rules <- ShortLeg
    Members <- OneTwoOne
INVARIANTS
    TypeOK
    WinnersFollowDarts
    OneOpenLegAndItIsLast
    ChampionByTally
    StarterChain
    UndoRevertsThrow
    RowsAgreeWithReplayMatch
    VerifyFindsNothing
    VerifyMissesNothing
    RowsSitWithTheirThrowers
    ConstraintsHold
    ReportsFollowPlay
PROPERTY
    ImplementsLedger
