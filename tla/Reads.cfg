SPECIFICATION SweepSpec
ACTION_CONSTRAINT WithinTotal
CONSTANTS
    Targets = {20}
    TopScore = 0
    NTeams = 2
    BestOf = 3
    StartRule = "alternate"
    FixedTeam = 0
    Dart <- CricketDarts
    MaxDarts = 4
    MaxTotal = 4
    FirstDarts = 2
    MaxOvertakes = 1
    LegVerdict <- EngineVerdict
    Rules <- Standard
    Members <- OneAndTwo
INVARIANTS
    CricketRowsAddUp
    VerifyFindsNothing
    AnswersAreOfTheirBoard
    NotFoundOnlyAfterAnUndo
    SweepReportIsExplained
    ReportsFollowPlay
    ConstraintsHold
PROPERTY
    SweepChangesNothing
