SPECIFICATION Spec
CONSTANTS
    Targets = {20, 15}
    TopScore = 6
    RuleSet <- BothGames
    Members <- TwoTeams
    Throw <- BothThrows
    MaxDarts <- BothDarts
INVARIANTS
    RotationIsRoundRobin
    CompleteVisitsAreSettled
    X01ByDefinition
    CricketByDefinition
    WonPositionHasWinner
    HintsFinish
