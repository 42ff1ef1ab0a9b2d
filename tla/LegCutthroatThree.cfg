SPECIFICATION Spec
CONSTANTS
    TopScore = 0
    Targets = {20, 15}
    RuleSet <- CutthroatRules
    Members <- ThreeTeams
    Throw <- CutthroatThrows
    MaxDarts <- CutthroatDarts
INVARIANT
    WonPositionHasWinner
