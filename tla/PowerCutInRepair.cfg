SPECIFICATION Spec
CONSTANTS
    PerHour = 1
    PerDay = 2
    Hourly = 24
    Daily = 30
    Build <- TwoBuilds
    Migrations <- MigrationsOf
    MaxMatches = 1
    MaxStamp = 0
    MaxFaults = 3
INVARIANT
    EmptyStartIsReported
CHECK_DEADLOCK FALSE
