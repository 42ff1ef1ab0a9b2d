SPECIFICATION Spec
CONSTANTS
    PerHour = 1
    PerDay = 1
    Hourly = 1
    Daily = 2
    NoTag = 0
    Build <- Builds
    Commits <- TheThird
    Migrations <- MigrationsOf
    MaxMatches = 1
    MaxStamp = 0
    MaxFaults = 0
    Keep = 5
    MaxScripts = 1
PROPERTY
    BackupBeforeMigration
CHECK_DEADLOCK FALSE
