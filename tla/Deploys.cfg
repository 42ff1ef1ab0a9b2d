SPECIFICATION Spec
CONSTANTS
    PerHour = 1
    PerDay = 1
    Hourly = 1
    Daily = 2
    NoTag = 0
    Build <- Builds
    Commits <- TheThird
    Migrations <- MigrationsOf
    MaxMatches = 1
    MaxStamp = 1
    MaxFaults = 1
    Keep = 1
    MaxScripts = 2
INVARIANTS
    ServedSchemaIsTheBuilds
    NeededImagesStay
ACTION_CONSTRAINT
    TagsAreListed
PROPERTIES
    NothingFiledIsDeleted
    DeletionsRespectTheWindows
    BackupIsOfWhatMigrates
    ComesBackUp
CHECK_DEADLOCK FALSE
