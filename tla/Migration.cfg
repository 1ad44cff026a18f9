CONSTANTS
    Sources <- MCSources
    NoTables <- MCNoTables
    Requests <- MCRequests
    Mappings <- MCMappings
    SeedTags <- MCSeedTags
    SeedFolders <- MCSeedFolders
    MaxRuns = 2
    MaxLinks = 1
    MaxTrouble = 1
    Troubles = {"row", "read", "db", "cut", "lost"}
SPECIFICATION MigrationSpec
CHECK_DEADLOCK FALSE
INVARIANTS MigrationTypeOK AllOrNothing ReferencesKept OnlyScannedLinks
