SPECIFICATION FairSpec
CONSTANTS
    NumArtifacts = 2
    Backups = {b1}
    Pruners = {p1, p2}
    DetailedDays = 1
    BackupDays = 1
    MaxTime = 2
    MaxFaults = 1
INVARIANTS
    ContentHasMetadata
    SuccessIsComplete
PROPERTIES
    NoEarlyDeletion
    RetentionProgress
