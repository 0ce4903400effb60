SPECIFICATION FairSpec
CONSTANTS
    Addresses = {inside, inside2, outside}
    None = None
    inside = inside
    inside2 = inside2
    outside = outside
    vault = vault
    url1 = url1
    Documents <- MCDocuments
    NumMigrations = 2
    MaxFaults = 2
INVARIANTS
    ScheduledRequestsAccepted
    RunHasSchema
PROPERTIES
    RecoverySparesLiveRuns
    AbandonedRowsRecovered
    LaterCyclesRun
    StopEndsService
CHECK_DEADLOCK FALSE
