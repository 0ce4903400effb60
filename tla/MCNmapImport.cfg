SPECIFICATION FairSpec
CONSTANTS
    NumPaths = 2
    Stages <- MCStages
    Importers = {timer, operator}
    Stability = 1
    Retention = 1
    MaxTime = 3
    MaxFaults = 1
INVARIANTS
    ImportsSound
PROPERTIES
    FinishedScansImported
