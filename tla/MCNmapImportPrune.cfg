SPECIFICATION Spec
CONSTANTS
    NumPaths = 1
    Stages <- MCOneStage
    Importers = {timer}
    Stability = 1
    Retention = 1
    MaxTime = 5
    MaxFaults = 0
INVARIANTS
    ImportedOnce
