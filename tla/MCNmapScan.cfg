SPECIFICATION ScanFairSpec
CHECK_DEADLOCK FALSE
CONSTANTS
    Launchers = {l1, l2, l3}
    Helpers = {h1}
    Leader = Leader
    Nobody = Nobody
    MaxLosses = 1
INVARIANTS
    OneScan
PROPERTIES
    LedgerSpec
    LaunchEnds
