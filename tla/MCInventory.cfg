SPECIFICATION InventorySpec
CONSTANTS
    Batches <- MCBatches
    StableKeys = {1, 2, 3}
    Serials = {2, 3}
    Scenes <- MCScenes
    AsOf = 5
    Never = 99
    Absent = Absent
    h1 = h1
    h2 = h2
    inside = inside
    inside2 = inside2
    outside = outside
    Hosts = {h1, h2}
    Malformed = Malformed
    HostAddresses = {inside, inside2, outside}
    ApprovedRange = {inside, inside2}
    StoredEvidence <- MCStored
    SrvQueries = 2
    ProbeConcurrency = 1
INVARIANTS
    DevicesSound
    GraphShowsValidEvidence
    DetectionHonest
CHECK_DEADLOCK FALSE
