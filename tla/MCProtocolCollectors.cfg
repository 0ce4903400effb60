SPECIFICATION FairSpec
CONSTANTS
    Kinds = {"snmp", "ssh", "unifi", "ad"}
    NumReads = 2
    MaxSize = 3
    Retries = 1
    Batch = 2
    MaxTableRows = 4
    PageSize = 1
    MaxPages = 3
    MaxItems = 2
    MaxEntries = 2
INVARIANTS
    LossDisclosed
    StoredOnce
    SessionsSound
PROPERTIES
    CollectionEnds
