SPECIFICATION MCSpec
CONSTANTS
    Runs = {"nmap", "snmp", "unifi", "ad"}
    Stores <- MCStores
    Generators = {"g1", "g2"}
    Invocations <- MCInvocations
INVARIANTS
    CoverageHonest
    SectionsAgree
    RecordedDocxStays
ACTION_CONSTRAINT
    OneScene
CHECK_DEADLOCK FALSE
