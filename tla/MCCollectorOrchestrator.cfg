SPECIFICATION FairSpec
CHECK_DEADLOCK FALSE
CONSTANTS
    NumRequests = 2
    Concurrency = 1
    Retries = 1
    MaxIssues = 2
    Addresses <- MCAddresses
    ApprovedRanges <- MCApprovedRanges
    Targets <- MCTargets
    Collectors = {"snmp", "ssh"}
    Registered = {"snmp"}
    Retryable = {"timeout", "transport"}
    Permanent = {"authentication", "collector"}
INVARIANTS
    PermitsSafe
    AllOrNoneStarted
    StatusExplained
    EndedRowsClosed
PROPERTIES
    NoAttemptAfterStop
    LedgerSpec
    CycleEnds
