SPECIFICATION Spec
CHECK_DEADLOCK FALSE
CONSTANTS
    NumRequests = 2
    Concurrency = 1
    Retries = 1
    MaxIssues = 1
    Addresses <- MCAddresses
    ApprovedRanges <- MCApprovedRanges
    Targets <- MCTargets
    Collectors = {"snmp", "ssh"}
    Registered = {"snmp"}
    Retryable = {"timeout"}
    Permanent = {"collector"}
INVARIANTS
    OthersContinue
