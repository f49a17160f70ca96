SPECIFICATION Spec
CONSTANTS
    f1 = f1
    f2 = f2
    d1 = d1
    Filings <- MCFilings
    Documents <- MCDocuments
    DocumentsOf <- MCDocumentsOf
    Workers = 2
    MaximumPasses = 2
    ShardAttempts = 1
    Cooldown = 1
    RetryAfters <- Date
    MaxClock = 3
    MaxFaults = 2
    MaxDeaths = 1
INVARIANT CooldownRespected
CHECK_DEADLOCK FALSE
