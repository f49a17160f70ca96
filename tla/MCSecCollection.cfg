SPECIFICATION FairSpec
CONSTANTS
    f1 = f1
    f2 = f2
    d1 = d1
    Filings <- MCFilings
    Documents <- MCDocuments
    DocumentsOf <- MCDocumentsOf
    Workers = 2
    MaximumPasses = 2
    ShardAttempts = 1
    Cooldown = 1
    RetryAfters <- Seconds
    MaxClock = 3
    MaxFaults = 2
    MaxDeaths = 1
INVARIANTS CheckpointBacked CooldownRespected
PROPERTIES FinishedKept EventuallyComplete ImplementsLedger
CHECK_DEADLOCK FALSE
