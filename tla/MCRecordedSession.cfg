SPECIFICATION RecordedSpec
CONSTANTS
    s1 = s1
    s2 = s2
    a1 = a1
    a2 = a2
    c2 = c2
    u2 = u2
    A = A
    C = C
    Snapshots = {s1, s2}
    Intents = {a1, a2, c2}
    Unscored = {u2}
    Semantics = {A, C}
    None = None
    NoRecord = NoRecord
    Registrations = {s1, s2}
    Failed = Failed
    IntentsOf <- MCIntentsOf
    UnscoredOf <- MCUnscoredOf
    SemanticOf <- MCSemanticOf
    Failures = {f1, f2}
    MaxFaults = 2
    MaxClock = 2
    MaxCrashes = 1
INVARIANTS ReportedWhole CommittedUnlessCrash AsOfStableUnlessRepeated
PROPERTY RegistrationImplemented
\* the clock is bounded
CHECK_DEADLOCK FALSE
