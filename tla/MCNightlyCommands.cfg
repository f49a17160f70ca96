SPECIFICATION NightlySpec
CONSTANTS
    q1 = q1
    q2 = q2
    Publishers = {p1}
    Readers = {r1, r2}
    Requests = {q1, q2}
    CutoffOf <- MCCutoffOf
    Night = 2
    None = None
    OutcomeCommand = OutcomeCommand
    MaxTime = 1
    MaxGenerations = 2
    MaxDeaths = 1
    MaxPowerLosses = 1
SYMMETRY Symmetry
INVARIANTS UnindexedNeedsDeathAndPowerLoss ReturnedActive
PROPERTIES PointerForward RetryReuses
