SPECIFICATION FilesSpec
CONSTANTS
    Failures = {f1, f2}
    Registrations = {g1, g2}
    NoRecord = NoRecord
    MaxClock = 4
    MaxCrashes = 1
INVARIANT RegistrationCommitted
CHECK_DEADLOCK FALSE
