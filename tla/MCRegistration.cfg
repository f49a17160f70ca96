SPECIFICATION Spec
CONSTANTS
    p1 = p1  p2 = p2  a1 = a1  a2 = a2  u = u  s1 = s1  d1 = d1  h1 = h1  h2 = h2  r1 = r1  r2 = r2
    None = None
    Procs = {p1, p2}
    Intents = {a1, a2}
    Unscored = {u}
    Semantics = {s1}
    Sessions = {d1}
    Horizons = {h1, h2}
    SemanticOf <- MCSemanticOf
    SessionOf <- MCSessionOf
    HorizonOf <- MCHorizonOf
    Results = {r1, r2}
    Times = {1}
    HorizonClose = 1
    Deadline = 2
    Leased = FALSE
    MaxAttempts = 0
    MaxCrashes = 1
INVARIANTS IndexComplete RegistrationWhole HorizonsCoverObservations OutcomeBacked
PROPERTY ImplementsLedger
