SPECIFICATION Spec
CONSTANTS
    Processes = {p1, p2}
    Releases = {r1, r2, r3}
    None = None
    MaxDeaths = 1
PROPERTY ActivationChained
SYMMETRY Symmetry
