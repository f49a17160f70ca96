SPECIFICATION Spec
CONSTANTS
    Collectors = {p1, p2}
    Polls = {d1, d2, d3}
    Batches = {b1}
    Assets = {x, y}
    None = None
    Cutoffs = {0, 1, 2}
    Gap = 1
    MaxTime = 2
    MaxDeaths = 1
INVARIANTS EvidenceInTime OneIdentity CoverageObserved Committable
SYMMETRY Symmetry
