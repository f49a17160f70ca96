SPECIFICATION SystemSpec
CONSTANTS
    b1 = b1
    b2 = b2
    m1 = m1
    m2 = m2
    f1 = f1
    Runs = {r1, r2}
    Bundles <- MCBundles
    Models <- MCModels
    ModelOf <- MCModelOf
    Families <- MCFamilies
    FamilyOf <- MCFamilyOf
    Transactions = {t1}
    Stamps = {s1, s2}
    None = None
    MaxFailures = 1
    Processes = {p1}
    MaxDeaths = 0
INVARIANTS ActivePromoted ConsumedOnce RetiredStays AttestationBacked
PROPERTY ReleaseImplemented
SYMMETRY Symmetry
