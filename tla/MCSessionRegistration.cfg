SPECIFICATION FairSpec
CONSTANTS
    s1 = s1
    s2 = s2
    s3 = s3
    a1 = a1
    b1 = b1
    a2 = a2
    b2 = b2
    b3 = b3
    c3 = c3
    u1 = u1
    u3 = u3
    A = A
    B = B
    C = C
    Snapshots = {s1, s2, s3}
    Intents = {a1, b1, a2, b2, b3, c3}
    Unscored = {u1, u3}
    Semantics = {A, B, C}
    None = None
    Failed = Failed
    MaxFaults = 2
    IntentsOf <- MCIntentsOf
    UnscoredOf <- MCUnscoredOf
    SemanticOf <- MCSemanticOf
INVARIANT Resumable
PROPERTIES EventuallyRegistered ImplementsPromise
