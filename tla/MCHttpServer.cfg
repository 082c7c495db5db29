CONSTANTS
    h1 = h1
    h2 = h2
    k1 = k1
    k2 = k2
    s = s
    a = a
    b = b
    Client <- MCClient
    Key <- MCKey
    Sampled = {s}
    Rest = {"plain"}
    Handler <- MCHandler
    MaxGrants = 4
    Capacity = 2
    MaxBuckets = 1
    CleanupInterval = 0
    MaxPending = 2
    CacheSize = 2
    TTL = 1
    MaxTime = 3
SPECIFICATION Spec
SYMMETRY MCSymmetry
INVARIANTS RateHolds CacheSound
CHECK_DEADLOCK FALSE
