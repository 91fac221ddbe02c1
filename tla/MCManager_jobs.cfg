SPECIFICATION MCSpec
CONSTANTS
    j1 = j1
    j2 = j2
    a1 = a1
    a2 = a2
    k1 = k1
    k2 = k2
    i1 = i1
    t1 = t1
    x1 = x1
    x2 = x2
    n1 = n1
    n2 = n2
    c1 = c1
    c2 = c2
    AutoTarget = AutoTarget
    None = None
    Jobs = {j1, j2}
    Attempts = {a1, a2}
    Workers = {1, 2}
    Keys = {k1, k2}
    Inputs = {i1}
    Kinds <- MCKinds
    Registrations <- MCMixed
    Terms = {1}
    Statuses = {"succeeded", "cancelled"}
    Tags = {t1}
    ArtifactIds = {x1, x2}
    Names = {n1, n2}
    Contents = {c1, c2}
    Size <- MCUnevenSize
    Manifests <- MCManifests
    LeaseTTL = 1
    OfflineAfter = 0
    CacheBytes = 3
    MaxArtifacts = 2
    MaxTime = 3
SYMMETRY Symmetry
INVARIANTS
    WaitReasonHonest
    ManifestBacked
    ServedBytesAreStored
PROPERTIES
    KeepsContract
    UnconfirmedCancelStays
