SPECIFICATION FairServiceSpec
CONSTANTS
    j1 = j1
    a1 = a1
    k1 = k1
    AutoTarget = AutoTarget
    None = None
    W = 1
    Jobs = {j1}
    Attempts = {a1}
    Workers = {1}
    Keys = {k1}
    Inputs = {"search", "extract"}
    ModeOf <- MCModeOf
    Documents = {"s1.html"}
    Kinds = {"web.collect"}
    Registrations <- MCOneSlot
    Terms = {1, 2}
    Statuses = {"succeeded", "partial", "failed", "cancelled"}
    Tags = {"whole", "cut"}
    ArtifactIds <- MCIds
    Names = {"s1.html", "result-pack"}
    Contents <- MCContents
    Size <- MCUnitSize
    Manifests <- MCAnyManifest
    LeaseTTL = 2
    OfflineAfter = 1
    CacheBytes = 2
    MaxArtifacts = 2
    MaxTime = 4
INVARIANTS
    NoJobAbandoned
    NoWorkAfterTheEnd
    CutSearchIsNoSuccess
PROPERTIES
    EveryJobEnds
