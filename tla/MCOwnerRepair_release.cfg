SPECIFICATION MCSpec
CONSTANTS
    ready = ready
    commented = commented
    None = None
    Jobs = {1, 2}
    Evidences = {ready, commented}
    Ready = {ready, commented}
    Relay = TRUE
    MaxCrashes = 2
    MaxGrants = 2
INVARIANTS
    ReleasedAsAuthorized
    RecordsAgree
PROPERTIES
    KeepsPromise
    EveryRepairEnds
CHECK_DEADLOCK FALSE
