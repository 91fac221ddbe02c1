SPECIFICATION CampaignSpec
CONSTANTS
    Nil = Nil
    N = 5
    PlannerOnly = {4}
    Strata = {2}
    MaxFailures = 2
    MaxCrashes = 2
CHECK_DEADLOCK FALSE
INVARIANTS
    SpecRunsOnce
PROPERTIES
    NothingRunsAfterAStop
