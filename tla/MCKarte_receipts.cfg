SPECIFICATION Spec
CHECK_DEADLOCK FALSE
CONSTANTS
    None = None
    Payloads = {"p1"}
    Metadata = {"m1", "m2"}
    Sound <- MCSound
    Phases = {"pending", "report_accepted"}
    Terminal = {"report_accepted"}
    Receipts = {"r1", "r2"}
    Unreadable = Unreadable
    JobStates = {"review_ready", "running"}
    Stopped = {"review_ready"}
    MaxCrashes = 2
    MaxDisturbed = 1
INVARIANTS
    NothingMissing
PROPERTIES
    KeepsContract
    CommitsEnd
