SPECIFICATION Spec
CONSTANTS
    None = None
    base = base
    broken = broken
    fixed = fixed
    wide = wide
    Contents = {base, broken, fixed, wide}
    Base = base
    Passing = {base, fixed, wide}
    Repairable = {broken}
    InScope = {base, broken, fixed}
    Contracts <- MCContracts
    Touchable = {"pins", "verifier", "candidate", "index", "patch", "bundle"}
    MaxTouched = 2
    MaxStarts = 2
CHECK_DEADLOCK FALSE
INVARIANTS
    IntegratesWhatWasAudited
    ExternalIsVerified
    StagesRunOnce
    OneModelAtATime
