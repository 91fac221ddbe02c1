SPECIFICATION Spec
CONSTANTS
    None = None
    Gone = Gone
    Contents = {"base", "good", "bad"}
    Base = "base"
    Good = {"good", "base"}
    Sources = {"revision", "working-tree"}
    Posix = TRUE
    MaxCancels = 2
INVARIANTS
    SuccessIsBacked
PROPERTIES
    EveryRunSaves
