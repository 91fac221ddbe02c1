SPECIFICATION DiscoverySpec
CONSTANTS
    Nil = Nil
    Nodes <- MCNodes
    Comments = {"note"}
    NameOf <- MCNameOf
    Functions = {"fixture", "old", "new", "helper", "loop", "user", "shadow"}
    Inert = {"old", "new", "helper", "loop", "user"}
    Plain = {"new", "helper", "loop", "user", "shadow"}
    Helpers = {"helper", "loop"}
    Calls <- MCCalls
    Imports = {"import"}
    Names = {"code", "test", "big", "module", "secret"}
    Ranked <- MCRanked
    Secret = {"secret"}
    Modules = {"code", "test", "module"}
    CodeFile = "code"
    TestFile = "test"
    Authority = TRUE
    Size <- MCSize
    Frame = 1
    FirstLimit = 4
    Limit = 10
    AutoMax = 2
    AskedMax = 4
    Least = 2
    FirstBatch = 2
    Batch = 1
    MaxFiles = 2
    MaxAsked = 2
    Rounds = 3
    Attempts = 2
    Codes = {"base", "fix", "grab"}
    Base = "base"
    Guarded <- MCGuarded
    Reads <- MCReads
    Pure = {"len"}
    Original <- MCOriginal
    TestModules <- MCTestModules
    WrongTests <- MCWrongTests
    Passing <- MCPassing
    MaxEdits = 1
INVARIANTS
    FrozenDiscriminates
PROPERTIES
    DiscoveryEnds
CHECK_DEADLOCK FALSE
