SPECIFICATION Spec
CONSTANTS
    j1 = j1
    j2 = j2
    j3 = j3
    k1 = k1
    k2 = k2
    Jobs = {j1, j2, j3}
    Keys = {k1, k2}
    Budgets = {2, 4}
    Uses = {0, 2, 4}
    Terms = {16}
    Instants = {0, 2, 15}
    MinRemaining = 6
    Margin = 2
    MinChild = 3
    MaxTerm = 720
    None = None
SYMMETRY Symmetry
INVARIANTS
    AllowanceHeld
