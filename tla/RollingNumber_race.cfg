SPECIFICATION Spec
CONSTANTS
    Proc = {p1, p2, p3}
    Window = 1
    Amounts <- MCAmounts
    Start = 2
    MaxClock = 5
    MaxLag = 1
    MaxOps = 4
    MaxResets = 1
INVARIANTS WindowExact ResetForgets ScanBounded
SYMMETRY Symmetry
