SPECIFICATION Spec
CONSTANTS
    Adder = {a1, a2}
    Viewer = {v}
    Resetter = {r}
    Window = 2
    Second = 2
    Start = 4
    MaxClock = 8
    MaxAdds = 3
    MaxViews = 2
    MaxResets = 1
INVARIANTS KeptUnlessRaced CacheRecent ResetForgets BucketsBounded
SYMMETRY Symmetry
