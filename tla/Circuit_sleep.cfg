SPECIFICATION Spec
CONSTANTS
    Proc = {p1, p2}
    Viewer = {}
    Outcomes = {"success", "failure"}
    RequestVolumeThreshold = 1
    ErrorPercentThreshold = 50
    SleepWindow = 1
    Window = 2
    Start = 2
    MaxClock = 4
    MaxCalls = 4
SYMMETRY Symmetry
PROPERTIES
    NoEarlyTest
