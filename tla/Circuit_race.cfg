SPECIFICATION Spec
CONSTANTS
    Proc = {p1, p2, v}
    Viewer = {v}
    Outcomes = {"success", "failure", "context_canceled"}
    RequestVolumeThreshold = 2
    ErrorPercentThreshold = 50
    SleepWindow = 1
    Window = 1
    Start = 2
    MaxClock = 4
    MaxCalls = 5
SYMMETRY Symmetry
INVARIANTS
    TypeOK
    AnswerWasTrue
    ErrorsForgotten
PROPERTIES
    TestsSpaced
    EarlyOnlyBeforeStore
    OpensOnMeasure
    OpensOnNewErrors
