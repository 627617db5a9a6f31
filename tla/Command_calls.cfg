SPECIFICATION FairSpec
CONSTANTS
    Cmd = {c1, c2}
    Max = 1
    Chan = {h1, h2}
    Timer = {t1, t2}
    WithContext = {c1}
    HasFallback = {c1}
    RunErrs = {{}, {"application"}, {"circuit open"}}
    FallbackErrs = {{}, {"fallback"}}
    None = None
INVARIANTS
    TypeOK
    TicketConservation
    OwnResult
    SendNeverBlocks
    OverrunOnlyAbandoned
    TimerExclusive
    OutcomeSound
PROPERTIES
    ImplementsBulkhead
    CallReturns
