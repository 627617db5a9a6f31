SPECIFICATION FairSpec
CONSTANTS
    Client = {c1, c2}
    Circuits = {x}
    BufferSize = 1
INVARIANTS TypeOK FlagOwned
PROPERTIES Deregistered RoundsEnd StopStops
CHECK_DEADLOCK FALSE
