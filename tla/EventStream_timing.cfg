SPECIFICATION Spec
CONSTANTS
    Client = {c1, c2}
    Circuits = {x}
    BufferSize = 1
INVARIANT TimingWhileServed
CHECK_DEADLOCK FALSE
