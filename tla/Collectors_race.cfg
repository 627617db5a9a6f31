SPECIFICATION Spec
CONSTANTS
    Proc = {p1, p2}
    Name <- MCName
    Opened <- MCOpened
    Registered <- MCRegistered
    Primary = {"success", "short-circuit"}
    Secondary = {""}
    MaxCalls = 3
    MaxUpsets = 1
SYMMETRY Symmetry
INVARIANTS  SinksAgree GaugeRecovers
