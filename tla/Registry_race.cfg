SPECIFICATION FairSpec
CONSTANTS
    Proc = {p1, p2, p3}
    Name = {"a", "b"}
    Field <- MCField
    DefaultOf <- MCDefaultOf
    Configs <- MCConfigs
    MaxOps = 3
    None = None
INVARIANTS OneCircuitPerName FlushPurges ExplicitKept TicketsKept SizeStaleUntilFlush
PROPERTIES CircuitsKept OperationsEnd
