SPECIFICATION Spec
CONSTANTS
    Proc = {p1, p2}
    Name = {"a", "b"}
    Field <- MCField
    DefaultOf <- MCDefaultOf
    Configs <- MCConfigs
    MaxOps = 2
    None = None
INVARIANT ConfiguredHolds
