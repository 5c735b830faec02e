SPECIFICATION Spec
CONSTANTS
    Workline = {w1}
    Hash = {h1}
    MaxRevision = 1
    None = None
    Channel = {c1, c2}
    Operation = {o1}
    MaxOperations = 1
    MaxCrash = 1
INVARIANT
    SettledLeavesNothing
