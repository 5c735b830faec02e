SPECIFICATION Spec
CONSTANTS
    Workline = {w1, w2}
    Hash = {h1}
    MaxRevision = 1
    None = None
    Thread = {t1, t2}
    Channel = {c1, c2}
    LeaseSeconds = {1}
    GrantSeconds = {1}
    RefSeconds = 1
    GrantCapacity = 1
    MaxWorklines = 1
    MaxGrant = 1
    MaxLease = 2
    MaxTime = 1
SYMMETRY Symmetric
INVARIANTS
    TypeOK
    WriteLeaseIsTheWriter
    GrantPaysOnce
PROPERTY
    DurableRevisionAdvances
