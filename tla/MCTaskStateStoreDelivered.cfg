SPECIFICATION Spec
CONSTANTS
    Process = {p1, p2}
    None = None
    Absent = Absent
    Foreign = Foreign
    EntityRequests <- MCEntityRequests
    MaxRevision = 2
    MaxFaults = 1
SYMMETRY Symmetric
INVARIANT
    DeliveredIsCommitted
