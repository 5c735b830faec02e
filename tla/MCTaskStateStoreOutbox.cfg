SPECIFICATION Spec
CONSTANTS
    Process = {p1, p2}
    None = None
    Absent = Absent
    Foreign = Foreign
    EntityRequests <- MCCardRequests
    MaxRevision = 3
    MaxFaults = 1
SYMMETRY Symmetric
INVARIANTS
    DeliveredInOrder
    CompletionIsFinal
PROPERTIES
    ImplementsLog
