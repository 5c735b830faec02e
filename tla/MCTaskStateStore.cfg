SPECIFICATION Spec
CONSTANTS
    Process = {p1, p2}
    None = None
    Absent = Absent
    Foreign = Foreign
    EntityRequests <- MCEntityRequests
    MaxRevision = 2
    MaxFaults = 2
SYMMETRY Symmetric
INVARIANTS
    TypeOK
    OneTransactionAtATime
    ProjectionIsAReplay
    PreparedCanBeReplayed
PROPERTIES
    FilesFollowJournal
