SPECIFICATION Spec
CONSTANTS
    Session = {a, b}
    NoSession = none
    MaxRebindSteps = 4
    MaxPublishers = 1
    Caller = {c1, c2}
    Checkpoint = {B}
    Proven = {B}
    TurnId = {t}
    NoCheckpoint = none
    OtherId = other
    LedgerSize = 1
    MaxWritten = 2
    Attempt = {a1, a2, a3}
    Failure = {f}
    Context = {x, y}
    HistorySize = 2
    ReservationSize = 2
    Writer = {w1, w2}
    MaxCommands = 2
    Histories <- MCHistories
    Client = {k1, k2}
    NoClient = nobody
    MaxBrokers = 2
    Migrator = {m1, m2}
    NoMigrator = nobody
    Epoch = {e1, e2}
    Item = {i1}
    Staged = {e1}
    MaxOperations = 3
    MaxUserMoves = 1
    MaxGeneration = 1
    Viewer = {v1}
    CompletedDays = 1
    TrashDays = 1
    EvidenceDays = 3
    OldSettings <- MCOldSettings
    LastDay = 5
    MaxTaskRevision = 2
    MaxSettings = 2
    Turn = {t1, t2}
    Learner = {l1}
    Intent = {n1}
    NoReceipt = none
    TelemetrySize = 2
    MaxTurns = 3
    MaxContract = 2
    MaxStamps = 4
    Decision = {d1, d2}
    Gates = {d1}
    Validator = {d}
    MaxDecisionRevision = 2
    MaxReceipts = 2
    p1 = p1
    p2 = p2
    p3 = p3
    PlanItem = {p1, p2, p3}
    Graph <- MCGraph
    Planner = {q1, q2}
    MaxPlanRevision = 2
    MaxDagRevision = 3
    Workline = {l1, l2}
    NoWorkline = nobody
    MaxInstances = 2
    MaxChannels = 2
    MaxBindings = 1
    TaskLine = {l1, l2}
    NoLine = nobody
    Packets <- MCPackets
    MaxTaskRevisions = 3
    MaxTurnCalls = 2
    MaxVersions = 2
    MaxOutside = 2
    Opener = {o1, o2}
    StartVersion = {0, 3, 16}
    TaskRow = {r1}
    MaxOpens = 2
    MaxSweeps = 2
    Speaker = {u1, u2}
    Wish = {wish}
    Confirmation = ok
    NoWish = nobody
    MaxAnchors = 2
    MaxSets = 3
    SourceFile = {f1, f2}
    Bytes <- MCBytes
    History <- MCHistory
    Gone = gone
    NoReview = noreview
    MaxEdits = 2
    Invoker = {h1, h2}
    NoInvoker = nobody
    Stamped <- MCStamped
    MaxRequests = 1
    MaxUpdates = 1
    MaxWorkers = 2
    MaxReapers = 2
CHECK_DEADLOCK FALSE
INVARIANTS
    TypeOK
    OneHandOffAtATime
    ReaderIsNotMisled
    TransitionsAreTrue
    BudgetIsSpentOnce
    LoneWritersFailClosed
    PurgeIsOfThisForgetting
    EndpointNamesTheHolder
    OnlyItsOwnCards
    EvidenceIsTraceable
    CompletionIsEarned
    CurrentDagOffersWork
    ScopeIsItsOwn
    TurnRestsOnOneRevision
    UpgradeLosesNothing
    UserIsHeard
    ImportedAsReviewed
    ResidentIsWatchedAndCurrent
PROPERTIES
    IntentMovesOnFreshAuthority
    OnlyAFreshPairIsLost
    RollbackSparesTheUsersCards
    RestoredCardIsProtected
    BindingNeverGoesBack
