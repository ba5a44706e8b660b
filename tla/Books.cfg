SPECIFICATION BooksSpec
CONSTANTS
    a1 = a1
    a2 = a2
    b1 = b1
    b2 = b2
    r1 = r1
    r2 = r2
    q1 = q1
    q2 = q2
    Draws = {a1, a2, r1}
    DayCaps = {2, 3}
    Wants = {1, 2}
    LastDay = 1
    Exposures = {a1, a2}
    Terminals = {b1, b2}
    Ceiling = 3
    PerRequest = 2
    Amounts = {1, 2}
    FinalDay = 1
    NoExposure = NoExposure
    Calls = {a1, a2, r1}
    SlotLimit = 2
    MaxSlots = 4
    Payees = {a1, a2}
    Senders = {b1, b2}
    MaxTries = 2
    MaxSigned = 2
    MaxBlocks = 2
    NoSender = NoSender
    NoPayee = NoPayee
    Purchases = {a1, a2}
    Permits = {r1, r2}
    BuyerOf <- OneBuyer
    Receipts = {b1, b2}
    Charges = {1}
    Provers = {r1, r2}
    Monitors = {r1}
    NoPermit = NoPermit
    NoReceipt = NoReceipt
    NoPurchase = NoPurchase
    Transfers = {a1, a2, r1}
    Funders = {r1, r2}
    SentBy <- OwnWallets
    Claims = {b1, b2}
    Credits = {1, 2}
    DepositMax = 2
    AccountDayMax = 2
    NetworkDayMax = 3
    FinalDate = 1
    NoTx = NoTx
    NoFunder = NoFunder
    Validators = {a1, a2, q1, q2}
    OperatorOf <- Operators
    Verdicts = {b1, b2}
    QuorumMin = 2
    QuorumTarget = 3
    ProbeAttempts = 2
    Finalizers = {b1, b2}
    NoOutcome = NoOutcome
    Carriers = {b1, b2}
    MaxEntries = 2
    MaxRelayed = 1
    Humans = {a1, a2}
    NodeAccount = r1
    Keys = {r1, r2}
    FirstKey = r1
    MaxPairings = 2
    MaxMerges = 1
    NoHuman = NoHuman
    Destinations = {q1}
    MaxRequests = 2
    MaxConsents = 2
    NoDestination = NoDestination
    Runs = {b1, b2}
    MaxHeight = 2
    AuditJobs = {q1, q2}
    AuditWorker <- OneWorker
    AuditValidator <- TwoValidators
    AuditUnits = {1, 2}
    HourlyCaps = {2, 3}
    LastHour = 1
    Contracts <- Pilots
    ProbeGroups = {a1, a2}
    DailyUnits = 1
    MaxReports = 3
    MaxChanges = 1
    LastMoment = 3
    NoParent = NoParent
    Nodes = {1, 2, 3}
    Owners = {r1, r2, q1, q2}
    ControlGroups = {r1, r2, q1}
    FirstOwner <- ThreeOwners
    FirstGroup <- ThreeOwners
    Polls = {b1, b2}
    MaxEdits = 1
    Enrollments = {a1, a2}
    RigOwners = {r1, r2}
    RigSource = r1
    Visits = {b1, b2}
    MaxFaults = 1
    Nobody = Nobody
SYMMETRY Alike
VIEW Studied
INVARIANTS
    StudyTypeOK
    AllowanceAccounted
    CeilingIsExact
    InFlightBounded
    PaidAtMostOnce
    BooksMatchChain
    
    
    DoneIsSettled
    LinkIsMutual
    ConsentIsMutual
    
    AuditsAccounted
    BudgetHolds
    WitnessesHold
PROPERTIES
    OneKeyPerRig
CHECK_DEADLOCK FALSE
