SPECIFICATION Spec
CONSTANTS
    c1 = c1
    c2 = c2
    j1 = j1
    j2 = j2
    w1 = w1
    w2 = w2
    NoWorker = NoWorker
    Reclaimer = Reclaimer
    Jobs <- OneJob
    Workers <- TwoWorkers
    Conns <- TwoConns
    WorkerOf <- EachItsOwn
    Serves <- OnlySecond
    Target <- NoTarget
    Hard = {}
    Lapsing = {j1}
    MaxRequeue = 1
    MaxGeneration = 1
    MaxAffinity = 0
    MaxSlow = 1
    MaxOutages = 1
    MaxDrops = 1
INVARIANTS
    OneLiveDelivery
    VerdictIsLast
    NeverStranded
PROPERTY
    ImplementsDelivery
CHECK_DEADLOCK FALSE
