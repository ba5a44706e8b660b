SPECIFICATION Spec
CONSTANTS
    c1 = c1
    c2 = c2
    j1 = j1
    j2 = j2
    w1 = w1
    w2 = w2
    NoWorker = NoWorker
    Reclaimer = Reclaimer
    Jobs <- TwoJobs
    Workers <- TwoWorkers
    Conns <- OneConn
    WorkerOf <- SameWorker
    Serves <- ServesAll
    Target <- NoTarget
    Hard = {}
    Lapsing = {}
    MaxRequeue = 2
    MaxGeneration = 1
    MaxAffinity = 0
    MaxSlow = 0
    MaxOutages = 0
    MaxDrops = 1
PROPERTY
    RetriesAreAttempts
CHECK_DEADLOCK FALSE
