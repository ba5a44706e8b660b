SPECIFICATION Spec
CONSTANTS
    c1 = c1
    c2 = c2
    j1 = j1
    j2 = j2
    w1 = w1
    w2 = w2
    NoWorker = NoWorker
    Reclaimer = Reclaimer
    Jobs <- TwoJobs
    Workers <- TwoWorkers
    Conns <- TwoConns
    WorkerOf <- SameWorker
    Serves <- ServesAll
    Target <- OnSecond
    Hard = {j1}
    Lapsing = {}
    MaxRequeue = 1
    MaxGeneration = 0
    MaxAffinity = 0
    MaxSlow = 0
    MaxOutages = 0
    MaxDrops = 2
INVARIANTS
    SoleRunner
    DispatchInv
CHECK_DEADLOCK FALSE
