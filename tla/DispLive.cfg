SPECIFICATION FairSpec
CONSTANTS
    c1 = c1
    c2 = c2
    j1 = j1
    j2 = j2
    w1 = w1
    w2 = w2
    NoWorker = NoWorker
    Reclaimer = Reclaimer
    Jobs <- OneJob
    Workers <- TwoWorkers
    Conns <- TwoConns
    WorkerOf <- EachItsOwn
    Serves <- OnlySecond
    Target <- OnSecond
    Hard = {}
    Lapsing = {j1}
    MaxRequeue = 1
    MaxGeneration = 1
    MaxAffinity = 1
    MaxSlow = 0
    MaxOutages = 0
    MaxDrops = 1
PROPERTY
    PendingIsResolved
CHECK_DEADLOCK FALSE
