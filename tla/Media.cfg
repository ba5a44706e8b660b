SPECIFICATION MediaSpec
CONSTANTS
    v1 = v1
    w1 = w1
    w2 = w2
    s1 = s1
    s2 = s2
    s3 = s3
    Videos = {v1}
    Executors = {w1, w2}
    Sockets = {s1, s2, s3}
    SocketWorker <- OnWorkers
    Instances = {i1}
    MaxAttempts = 2
    HeldLimit = 1
    MaxTokens = 2
    Nobody = Nobody
INVARIANTS
    RenderedOnce
    GivenUpUnstarted
PROPERTIES
    ImplementsVideoMoney
    DecidedInTheEnd
CHECK_DEADLOCK FALSE
