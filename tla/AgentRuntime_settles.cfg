\* Threads with one item each: every item is settled although a worker crashes.
CONSTANTS
    w1 = w1
    w2 = w2
    t1 = t1
    t2 = t2
    None = None
    Items <- ItemsMC
    Workers <- WorkersMC
    Threads <- ThreadsMC
    MaxSteps = 1
    Retryable = FALSE
    MaxTurns = 4
    Deployments <- PoolOnly
SPECIFICATION FairSpec
PROPERTIES ItemsSettle
CHECK_DEADLOCK FALSE
