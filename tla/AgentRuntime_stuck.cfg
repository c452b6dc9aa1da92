\* Two workers on one thread: a crash leaves both items unsettled.
CONSTANTS
    w1 = w1
    w2 = w2
    t1 = t1
    t2 = t2
    None = None
    Items <- ItemsMC
    Workers <- WorkersMC
    Threads <- ThreadsMC
    MaxSteps = 1
    Retryable = FALSE
    MaxTurns = 4
    Deployments <- CrowdOnly
SPECIFICATION FairSpec
PROPERTIES ItemsSettle
CHECK_DEADLOCK FALSE
