CONSTANTS
    operator = operator
    alice = alice
    bob = bob
    th1 = th1
    th2 = th2
    t1 = t1
    t2 = t2
    t3 = t3
    t4 = t4
    r1 = r1
    w1 = w1
    w2 = w2
    w3 = w3
    Principals = {operator, alice, bob}
    Threads = {th1, th2}
    Methods <- MethodsMC
    MethodsOf <- MethodsOfMC
    ScopeOf <- ScopeOfMC
    Everything = Everything
    BearerTokens = {t1, t2, t3, t4}
    Managed = {t2, t4}
    MaxTime = 1
    None = None
    Ids = {1, 2}
    Places = {1, 2}
    MaxCancels = 2
    Readers = {r1}
    FilterOf <- FilterMC
    TokensOf <- TokensMC
    MaxEvents = 2
    MaxDrops = 2
    local = local
    http = http
    Servers = {local, http}
    Asked <- AskedMC
    Workers = {w1, w2, w3}
    WorkOf <- WorkMC
    Cast <- CastMC
    MaxFeed <- MaxFeedMC
    FirstTokens <- FirstMC
SPECIFICATION Spec
CHECK_DEADLOCK FALSE
INVARIANTS SteeringOnce FeedTellsTruth FeedIsReplayed
PROPERTIES ReadersCatchUp
