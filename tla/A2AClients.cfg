CONSTANTS
    p1 = p1
    p2 = p2
    a1 = a1
    c1 = c1
    None = None
    Foreign = foreign
    Processes <- ProcessesMC
    Journaled <- JournaledMC
    MaxTasks = 3
    MaxMessages = 3
    MaxCalls <- MaxCallsMC
    Arts <- ArtsMC
    Limits <- LimitsMC
    Clients <- ClientsMC
    Watched = 1
    Filters <- FiltersMC
    MaxDrops = 1
    PageSize = 1
SPECIFICATION Spec
INVARIANTS FeedIsExact StreamNamesAll ReplyAnswersItsMessage PagesMissNothing
PROPERTIES TaskEvolves SubscriptionEnds
CHECK_DEADLOCK FALSE
