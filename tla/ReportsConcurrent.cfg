CONSTANTS
    a = a
    b = b
    Cmds = {c1, c2}
    Sids = {a}
    Topics = {"positions", "fills"}
    PeriodicTopics = {"positions"}
    Registry <- MCPartialRegistry
    Channels = {"sandbox", "logging"}
    PublishMayFail = FALSE
    PodMayDrop = TRUE
    MaxReports = 2
    AllStrategies = AllStrategies
    Periodic = Periodic
SPECIFICATION Spec
CHECK_DEADLOCK FALSE
SYMMETRY MCSymmetry
INVARIANTS
    TypeOK
    WaitersRegistered
    ResultsMatchRequests
    ReplyNeverMissed
    AlwaysResumable
PROPERTIES
    FuturesSettleOnce
    ImplementsService
