CONSTANTS
    a = a
    b = b
    Cmds = {c1, c2}
    Sids = {a, b}
    Topics = {"positions"}
    PeriodicTopics = {}
    Registry <- MCRegistry
    Channels = {"sandbox"}
    PublishMayFail = TRUE
    PodMayDrop = TRUE
    MaxReports = 2
    AllStrategies = AllStrategies
    Periodic = Periodic
SPECIFICATION FairSpec
CHECK_DEADLOCK FALSE
INVARIANTS
    WaitersRegistered
    SlotsHeldOnlyWhileWaiting
    AlwaysResumable
PROPERTIES
    EveryCommandAnswered
    ImplementsService
