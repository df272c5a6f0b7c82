CONSTANTS
    a = a
    b = b
    Cmds = {c1, c2}
    Sids = {a}
    Topics = {"positions"}
    PeriodicTopics = {"positions"}
    Registry <- MCPartialRegistry
    Channels = {"sandbox"}
    PublishMayFail = TRUE
    PodMayDrop = FALSE
    MaxReports = 1
    AllStrategies = AllStrategies
    Periodic = Periodic
SPECIFICATION Spec
CHECK_DEADLOCK FALSE
INVARIANTS
    NoListenerLeak
