CONSTANTS
    a = a
    b = b
    Cmds = {c1, c2}
    Sids = {a}
    Topics = {"positions"}
    PeriodicTopics = {"positions"}
    Registry <- MCPartialRegistry
    Channels = {"sandbox"}
    PublishMayFail = FALSE
    PodMayDrop = FALSE
    MaxReports = 2
    AllStrategies = AllStrategies
    Periodic = Periodic
SPECIFICATION Spec
CHECK_DEADLOCK FALSE
INVARIANTS
    NothingSwallowed
