CONSTANTS
    foo = foo
    xfoo = xfoo
    Sids = {foo, xfoo}
    HandlesOf <- MCHandlesOf
    Boots <- MCBoots
    Commanded = {xfoo}
    Expected = "v1"
    Kinds <- MCKinds
    MaxBoots = 2
    MaxEvents = 2
    MaxFaults = 1
SPECIFICATION FairSpec
CHECK_DEADLOCK FALSE
INVARIANTS
    TypeOK
    EveryEntryOnce
    RegistryNewest
    DriftWarnedOnce
PROPERTIES
    RoutedAsAnnounced
    AnnouncesHeard
    EntriesHandled
