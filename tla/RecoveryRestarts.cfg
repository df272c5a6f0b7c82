SPECIFICATION Spec
CONSTANTS
    p1 = p1
    p2 = p2
    v1 = v1
    v2 = v2
    o1 = o1
    o2 = o2
    o3 = o3
    Pods <- OnePod
    Orders = {o1, o2, o3}
    Venues = {v1, v2}
    Owner <- OwnerOnePod
    VenueOf <- VenueOnePod
    TraderId <- TraderOnePod
    Configs <- ManyConfigs
    MaxBoots = 3
    NoSnap = NoSnap
CHECK_DEADLOCK FALSE
INVARIANTS
    TypeOK
    BalancesFollowFills
    OpenOrdersWork
PROPERTIES
    SnapshotsNeverShrink
