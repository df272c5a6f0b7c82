SPECIFICATION Spec
CONSTANTS
    p1 = p1
    p2 = p2
    v1 = v1
    v2 = v2
    o1 = o1
    o2 = o2
    o3 = o3
    Pods <- TwoPods
    Orders = {o1, o3}
    Venues = {v1}
    Owner <- OwnerTwoPods
    VenueOf <- VenueTwoPods
    TraderId <- DefaultTraders
    Configs <- DocumentedOnly
    MaxBoots = 3
    NoSnap = NoSnap
CHECK_DEADLOCK FALSE
INVARIANTS
    OwnBalances
