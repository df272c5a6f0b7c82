CONSTANTS
    Orders = {o1, o2}
    Quantities = {1, 2, 3}
    Ends = {"OrderCanceled", "OrderExpired", "OrderDenied"}
    MayAmend = TRUE
    Unit = 10
    Tolerance = 1
    Rounding <- MCUlp
    MaxOrders = 1
    RateLimit = 2
    ChannelCached = FALSE
    SendMayFail = TRUE
    MaxEvents = 5
    MaxRestarts = 1
    Unknown = Unknown
SPECIFICATION Spec
CHECK_DEADLOCK FALSE
SYMMETRY MCSymmetry
INVARIANTS
    TrackerBounded
    KnownTotalIsWhole
