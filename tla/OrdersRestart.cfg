CONSTANTS
    Orders = {o1, o2}
    Quantities = {1, 2}
    Ends = {"OrderCanceled", "OrderRejected"}
    MayAmend = FALSE
    Unit = 10
    Tolerance = 2
    Rounding <- MCUlp
    MaxOrders = 2
    RateLimit = 1
    ChannelCached = TRUE
    SendMayFail = FALSE
    MaxEvents = 6
    MaxRestarts = 1
    Unknown = Unknown
SPECIFICATION FairSpec
CHECK_DEADLOCK FALSE
INVARIANTS
    TypeOK
    SuppressedFillsKept
    SettledOrdersShown
    OneSummaryPerOrder
    KnownTotalIsWhole
    SlotsReleased
PROPERTIES
    OrdersSettle
