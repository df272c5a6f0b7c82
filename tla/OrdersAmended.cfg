CONSTANTS
    Orders = {o1}
    Quantities = {1, 2}
    Ends = {"OrderCanceled", "OrderRejected"}
    MayAmend = TRUE
    Unit = 10
    Tolerance = 1
    Rounding <- MCExact
    MaxOrders = 2
    RateLimit = 2
    ChannelCached = TRUE
    SendMayFail = FALSE
    MaxEvents = 5
    MaxRestarts = 0
    Unknown = Unknown
SPECIFICATION Spec
CHECK_DEADLOCK FALSE
INVARIANTS
    SettledOrdersShown
