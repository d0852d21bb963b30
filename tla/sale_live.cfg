\* Progress: holds, orders, locks and requests all come to an end.
CONSTANTS
    None = None
    b1 = b1
    b2 = b2
    Vehicles = {v1}
    Buyers = {b1, b2}
    Orders = {o1}
    Requests = {r1, r2}
    Sweepers = {s1}
    Listings <- OnlyBuyNow
    HoldTime = 1
    MaxTime = 2
    LockMayExpire = FALSE
SPECIFICATION FairSpec
\* All orders used, all requests answered and the clock at its bound: the instance stops.
CHECK_DEADLOCK FALSE
PROPERTIES
    ExpiredHoldEnds
    OverdueOrderSettles
    LockIsFreed
    EveryRequestEnds
