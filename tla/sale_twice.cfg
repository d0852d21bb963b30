\* README and comments against the code: NeverSoldTwice.
CONSTANTS
    None = None
    b1 = b1
    b2 = b2
    Vehicles = {v1}
    Buyers = {b1, b2}
    Orders = {o1, o2}
    Requests = {r1, r2}
    Sweepers = {}
    Listings <- OnlyBuyNow
    HoldTime = 1
    MaxTime = 4
    LockMayExpire = FALSE
SPECIFICATION Spec
SYMMETRY Symmetry
\* All orders used, all requests answered and the clock at its bound: the instance stops.
CHECK_DEADLOCK FALSE
INVARIANT
    NeverSoldTwice
